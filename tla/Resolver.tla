------------------------------ MODULE Resolver ------------------------------
(***************************************************************************)
(* Resolve (internal/resolver/resolver.go) as the dialling of trackers     *)
(* calls it, while the list it checks may be reloaded at any moment.  A    *)
(* host is an address or, Name, has to be looked up, which takes time.     *)
(* The tree keeps no record of the rules it was built from: inForce does,  *)
(* as the addresses they cover.                                            *)
(***************************************************************************)
EXTENDS Blocklist

CONSTANTS Name, NoPort,
          MaxRead   \* bound: lines read in all, and one for each reload

VARIABLES
    enabled,   \* a list was given: BlocklistEnabledForTrackers
    pc,        \* "idle", "lookup", "check" or "done"
    host, ip, port,
    result,    \* "none", "ok" or the error
    inForce, read

callVars == <<enabled, pc, host, ip, port, result>>
vars == <<blocklistVars, callVars, inForce, read>>

Hosts == Addresses \cup {NotV4, Name}

Init ==
    /\ BlocklistInit
    /\ enabled \in BOOLEAN
    /\ pc = "idle" /\ host = Name /\ ip = NotV4 /\ port = NoPort
    /\ result = "none"
    /\ inForce = {} /\ read = 0

Return(what) == pc' = "done" /\ result' = what /\ UNCHANGED <<ip, enabled>>

\* SplitHostPort and Atoi fail (NoPort) or yield a number; a name is looked up.
Resolve(h, p) ==
    /\ pc = "idle"
    /\ host' = h /\ port' = p
    /\ IF p = NoPort THEN Return("syntax")
       ELSE IF p <= 0 \/ p > 65535 THEN Return("ErrInvalidPort")
       ELSE /\ pc' = IF h = Name THEN "lookup" ELSE "check"
            /\ ip' = IF h = Name THEN ip ELSE h
            /\ UNCHANGED <<result, enabled>>
    /\ UNCHANGED <<blocklistVars, inForce, read>>

\* The first IPv4 address of the answer, if there is one; or the lookup fails,
\* its timeout and a done context included.
ResolveIPv4 ==
    /\ pc = "lookup"
    /\ \/ \E a \in Addresses :
            pc' = "check" /\ ip' = a /\ UNCHANGED <<result, enabled>>
       \/ Return("lookup")
       \/ Return("ErrNotIpv4Address")
    /\ UNCHANGED <<blocklistVars, host, port, inForce, read>>

\* Mutant: an IPv4 address given as such is not checked.
CheckNamesOnly == enabled /\ host = Name /\ Blocked(ip)

Refused == enabled /\ Blocked(ip)

Check ==
    /\ pc = "check"
    /\ Return(IF ip = NotV4 THEN "ErrNotIpv4Address"
              ELSE IF Refused THEN "ErrBlocked" ELSE "ok")
    /\ UNCHANGED <<blocklistVars, host, port, inForce, read>>

\* What a rule means: the first bits of an address are those of the rule.
Covered(rules) ==
    {a \in Addresses : \E r \in rules :
        a \div Block[Width - r[2]] = r[1] \div Block[Width - r[2]]}

ReloadList(list) ==
    /\ read + Len(list) < MaxRead
    /\ read' = read + Len(list) + 1
    /\ Reload(list)
    /\ inForce' = IF LoadFails(list) THEN inForce
                  ELSE Covered(Range(list) \cap Rules)
    /\ UNCHANGED callVars

\* The next call.
Again == pc = "done" /\ pc' = "idle" /\ result' = "none" /\ host' = Name
         /\ ip' = NotV4 /\ port' = NoPort
         /\ UNCHANGED <<blocklistVars, enabled, inForce, read>>

Next ==
    \/ \E h \in Hosts, p \in {NoPort, 0, 1, 65535, 65536} : Resolve(h, p)
    \/ ResolveIPv4 \/ Check \/ Again
    \/ \E n \in 0 .. MaxLines : n + read < MaxRead
          /\ \E list \in Lists(n) : ReloadList(list)

Spec == Init /\ [][Next]_vars
-----------------------------------------------------------------------------
\* The tree holds exactly the addresses that the rules of the last list that
\* could be loaded cover, and a call that checks an address now is refused
\* exactly when they cover it, whatever was reloaded since the call began
\* (blocklist.go:32-60, stree.go:47-131, resolver.go:43-50).
BlockedIffCovered ==
    /\ \A a \in Addresses : Blocked(a) <=> a \in inForce
    /\ ~Blocked(NotV4)
    /\ pc = "check" /\ ip # NotV4 => (Refused <=> enabled /\ ip \in inForce)
=============================================================================
