-------------------------------- MODULE MCApi --------------------------------
(* The instance of Api that TLC checks. Two callers at a time: behind one proxy *)
(* that forwards their addresses, direct, or known by X-Real-IP; and two that   *)
(* no header tells apart.                                                       *)
EXTENDS Api

CONSTANTS c1, c2, a1, a2, proxy

Direct(a) == [forwarded |-> <<>>, realIp |-> None, host |-> a, origin |-> a]
Proxied(a) == [forwarded |-> <<a>>, realIp |-> a, host |-> proxy, origin |-> a]
Nginx(a) == [forwarded |-> <<None>>, realIp |-> a, host |-> proxy, origin |-> a]
Hidden(a) == [forwarded |-> <<>>, realIp |-> None, host |-> proxy, origin |-> a]

Caller(from, kind, calls, obeys) ==
    [forwarded |-> from.forwarded, realIp |-> from.realIp, host |-> from.host,
     origin |-> from.origin, kind |-> kind, calls |-> calls, obeys |-> obeys,
     owns |-> IF kind = "any" THEN "active" ELSE "none"]

Pair(first, second) == c1 :> first @@ c2 :> second

MCScenarios == {
    Pair(Caller(Proxied(a1), "CreateUser", {}, FALSE),
         Caller(Proxied(a2), "RedirectUser", {}, FALSE)),
    Pair(Caller(Direct(a1), "any", {"health"}, FALSE),
         Caller(Nginx(a2), "any", {"delete"}, TRUE)),
    Pair(Caller(Hidden(a1), "RedirectUser", {}, FALSE),
         Caller(Hidden(a2), "any", {"redirect", "elsewhere"}, TRUE)),
    Pair(Caller(Proxied(a1), "any", {"deactivate", "activate"}, TRUE),
         Caller(Direct(a2), "any", {"health"}, FALSE)),
    Pair(Caller(Nginx(a1), "any", {"stats"}, TRUE),
         Caller(Direct(a2), "any", {"stats"}, FALSE))}
=============================================================================
