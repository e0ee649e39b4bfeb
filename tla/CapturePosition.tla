--------------------------- MODULE CapturePosition ---------------------------
(***************************************************************************)
(* packettrain/position.py: near which endpoint the capture was taken,     *)
(* from the hop limits of both endpoints and the two handshake intervals.  *)
(***************************************************************************)
EXTENDS Integers, FiniteSets, FiniteSetsExt

CONSTANTS
    InitialTtl,     \* INITIAL_TTL_CANDIDATES
    NearHops,       \* hops below an initial value that still count
    Unmeasured      \* no handshake interval

ASSUME PositionConstants == InitialTtl \subseteq Nat \ {0} /\ NearHops \in Nat

Side == {"client", "server", "unknown"}

\* the distance a hop limit shows, or -1: absent, or far from every initial value
TtlHops(ttl) ==
    LET near == {i \in InitialTtl : ttl > 0 /\ i - ttl \in 0..NearHops}
    IN  IF near = {} THEN -1 ELSE Min(near) - ttl

\* both hop limits are needed; one near endpoint is enough
TtlSide(clientTtl, serverTtl) ==
    LET c == TtlHops(clientTtl)
        s == TtlHops(serverTtl)
    IN  IF clientTtl = 0 \/ serverTtl = 0 \/ c = s THEN "unknown"
        ELSE IF s = -1 \/ (c # -1 /\ c < s) THEN "client" ELSE "server"

\* Mutant: the first comparison is with the second interval alone.
IntervalSideLoose(leg1, leg2) ==
    IF leg1 = Unmeasured \/ leg2 = Unmeasured THEN "unknown"
    ELSE IF leg1 >= leg2 /\ leg1 > 0 THEN "client"
    ELSE IF leg2 >= 3 * leg1 /\ leg2 > 0 THEN "server" ELSE "unknown"

\* (an interval is measured in units of at least 0.003 ms, the least that counts)
\* an interval three times the other shows the endpoint it does not lead to
IntervalSide(leg1, leg2) ==
    IF leg1 = Unmeasured \/ leg2 = Unmeasured THEN "unknown"
    ELSE IF leg1 >= 3 * leg2 /\ leg1 > 0 THEN "client"
    ELSE IF leg2 >= 3 * leg1 /\ leg2 > 0 THEN "server" ELSE "unknown"

\* position_evidence: hop limits first, the handshake in support
Position(clientTtl, serverTtl, leg1, leg2) ==
    LET byTtl == TtlSide(clientTtl, serverTtl)
        byTime == IntervalSide(leg1, leg2)
        side == IF byTtl # "unknown" THEN byTtl ELSE byTime
    IN  [side |-> side,
         confidence |-> CASE side = "unknown" -> "low"
                          [] side # "unknown" /\ byTtl = byTime -> "high"
                          [] OTHER -> "moderate",
         conflict |-> byTtl # "unknown" /\ byTime \notin {byTtl, "unknown"}]
=============================================================================
