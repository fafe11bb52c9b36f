--------------------------- MODULE MembershipTier ---------------------------
(***************************************************************************)
(* The membership ladder: which tier an amount of purchases deserves, and  *)
(* the reward points a purchase earns at a tier.  The tiers are rows of the *)
(* memberships table; two rows never share a minimum price here.           *)
(***************************************************************************)
EXTENDS Integers

CONSTANTS Level,     \* names of the membership tiers
          MinPrice,  \* minimum purchases of a tier
          Rate       \* reward in per mille of the amount paid, by tier

\* The tiers are few: every set of them has a dearest and a cheapest member.
ASSUME TierAssumption ==
    /\ MinPrice \in [Level -> Nat]
    /\ Rate \in [Level -> Nat]
    /\ Level # {}
    /\ \A l, m \in Level : MinPrice[l] = MinPrice[m] => l = m
    /\ \A T \in SUBSET Level : T # {} =>
          /\ \E l \in T : \A m \in T : MinPrice[m] =< MinPrice[l]
          /\ \E l \in T : \A m \in T : MinPrice[l] =< MinPrice[m]

Dearest(T)  == CHOOSE l \in T : \A m \in T : MinPrice[m] =< MinPrice[l]
Cheapest(T) == CHOOSE l \in T : \A m \in T : MinPrice[l] =< MinPrice[m]

Reached(amount) == {l \in Level : MinPrice[l] =< amount}

\* The dearest tier reached, the cheapest tier of all when none is.
TierOf(amount) ==
    IF Reached(amount) # {} THEN Dearest(Reached(amount)) ELSE Cheapest(Level)

Reward(level, amount) == (amount * Rate[level]) \div 1000
=============================================================================
