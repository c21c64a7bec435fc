------------------------------- MODULE Pricing -------------------------------
(***************************************************************************)
(* What a request costs, in micro-credits, and what its provider earns:    *)
(* computeCost of relay/handler/handler.go, calcRevenue and the lazy count *)
(* of relay/handler/queue.go.  A usage record counts tokens, prices are    *)
(* for a thousand tokens, and every division drops its remainder.          *)
(***************************************************************************)
EXTENDS Integers

Per1K(price, tokens) == IF price > 0 /\ tokens > 0 THEN (price * tokens) \div 1000 ELSE 0

(* Cached tokens are taken for a part of the prompt; if there are more of  *)
(* them than that, they are not billed at all.                             *)
CacheHitTokens(usage) ==
    IF usage.cached > 0 /\ usage.cached <= usage.prompt THEN usage.cached ELSE 0

ComputeCost(usage, price) ==
    Per1K(price.hit, CacheHitTokens(usage))
        + Per1K(price.miss, usage.prompt - CacheHitTokens(usage))
        + Per1K(price.output, usage.completion)

(* The provider's share in basis points; without one, 80%. *)
CalcRevenue(cost, shareBps) ==
    IF shareBps <= 0 THEN (cost * 8000) \div 10000 ELSE (cost * shareBps) \div 10000

Commission(cost, shareBps) == cost - CalcRevenue(cost, shareBps)
=============================================================================
