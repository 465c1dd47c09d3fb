----------------------------- MODULE MCRateLimiter -----------------------------
(* RateLimiter with small limits. *)
EXTENDS RateLimiter

MCLimit == [general |-> 3, transfer |-> 1]

===============================================================================
