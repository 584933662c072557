------------------------------- MODULE MCApi --------------------------------
(***************************************************************************)
(* Plans of two requests: the same post liked twice; two follows, against  *)
(* an hourly and a daily limit; a comment of the owner on its own post     *)
(* beside a reaction; a comment beside a login from an address.            *)
(***************************************************************************)
EXTENDS Api, TLC

CONSTANTS v, o, r1, r2

Plan(c1, op1, c2, op2) ==
    (r1 :> [caller |-> c1, operation |-> op1]) @@ (r2 :> [caller |-> c2, operation |-> op2])

MCPlans ==
    {Plan(v, "like_post", v, "like_post"),
     Plan(v, "follow_user", v, "follow_user"),
     Plan(o, "comment_post", v, "add_story_reaction"),
     Plan(v, "comment_post", v, "login")}

\* Limits of one and two. At Basic the hour limits follows and the day does not; at New the
\* day goes on limiting them in the next hour.
MCRateLimits(action, window, lvl) == IF action = "follow" /\ window = "Hour" THEN 1 ELSE lvl + 1
MCIpLimit(action) == 1

=============================================================================
