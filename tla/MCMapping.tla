----------------------------- MODULE MCMapping -----------------------------
(***************************************************************************)
(* One event type of each of two classes, and one that Okta has just added.*)
(***************************************************************************)
EXTENDS Mapping

TwoTypes == [t \in {"user.session.start", "group.user_membership.add"} |->
               IF t = "user.session.start" THEN [class |-> 3002, activity |-> 1]
                                           ELSE [class |-> 3006, activity |-> 3]]
=============================================================================
