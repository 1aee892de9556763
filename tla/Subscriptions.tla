---------------------------- MODULE Subscriptions ----------------------------
(***************************************************************************)
(* Repository subscriptions of chats (store.AddRepositorySubscription,     *)
(* ClaimSubscriptionReply, and larkcallback's subscribeAndReply): what a   *)
(* request does for one subscription command once the delivery has been    *)
(* admitted and archived.  Lark delivers a command again until it gets     *)
(* 200; requests for the same delivery may run at the same time.           *)
(***************************************************************************)
CONSTANTS
  Requests        (* goroutines serving the command's deliveries             *)

VARIABLES
  subscribed,     (* the chat is in the subscription bucket                  *)
  claimed,        (* SubscriptionReplyClaimed of the delivery                *)
  serving         (* serving[q]: where request q is                          *)

Init ==
  /\ subscribed = FALSE /\ claimed = FALSE
  /\ serving = [q \in Requests |-> "none"]

At(q, step) == serving[q] = step
Goto(q, step) == serving' = [serving EXCEPT ![q] = step]

(* A delivery of the command arrives and subscribes the chat. *)
Subscribe(q) ==
  /\ At(q, "none")
  /\ subscribed' = TRUE
  /\ Goto(q, "claim")
  /\ UNCHANGED claimed

(* The claim's transaction fails: 503, and Lark delivers the command again; *)
(* where the subscription's own fails nothing has changed.                  *)
ClaimFails(q) ==
  /\ At(q, "claim")
  /\ Goto(q, "none")
  /\ UNCHANGED <<subscribed, claimed>>

(* Mutant: whoever asks gets the claim. *)
WinsAlways == TRUE

(* The one allowed attempt at a confirmation is not taken yet. *)
Wins == ~claimed

(* Without the claim the answer is 200 at once. *)
Claim(q) ==
  /\ At(q, "claim")
  /\ claimed' = TRUE
  /\ Goto(q, IF Wins THEN "confirm" ELSE "none")
  /\ UNCHANGED subscribed

(* The confirmation has been sent, or could not be, which is only logged;   *)
(* either way the answer is 200.                                            *)
Confirmed(q) == At(q, "confirm") /\ Goto(q, "none") /\ UNCHANGED <<subscribed, claimed>>

Crash == serving' = [q \in Requests |-> "none"] /\ UNCHANGED <<subscribed, claimed>>
==============================================================================
