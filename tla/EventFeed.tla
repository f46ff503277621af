----------------------------- MODULE EventFeed -----------------------------
(***************************************************************************)
(* What an event hub promises to a subscriber: while it is connected it    *)
(* is told, at most once, an event from before it joined (the greeting),   *)
(* and events published after it joined, each at most once and in the      *)
(* order of their sequence numbers.  Events may be missing: the channels   *)
(* of core/events.go and sysproxy_events.go are bounded and publishing     *)
(* never waits.  Events are their sequence numbers; 0 is the event the     *)
(* hub makes up when nothing has been published.                           *)
(***************************************************************************)
EXTENDS Integers

CONSTANT Subscriber

VARIABLES
    published,  \* number of events published
    stage,      \* a subscriber is out, in or gone
    base,       \* events published when it joined
    view, told  \* events it was told, and how many times it was told one

feedVars == <<published, stage, base, view, told>>

FeedInit ==
    /\ published = 0
    /\ stage = [s \in Subscriber |-> "out"]
    /\ base = [s \in Subscriber |-> 0]
    /\ view = [s \in Subscriber |-> {}]
    /\ told = [s \in Subscriber |-> 0]

Publish == published' = published + 1 /\ UNCHANGED <<stage, base, view, told>>

Join(s) ==
    /\ stage[s] = "out" /\ stage' = [stage EXCEPT ![s] = "in"]
    /\ base' = [base EXCEPT ![s] = published]
    /\ UNCHANGED <<published, view, told>>

Tell(s, n) ==
    /\ view' = [view EXCEPT ![s] = @ \cup {n}]
    /\ told' = [told EXCEPT ![s] = @ + 1]

\* The greeting: one event that is not newer than the moment of joining.
Greet(s) ==
    /\ stage[s] = "in" /\ \A n \in view[s] : n > base[s]
    /\ \E n \in 0..base[s] : Tell(s, n)
    /\ UNCHANGED <<published, stage, base>>

\* A new event, newer than every new event told before.
Receive(s) ==
    /\ stage[s] = "in"
    /\ \E n \in base[s] + 1..published :
          (\A m \in view[s] : m > base[s] => m < n) /\ Tell(s, n)
    /\ UNCHANGED <<published, stage, base>>

Leave(s) ==
    /\ stage[s] = "in" /\ stage' = [stage EXCEPT ![s] = "gone"]
    /\ UNCHANGED <<published, base, view, told>>

FeedNext ==
    \/ Publish
    \/ \E s \in Subscriber : Join(s) \/ Greet(s) \/ Receive(s) \/ Leave(s)

FeedSpec == FeedInit /\ [][FeedNext]_feedVars
=============================================================================
