---------------------------- MODULE ProjectionFeed ----------------------------
(***************************************************************************)
(* What catch-up subscriptions promise: each projection is fed the events  *)
(* of its types from the front of a growing log, without a gap, and in the *)
(* end all of them.  An event may be fed more than once.                   *)
(***************************************************************************)
EXTENDS Naturals, Sequences

CONSTANTS
    Subscription,       \* subscriptions, each with its projection
    Types               \* the aggregates whose events each is fed

VARIABLES
    registered,         \* the subscriptions that are served
    log,                \* the event store
    fed                 \* the positions of the log each projection was fed

fvars == <<registered, log, fed>>

\* The positions up to n a subscription is fed.
Matching(sub, n) == {i \in 1..n : log[i].of \in Types[sub]}

FInit ==
    /\ registered \subseteq Subscription
    /\ log = <<>>
    /\ fed = [sub \in Subscription |-> {}]

FAppend ==
    /\ Len(log') > Len(log)
    /\ SubSeq(log', 1, Len(log)) = log
    /\ UNCHANGED <<registered, fed>>

FFeed(sub) ==
    /\ sub \in registered
    /\ \E n \in DOMAIN log :
          /\ ~(Matching(sub, n) \subseteq fed[sub])
          /\ fed' = [fed EXCEPT ![sub] = Matching(sub, n)]
    /\ UNCHANGED <<registered, log>>

FNext == FAppend \/ \E sub \in Subscription : FFeed(sub)

FSpec == FInit /\ [][FNext]_fvars /\ \A sub \in Subscription : WF_fvars(FFeed(sub))
===============================================================================
