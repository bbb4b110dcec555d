----------------------------- MODULE EventLoop ------------------------------
(***************************************************************************)
(* EventLoop::wait_next_event (libsponge/util/eventloop.cc), for any rules *)
(* and any state w of the program they act on.  w.loop holds the rules     *)
(* that are left, the ones polled in this call, and the ones whose poll    *)
(* result has not been gone through yet; serviced says whether the running *)
(* callback has used its descriptor, threw that something was thrown.  The *)
(* constants are given by the program that adds the rules.                 *)
(***************************************************************************)
EXTENDS SequencesExt, Calls

CONSTANTS Defunct(_, _),   \* is the rule's descriptor at eof (to read) or closed?
          Interest(_, _),  \* Rule::interest
          Callback(_, _),  \* Rule::callback
          Cancel(_, _),    \* Rule::cancel
          Ready(_, _),     \* does poll() report the event the rule asks for?
          Hup(_, _)        \* does it report a hangup?

NewEventLoop(rules) ==
    [rules |-> rules, polled |-> {}, results |-> << >>, serviced |-> FALSE, threw |-> FALSE]

erase(w, r) == [w EXCEPT !.loop.rules = SelectSeq(@, LAMBDA q : q # r)]

\* The first pass: defunct rules are cancelled and erased, in order, and the
\* interest of each other rule is evaluated when its turn comes.
SetUp(w) ==
    FoldLeft(LAMBDA v, r :
                 Then(v, LAMBDA u :
                     IF Defunct(u, r) THEN erase(Cancel(u, r), r)
                     ELSE IF Interest(u, r) THEN [u EXCEPT !.loop.polled = @ \cup {r}]
                     ELSE u),
             [w EXCEPT !.loop.polled = {}], w.loop.rules)

SomethingToPoll(w) == w.loop.polled # {}

\* poll(): one sample for all rules.  A descriptor that is asked for nothing
\* can still report a hangup and end the wait, but no rule is run for it.
Poll(w) ==
    LET result(r) == [rule |-> r, ready |-> Ready(w, r)]
        concerned == SelectSeq(w.loop.rules, LAMBDA r :
                         r \in w.loop.polled /\ (Ready(w, r) \/ Hup(w, r)))
    IN  [w EXCEPT !.loop.results = [i \in DOMAIN concerned |-> result(concerned[i])],
                  !.loop.polled = {}]

\* A step of the second pass: a rule whose descriptor is ready has its
\* callback called, which has to use the descriptor or lose its interest; one
\* that only hung up is cancelled and erased.
GoThrough(w) ==
    LET r == Head(w.loop.results).rule
        rest == [w EXCEPT !.loop.results = Tail(@), !.loop.serviced = FALSE]
    IN  IF Head(w.loop.results).ready
        THEN Then(Callback(rest, r), LAMBDA v :
                 IF ~v.loop.serviced /\ Interest(v, r)
                 THEN [v EXCEPT !.loop.threw = TRUE]
                 ELSE [v EXCEPT !.loop.serviced = FALSE])
        ELSE erase(Cancel(rest, r), r)
=============================================================================
