---------------------------- MODULE HttpService ----------------------------
(***************************************************************************)
(* What a client of net/http may rely on.  While each of its requests      *)
(* reaches the server in a segment of its own, each is answered in order,  *)
(* by what it says itself, until an answer closes the connection.  Once    *)
(* one came in pieces or together with another, requests may get lost or   *)
(* be refused, but no answer is repeated, early or without its request.    *)
(***************************************************************************)
EXTENDS Sequences, Integers

CONSTANTS
    Request,        \* what a client may send
    WellFormed(_),  \* it has a known method and version
    MustClose(_),   \* its answer closes the connection
    Seen(_, _),     \* the requests the i-th one may be taken for
    NoRequest

VARIABLES
    sent,       \* the requests the client has sent
    answered,   \* how many of them are answered or passed over
    answers,    \* what the client got back
    open,       \* the connection takes answers
    whole       \* each segment was one request so far

vars == <<sent, answered, answers, open, whole>>

Init ==
    /\ sent = << >>
    /\ answered = 0
    /\ answers = << >>
    /\ open = TRUE
    /\ whole = TRUE

Send ==
    /\ \E r \in Request : sent' = Append(sent, r)
    /\ UNCHANGED <<answered, answers, open, whole>>

Cut == whole' = FALSE /\ UNCHANGED <<sent, answered, answers, open>>

Add(a) ==
    /\ open
    /\ answers' = Append(answers, a)
    /\ open' = (a.connection # "close")
    /\ UNCHANGED sent

Answer(k) ==
    /\ WellFormed(sent[k])
    /\ \E seen \in Seen(sent[k], k), connection \in {"close", "Keep-Alive"} :
          /\ Add([status |-> 200, connection |-> connection, req |-> seen])
          /\ connection = "close" <=>
                MustClose([sent[k] EXCEPT !.connection = seen.connection])
          /\ whole' => /\ k = answered + 1
                       /\ seen.connection = sent[k].connection
    /\ answered' = k
    /\ whole' \in {whole, FALSE}

Refuse ==
    /\ Add([status |-> 400, connection |-> "close", req |-> NoRequest])
    /\ whole' => /\ answered < Len(sent)
                 /\ ~WellFormed(sent[answered + 1])
    /\ UNCHANGED answered
    /\ whole' \in {whole, FALSE}

Next ==
    \/ Send
    \/ Cut
    \/ \E k \in answered + 1 .. Len(sent) : Answer(k)
    \/ Refuse

Spec == Init /\ [][Next]_vars
=============================================================================
