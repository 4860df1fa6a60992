------------------------------ MODULE Trivial -------------------------------
(***************************************************************************)
(* The quiz (plugin-trivial.cpp).  Main handles !q_open, !q_ask, !q_close  *)
(* and the answers; for each question a thread runs q_end, which sleeps    *)
(* for the time of the question and closes it.  A question is shown as the *)
(* set of its right answers.                                               *)
(***************************************************************************)
EXTENDS Naturals, Sequences, FiniteSets, TLC

CONSTANTS
    Nicks,      \* who plays
    Quiz,       \* the questions of the file
    Guesses,    \* the numbers players say
    MaxAsked    \* bound: questions asked

VARIABLES
    questions, current,   \* current_question: a position in questions
    accepting, answers, answered, answerFound, totals,
    mainAt,               \* "idle", "asking" or "judging"
    guess,                \* who has answered what: the one main judges
    asked,                \* number of the last question asked
    sleeping, closing,    \* questions whose q_end sleeps, and has closed
    wins                  \* who won which question

gameVars == <<questions, current, accepting, answers, answered, answerFound, totals>>
quizVars == <<gameVars, mainAt, guess, asked, sleeping, closing, wins>>

QuizInit ==
    /\ questions = <<>> /\ current = 1 /\ accepting = FALSE
    /\ answers = {} /\ answered = {} /\ answerFound = FALSE
    /\ totals = [n \in Nicks |-> 0]
    /\ mainAt = "idle" /\ guess = <<>> /\ asked = 0 /\ sleeping = {} /\ closing = {} /\ wins = {}

(* q_open: clear and read again, in an order of chance.                     *)
QOpen ==
    /\ mainAt = "idle" /\ current' = 1
    /\ \E order \in Permutations(DOMAIN Quiz) :
          questions' = [i \in DOMAIN Quiz |-> Quiz[order[i]]]
    /\ UNCHANGED <<accepting, answers, answered, answerFound, totals,
                   mainAt, guess, asked, sleeping, closing, wins>>

(* q_close: current_question stays, past the end unless it is the first.   *)
QClose ==
    /\ mainAt = "idle" /\ questions' = <<>>
    /\ UNCHANGED <<current, accepting, answers, answered, answerFound, totals,
                   mainAt, asked, sleeping, closing, wins, guess>>

(* q_ask, up to fut.get().  A question in progress and the end of the list *)
(* are refused; behind a q_close the position may be past the end and      *)
(* anything may happen: left out.                                          *)
QAsk ==
    /\ mainAt = "idle" /\ ~accepting /\ current <= Len(questions)
    /\ asked < MaxAsked
    /\ answers' = questions[current] /\ mainAt' = "asking"
    /\ UNCHANGED <<questions, current, accepting, answered, answerFound, totals,
                   asked, sleeping, closing, wins, guess>>

\* a plausible mistake: no fut.get()
MutFutGet == TRUE

FutGet == sleeping \cup closing = {}

QAsked ==
    /\ mainAt = "asking" /\ FutGet /\ mainAt' = "idle"
    /\ answered' = {} /\ answerFound' = FALSE /\ accepting' = TRUE
    /\ asked' = asked + 1 /\ sleeping' = sleeping \cup {asked + 1}
    /\ current' = current + 1
    /\ UNCHANGED <<questions, answers, totals, closing, wins, guess>>

(* q_end: the time is over, then the report unless somebody had the answer. *)
QEndCloses(q) ==
    /\ q \in sleeping /\ sleeping' = sleeping \ {q} /\ closing' = closing \cup {q}
    /\ accepting' = FALSE
    /\ UNCHANGED <<questions, current, answers, answered, answerFound, totals,
                   mainAt, asked, wins, guess>>
QEndReports(q) ==
    /\ q \in closing /\ closing' = closing \ {q}
    /\ UNCHANGED <<gameVars, mainAt, asked, sleeping, wins, guess>>

(* event(): accepting is tested once; the thread may close the question    *)
(* before the answer is judged.                                            *)
Hear(n, g) ==
    /\ mainAt = "idle" /\ accepting /\ mainAt' = "judging" /\ guess' = <<n, g>>
    /\ UNCHANGED <<gameVars, asked, sleeping, closing, wins>>

Judge ==
    /\ mainAt = "judging" /\ mainAt' = "idle"
    /\ answered' = answered \cup {guess[1]}
    /\ IF guess[1] \notin answered /\ guess[2] \in answers
         THEN /\ answerFound' = TRUE /\ accepting' = FALSE
              /\ totals' = [totals EXCEPT ![guess[1]] = @ + 1]
              /\ wins' = wins \cup {<<guess[1], asked>>}
         ELSE UNCHANGED <<answerFound, accepting, totals, wins>>
    /\ UNCHANGED <<questions, current, answers, asked, sleeping, closing, guess>>

QuizNext ==
    \/ QOpen \/ QClose \/ QAsk \/ QAsked \/ Judge
    \/ \E q \in sleeping \cup closing : QEndCloses(q) \/ QEndReports(q)
    \/ \E n \in Nicks, g \in Guesses : Hear(n, g)

QuizSpec == QuizInit /\ [][QuizNext]_quizVars
-----------------------------------------------------------------------------
(* A question in progress ends with a right answer or when its own time is *)
(* over, never by the thread of an earlier one, and nobody else wins it    *)
(* after somebody has.                                                     *)
FairPlay ==
    [][/\ accepting /\ ~accepting' => wins' # wins \/ asked \in sleeping \ sleeping'
       /\ \A v, w \in wins' : v[2] = w[2] => v = w]_quizVars
=============================================================================
