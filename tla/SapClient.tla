------------------------------ MODULE SapClient ------------------------------
(***************************************************************************)
(* SAPServiceLayerClient: the HTTP session one worker keeps with SAP while *)
(* it posts the items of a batch.  A request that gets no answer is sent   *)
(* again, a 401 logs in again once.  SAP is external: it may expire the    *)
(* session, act and answer, refuse, or act and lose the answer.            *)
(*                                                                         *)
(* SapCall of SapJobs is one operation of this module from Begin to its    *)
(* outcome.                                                                *)
(***************************************************************************)
EXTENDS Naturals

CONSTANTS Retries,      \* the default of the retries parameter of _request
          Operations    \* how many items are posted through the session

ASSUME ClientAssumption == Retries \in Nat /\ Operations \in Nat

VARIABLES
    token,      \* the client believes it is logged in
    alive,      \* SAP has a session for it
    pc,
    retry,      \* a 401 may still be answered with a login
    retries,    \* resends left
    outcome,    \* what the operation returned or raised
    begun,      \* operations begun
    sent,       \* requests sent for the current operation
    logins,     \* logins for the current operation
    acted       \* times SAP acted on the current operation

vars == <<token, alive, pc, retry, retries, outcome, begun, sent, logins, acted>>

Outcome == {"none", "ok", "rejected", "lost", "auth"}

Init == /\ token = FALSE /\ alive = FALSE /\ pc = "idle"
        /\ retry = TRUE /\ retries = Retries /\ outcome = "none"
        /\ begun = 0 /\ sent = 0 /\ logins = 0 /\ acted = 0

\* post(): a fresh call of _request.
Begin == /\ pc = "idle"
         /\ begun < Operations
         /\ begun' = begun + 1
         /\ pc' = IF token THEN "send" ELSE "login"
         /\ retry' = TRUE
         /\ retries' = Retries
         /\ outcome' = "none"
         /\ sent' = 0 /\ logins' = 0 /\ acted' = 0
         /\ UNCHANGED <<token, alive>>

Return(o) == pc' = "idle" /\ outcome' = o

-----------------------------------------------------------------------------
(* _login                                                                  *)

LoginAccepted == /\ token' = TRUE
                 /\ alive' = TRUE
                 /\ pc' = "send"
                 /\ UNCHANGED outcome

\* Bad credentials or no SessionId, another HTTP error, no answer: a login
\* is never repeated.
LoginRefused == /\ \E o \in {"auth", "rejected", "lost"} : Return(o)
                /\ UNCHANGED <<token, alive>>

Login == /\ pc = "login"
         /\ logins' = logins + 1
         /\ LoginAccepted \/ LoginRefused
         /\ UNCHANGED <<retry, retries, begun, sent, acted>>

-----------------------------------------------------------------------------
(* _request                                                                *)

Answered == /\ alive
            /\ acted' = acted + 1
            /\ Return("ok")
            /\ UNCHANGED <<token, retry, retries>>

Rejected == /\ Return("rejected")
            /\ UNCHANGED <<token, retry, retries, acted>>

\* The session expired: one login and one more attempt, keeping the resends.
Unauthorized_KeepsRetry ==
    /\ retry
    /\ token' = FALSE
    /\ pc' = "login"
    /\ UNCHANGED <<retry, retries, outcome, acted>>

Unauthorized ==
    /\ retry
    /\ token' = FALSE
    /\ pc' = "login"
    /\ retry' = FALSE
    /\ UNCHANGED <<retries, outcome, acted>>

\* No answer: whether SAP acted is unknown, and the request is sent again.
Unanswered_OffByOne ==
    /\ acted' \in {acted} \cup (IF alive THEN {acted + 1} ELSE {})
    /\ IF retries >= 0
          THEN retries' = retries - 1 /\ UNCHANGED <<pc, outcome>>
          ELSE Return("lost") /\ UNCHANGED retries
    /\ UNCHANGED <<token, retry>>

Unanswered ==
    /\ acted' \in {acted} \cup (IF alive THEN {acted + 1} ELSE {})
    /\ IF retries > 0
          THEN retries' = retries - 1 /\ UNCHANGED <<pc, outcome>>
          ELSE Return("lost") /\ UNCHANGED retries
    /\ UNCHANGED <<token, retry>>

Send == /\ pc = "send"
        /\ sent' = sent + 1
        /\ Answered \/ Rejected \/ Unauthorized \/ Unanswered
        /\ UNCHANGED <<alive, begun, logins>>

-----------------------------------------------------------------------------
\* SAP drops an idle session.
Expire == /\ alive
          /\ alive' = FALSE
          /\ UNCHANGED <<token, pc, retry, retries, outcome, begun, sent, logins, acted>>

\* close(): a failed logout is ignored, the client forgets the token anyway.
Close == /\ pc = "idle"
         /\ pc' = "closed"
         /\ token' = FALSE
         /\ alive' \in {FALSE, alive}
         /\ UNCHANGED <<retry, retries, outcome, begun, sent, logins, acted>>

Next == Begin \/ Login \/ Send \/ Expire \/ Close

Spec == Init /\ [][Next]_vars

-----------------------------------------------------------------------------
\* The fields of the client keep their types; the resends left never run below
\* zero (the guard of the recursion in _request).
TypeOK == /\ token \in BOOLEAN /\ alive \in BOOLEAN /\ retry \in BOOLEAN
          /\ pc \in {"idle", "login", "send", "closed"}
          /\ retries \in 0..Retries
          /\ outcome \in Outcome
          /\ begun \in 0..Operations
          /\ sent \in Nat /\ logins \in Nat /\ acted \in Nat

\* One operation sends at most Retries + 2 requests and two logins, however the
\* resends after a lost answer and the login after a 401 mix: _request passes
\* retry=False on, and both paths pass the remaining retries on.
AttemptsBounded == sent <= Retries + 2 /\ logins <= 2

\* An operation that returns normally was carried out by SAP: the item is set
\* SUCCEEDED on the strength of this alone (SapJobProcessor._process_item).
OkMeansActed == outcome = "ok" => acted > 0

\* What a worker may rely on: its operation comes to an end, and "ok" is true.
AnswersSound == AttemptsBounded /\ OkMeansActed

\* SAP carries an operation out at most once.
ActsAtMostOnce == acted <= 1

=============================================================================
