-------------------------------- MODULE Fetch --------------------------------
(***************************************************************************)
(* HTTP requests (common/source/utils/fetch.cpp).  Requests are handed to  *)
(* one fetch thread, which transfers them, drains what is over and runs    *)
(* the callbacks with no lock held.  An atomic step is a section under     *)
(* multiMutex: the list of what is in flight and what curl's multi handle  *)
(* holds change together in each of them, and are one variable.            *)
(***************************************************************************)
EXTENDS Naturals, Sequences

CONSTANTS
    MaxRequests,   \* bound: requests of the page browser
    MAX_ATTEMPTS,  \* how often a download is tried
    Companies      \* bound: which callers there are at once

ASSUME FetchAssumption ==
    /\ MaxRequests \in Nat /\ MAX_ATTEMPTS \in Nat \ {0}
    /\ Companies \subseteq SUBSET {"browser", "canceller", "download"}

\* A request is named by who built it, and the order in which it was built.
Kept == <<"kept", 1>>
Requests == ({"page"} \X (1..MaxRequests)) \cup ({"try"} \X (1..MAX_ATTEMPTS)) \cup {Kept}

\* How a transfer ends, as far as its caller looks: with status 200 or another,
\* with a failure that is worth retrying, or with one that is not.
Verdicts == {"page", "status", "dropped", "timeout"}
Outcomes(r) == CASE r[1] = "try" -> Verdicts
                 [] r[1] = "page" -> {"page", "status"}
                 [] OTHER -> {"page"}

VARIABLES
    company,     \* the callers
    initialized, threadRunning,
    inFlight,    \* the requests on record, which curl's multi handle holds
    verdict,     \* how the transfer of each has ended: curl's message about it
    fetcher,     \* where the fetch thread is
    done,        \* the records drained, whose callbacks have still to run
    answers,     \* what the callback of each request has been given so far
    cancelling,  \* where the thread is that keeps a handle and cancels
    attempt,     \* how often the download has been tried
    download,    \* where it is
    file,        \* what lies at its path, what stdio still buffers included
    cardFailed   \* history: a last flush or a removal has failed

transferVars == <<inFlight, verdict, answers>>
fetcherVars == <<company, initialized, threadRunning, fetcher, done>>
fileVars == <<attempt, download, file, cardFailed>>
fetchVars == <<transferVars, fetcherVars, cancelling, fileVars>>

FetchInit ==
    /\ company \in Companies
    /\ initialized = TRUE /\ threadRunning = TRUE
    /\ inFlight = {}
    /\ verdict = [r \in Requests |-> "none"]
    /\ fetcher = "test" /\ done = {}
    /\ answers = [r \in Requests |-> <<>>]
    /\ cancelling = "none"
    /\ attempt = 0 /\ download = "none" /\ file = "missing" /\ cardFailed = FALSE

Answered(r) == answers[r] # <<>>
Answer(r) == answers[r][1]

-------------------------------------------------------------------------------

\* submit: what curl does not take is answered at once, on the caller's thread.
Submit(new) ==
    /\ \E taken \in SUBSET new :
         /\ ~initialized => taken = {}
         /\ inFlight' = inFlight \cup taken
         /\ answers' = [r \in Requests |->
                          IF r \in new \ taken THEN Append(answers[r], "unsent") ELSE answers[r]]
    /\ UNCHANGED verdict

-------------------------------------------------------------------------------
(* mainThread *)

\* What a transfer that ends so has written, through the FILE of the download:
\* the page behind what was there, or a part of it, or another page, or nothing.
\* A write that fails is a failure of the transfer, not worth retrying.
Writes(v) == IF v # "page" THEN file' \in {file, "part"}
             ELSE file' = IF file = "empty" THEN "page" ELSE "part"

\* curl_multi_perform, which runs before each drain, finds the transfer over.
TransferEnds(r) ==
    /\ fetcher # "ended"
    /\ r \in inFlight /\ verdict[r] = "none"
    /\ \E v \in Outcomes(r) :
         /\ verdict' = [verdict EXCEPT ![r] = v]
         /\ IF r[1] = "try" THEN Writes(v) ELSE UNCHANGED file
    /\ UNCHANGED <<inFlight, answers, fetcherVars, cancelling, attempt, download, cardFailed>>

Over == {r \in inFlight : verdict[r] # "none"}

Fetcher(from, to) ==
    /\ fetcher = from /\ fetcher' = to
    /\ UNCHANGED <<company, initialized, threadRunning, verdict, cancelling, fileVars>>

FetcherTests ==
    /\ \/ threadRunning /\ Fetcher("test", "drain")
       \/ ~threadRunning /\ Fetcher("test", "ended")
       \/ ~threadRunning /\ Over = {} /\ Fetcher("drain", "ended")
    /\ UNCHANGED <<inFlight, done, answers>>

\* A turn that finds nothing over is left out.
FetcherDrains ==
    /\ Fetcher("drain", "run") /\ Over # {}
    /\ done' = Over
    /\ inFlight' = inFlight \ Over
    /\ UNCHANGED answers

\* The order of curl's messages is left open.
FetcherAnswers(r) ==
    /\ Fetcher("run", "run")
    /\ r \in done /\ done' = done \ {r}
    /\ answers' = [answers EXCEPT ![r] = Append(@, verdict[r])]
    /\ UNCHANGED inFlight

\* Variant: what else was drained is forgotten after the first callback.
TurnEndsEarly ==
    /\ Fetcher("run", "test") /\ done' = {}
    /\ UNCHANGED <<inFlight, answers>>

TurnEnds ==
    /\ Fetcher("run", "test") /\ done = {}
    /\ UNCHANGED <<inFlight, done, answers>>

-------------------------------------------------------------------------------
(* getAsync and cancel, on a thread that keeps the handle; without a handle *)
(* there is nothing to cancel.                                              *)

SendAndKeep ==
    /\ cancelling = "none" /\ "canceller" \in company
    /\ Submit({Kept})
    /\ cancelling' = IF Kept \in inFlight' THEN "may" ELSE "no"
    /\ UNCHANGED <<fetcherVars, fileVars>>

Cancelling(from, to) ==
    /\ cancelling = from /\ cancelling' = to
    /\ UNCHANGED <<verdict, fetcherVars, fileVars>>

\* Variant: cancel leaves the record for the fetch thread to drop.
CancelKeepingRecord ==
    /\ initialized
    /\ Cancelling("may", IF Kept \in inFlight THEN "found" ELSE "no")
    /\ UNCHANGED <<inFlight, answers>>

\* curl forgets the transfer, and its message if it was over.
Cancel ==
    /\ initialized
    /\ Cancelling("may", IF Kept \in inFlight THEN "found" ELSE "no")
    /\ inFlight' = inFlight \ {Kept}
    /\ UNCHANGED answers

CancelAnswers ==
    /\ Cancelling("found", "no")
    /\ answers' = [answers EXCEPT ![Kept] = Append(@, "cancelled")]
    /\ UNCHANGED inFlight

-------------------------------------------------------------------------------
(* download, on a thread of its own *)

Try(n) == <<"try", n>>

Download(from, to) ==
    /\ "download" \in company
    /\ download = from /\ download' = to
    /\ UNCHANGED <<fetcherVars, cancelling>>

\* There is no handle to be had, or no file: it returns at once, and what an
\* earlier attempt has written stays.
DownloadRefused ==
    /\ Download("next", "refused") \/ Download("none", "refused")
    /\ UNCHANGED <<transferVars, attempt, file, cardFailed>>

\* Variant: fopen keeps what a failed attempt has written.
DownloadAppends ==
    /\ Download("none", "wait") \/ Download("next", "wait")
    /\ attempt' = attempt + 1
    /\ file' = IF file = "missing" THEN "empty" ELSE file
    /\ Submit({Try(attempt + 1)})
    /\ UNCHANGED cardFailed

\* fopen truncates what is there.
DownloadAsks ==
    /\ Download("none", "wait") \/ Download("next", "wait")
    /\ attempt' = attempt + 1
    /\ file' = "empty"
    /\ Submit({Try(attempt + 1)})
    /\ UNCHANGED cardFailed

\* Variant: the wait is given up, with the transfer still under way.
DownloadGivesUp ==
    /\ Download("wait", "failed")
    /\ file' = "missing"
    /\ UNCHANGED <<transferVars, attempt, cardFailed>>

\* The card may fail fclose, which flushes, and remove: nobody looks.
CardFails == cardFailed' = TRUE
CardWorks == UNCHANGED cardFailed

\* await and fclose; then one more attempt, or the file stays or is removed.
DownloadReturns ==
    /\ download = "wait" /\ Answered(Try(attempt))
    /\ LET answer == Answer(Try(attempt)) IN
       IF answer = "dropped" /\ attempt < MAX_ATTEMPTS
       THEN Download("wait", "next") /\ UNCHANGED file /\ CardWorks
       ELSE IF answer = "page"
       THEN /\ Download("wait", "saved")
            /\ (UNCHANGED file /\ CardWorks) \/ (file' = "part" /\ CardFails)
       ELSE /\ Download("wait", "failed")
            /\ (file' = "missing" /\ CardWorks) \/ (UNCHANGED file /\ CardFails)
    /\ UNCHANGED <<transferVars, attempt>>

-------------------------------------------------------------------------------
(* exit, on the main thread, in two steps *)

StopFetching ==
    /\ threadRunning' = FALSE /\ initialized' = FALSE
    /\ UNCHANGED <<company, transferVars, fetcher, done, cancelling, fileVars>>

\* The records go, and no callback of theirs runs.
ClearInFlight ==
    /\ inFlight' = {}
    /\ UNCHANGED <<verdict, answers, fetcherVars, cancelling, fileVars>>

-------------------------------------------------------------------------------

FetcherSteps == FetcherTests \/ FetcherDrains \/ (\E r \in Requests : FetcherAnswers(r)) \/ TurnEnds
CancelSteps == SendAndKeep \/ Cancel \/ CancelAnswers
DownloadSteps == DownloadRefused \/ DownloadAsks \/ DownloadReturns

===============================================================================
