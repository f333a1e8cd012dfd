------------------------ MODULE GpssBrowserProperties ------------------------
(***************************************************************************)
(* What must hold of the requests and of the pages shown.                  *)
(***************************************************************************)
EXTENDS GpssBrowser

Slots == PageRequests \cup {NoSlot}

\* Every variable has its type.
TypeOK ==
    /\ company \in Companies
    /\ initialized \in BOOLEAN /\ threadRunning \in BOOLEAN
    /\ inFlight \subseteq Requests /\ done \subseteq Requests
    /\ verdict \in [Requests -> Verdicts \cup {"none"}]
    /\ fetcher \in {"test", "drain", "run", "ended"}
    /\ answers \in [Requests -> Seq(Verdicts \cup {"unsent", "cancelled"})]
    /\ cancelling \in {"none", "may", "found", "no"}
    /\ attempt \in 0..MAX_ATTEMPTS
    /\ download \in {"none", "wait", "next", "refused", "failed", "saved"}
    /\ file \in {"missing", "empty", "part", "page"} /\ cardFailed \in BOOLEAN
    /\ total \in Totals /\ changes \in 0..MaxChanges
    /\ built \in 0..MaxRequests
    /\ asked \in [PageRequests -> (Searches \X (Nat \ {0})) \cup {<<>>}]
    /\ body \in [PageRequests -> Nat]
    /\ searchQuery \in Searches
    /\ {current, next, prev, arriving} \subseteq Slots
    /\ pageNumber \in Nat \ {0} /\ number \in Nat \ {0}
    /\ isGood \in BOOLEAN /\ beyond \in BOOLEAN
    /\ pc \in {"closed", "idle", "first", "last", "forward", "back", "clear", "down"}

\* The requests that have gone out or could not.
Sent == {Page(n) : n \in 1..built} \cup {Try(n) : n \in 1..attempt}
        \cup (IF cancelling = "none" THEN {} ELSE {Kept})

\* fetch.hpp:124 says of the callback: "Runs exactly once per request, whatever
\* happens".  Until exit, a request is in one place: on the list, among those the
\* fetch thread has drained, with the canceller, or answered; and it is answered
\* once, even when cancel meets the end of the transfer.
Places(r) ==
    (IF r \in inFlight THEN 1 ELSE 0) + (IF r \in done THEN 1 ELSE 0)
    + (IF r = Kept /\ cancelling = "found" THEN 1 ELSE 0) + Len(answers[r])
AnsweredOnce ==
    \A r \in Requests : IF r \notin Sent THEN Places(r) = 0
                        ELSE IF pc = "down" THEN Places(r) <= 1 ELSE Places(r) = 1

\* The fetch thread writes through a FILE that the download closes (fetch.cpp:510-514):
\* as long as a try is in flight, the download waits, and for this one.
WritesIntoOpenFile ==
    \A n \in 1..MAX_ATTEMPTS : Try(n) \in inFlight => download = "wait" /\ attempt = n

\* fetch.hpp:146 says "The file is removed unless the download succeeded".  What is
\* kept is the bytes of one attempt, from the first to the last, and a download that
\* fails leaves nothing, with two exceptions in which the code does otherwise: fclose,
\* which flushes the last 64 KB, and remove may fail, and nobody looks
\* (fetch.cpp:514, 524, 530); and a retry that cannot begin returns past the removal
\* of what the attempt before has written (fetch.cpp:489-500).
FileIsWhole ==
    ~cardFailed =>
        /\ download = "saved" => file = "page"
        /\ download = "failed" \/ (download = "refused" /\ attempt = 0) => file = "missing"

\* The pages in hand are of the search shown, through turns, jumps, new searches,
\* uploads, a total that grows and shrinks under them and answers in any order.
\* They are the ones the page number says, with two exceptions: a search that
\* shrinks to one page is shown under the number it was asked for; and a turn whose
\* answer has shrunk below its number shows a page past the last one, as only
\* refresh looks for that (GpssBrowser.cpp:343), and the turns from there take
\* that page for a neighbour until the next refresh.
PagesFit ==
    pc = "idle" /\ isGood =>
        /\ \A slot \in {current, next, prev} : asked[slot][1] = searchQuery
        /\ PagesOf(current) > 1 /\ ~beyond =>
              /\ asked[current][2] = pageNumber
              /\ asked[next][2] = After(pageNumber, PagesOf(current))
              /\ asked[prev][2] = Before(pageNumber, PagesOf(current))

\* What a thread waits for: the main thread for a slot, the download for its attempt.
Awaited(r) == \/ Waiting /\ r = arriving
              \/ download = "wait" /\ r = Try(attempt)

\* A request that somebody waits for is on its way: in flight, or drained by a turn
\* of the fetch thread that has its callback still to run, and the fetch thread goes
\* on. The two loops that wait look at nothing but the answer (fetch.cpp:269-272,
\* GpssBrowser.cpp:230-234): were a record dropped they would spin for ever.
AnswerIsComing ==
    \A r \in Requests :
        Awaited(r) /\ initialized /\ ~Answered(r) =>
            /\ fetcher # "ended"
            /\ r \in inFlight \/ (r \in done /\ fetcher = "run")

\* adopt spins until its slot is ready and await until its request is answered,
\* and neither has a timeout: both go on, a download unless Fetch::exit comes
\* first, which drops the records and their callbacks (fetch.cpp:365-369).
NobodyWaitsForEver ==
    /\ Waiting ~> pc = "idle"
    /\ download = "wait" ~> (download # "wait" \/ ~initialized)

===============================================================================
