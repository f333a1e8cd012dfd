-------------------------- MODULE GpssBrowserProofs --------------------------
(***************************************************************************)
(* Proofs of the safety properties of GpssBrowserProperties, for every     *)
(* number of requests and attempts, every set of callers, every length a   *)
(* search may have and every number of changes to it.                      *)
(*                                                                         *)
(* The inductive invariant has two halves.  Base is about the requests: a  *)
(* request is in one place, what was asked for is known, and the file of   *)
(* the download is as far as its try is.  Front is about the browser: what *)
(* the pages in hand were asked for, and what it expects of the one it     *)
(* waits for.  Front rests on Base in one point: a page that has been      *)
(* answered is not in flight, so its total stays.                          *)
(***************************************************************************)
EXTENDS GpssBrowserProperties, SequenceTheorems, TLAPS

AnswerOf == Verdicts \cup {"unsent", "cancelled"}

FetchTypes ==
    /\ company \in Companies
    /\ initialized \in BOOLEAN /\ threadRunning \in BOOLEAN
    /\ inFlight \subseteq Requests /\ done \subseteq Requests
    /\ verdict \in [Requests -> Verdicts \cup {"none"}]
    /\ fetcher \in {"test", "drain", "run", "ended"}
    /\ answers \in [Requests -> Seq(AnswerOf)]
    /\ cancelling \in {"none", "may", "found", "no"}
    /\ attempt \in 0 .. MAX_ATTEMPTS
    /\ download \in {"none", "wait", "next", "refused", "failed", "saved"}
    /\ file \in {"missing", "empty", "part", "page"} /\ cardFailed \in BOOLEAN
    /\ total \in Totals /\ changes \in 0 .. MaxChanges
    /\ built \in 0 .. MaxRequests
    /\ asked \in [PageRequests -> (Searches \X (Nat \ {0})) \cup {<<>>}]
    /\ body \in [PageRequests -> Nat]

PageTypes ==
    /\ searchQuery \in Searches
    /\ {current, next, prev, arriving} \subseteq Slots
    /\ pageNumber \in Nat \ {0} /\ number \in Nat \ {0}
    /\ isGood \in BOOLEAN /\ beyond \in BOOLEAN
    /\ pc \in {"closed", "idle", "first", "last", "forward", "back", "clear", "down"}

-----------------------------------------------------------------------------
(* The inductive invariant *)

Counted ==
    /\ download = "none" => attempt = 0 /\ file = "missing"
    /\ download \in {"wait", "next"} => attempt >= 1
    /\ download = "next" => attempt < MAX_ATTEMPTS

Threads ==
    /\ pc \in {"clear", "down"} <=> ~ initialized
    /\ fetcher # "run" => done = {}
    /\ \A r \in done : verdict[r] # "none"

\* The fetch thread has the try that the download waits for and no other, and what
\* lies at the path tells how that try has ended.
OpenFile ==
    /\ \A n \in 1 .. MAX_ATTEMPTS :
         /\ Try(n) \in inFlight \cup done => download = "wait" /\ attempt = n
         /\ n > attempt => verdict[Try(n)] = "none"
         /\ Answered(Try(n)) /\ Answer(Try(n)) = "page" => verdict[Try(n)] = "page"
    /\ download = "wait" =>
         /\ verdict[Try(attempt)] = "none" => file = "empty"
         /\ verdict[Try(attempt)] = "page" => file = "page"

\* The slots there have been.
InHand == {Page(n) : n \in 1 .. built}

AskedFor == \A r \in InHand : asked[r] \in Searches \X (Nat \ {0})

Base == FetchTypes /\ AnsweredOnce /\ Threads /\ Counted /\ OpenFile /\ FileIsWhole /\ AskedFor

\* There are names for the requests that a refresh or a turn may still make.
Room ==
    /\ pc = "first" => built + 3 <= MaxRequests
    /\ pc \in {"last", "forward", "back"} => built + 2 <= MaxRequests

\* The pages in hand, while one of them is shown.
Fit ==
    /\ asked[current][2] = pageNumber
    /\ asked[next][2] = After(pageNumber, PagesOf(current))
    /\ asked[prev][2] = Before(pageNumber, PagesOf(current))

Shown ==
    isGood /\ pc \in {"idle", "forward", "back"} =>
        /\ {current, next, prev} \subseteq InHand
        /\ HasContents(current)
        /\ \A slot \in {current, next, prev} : asked[slot][1] = searchQuery
        /\ PagesOf(current) = 1 => next = current /\ prev = current
        /\ ~ beyond => pageNumber <= PagesOf(current)
        /\ PagesOf(current) > 1 /\ ~ beyond => Fit

\* The page the main thread waits for.
Expected ==
    /\ Waiting => arriving \in InHand /\ asked[arriving][1] = searchQuery
    /\ pc \in {"first", "last"} => asked[arriving][2] = number
    /\ pc = "forward" => /\ isGood /\ arriving = next
                         /\ number = After(pageNumber, PagesOf(current))
    /\ pc = "back" => /\ isGood /\ arriving = prev
                      /\ number = Before(pageNumber, PagesOf(current))

Front == PageTypes /\ Room /\ Shown /\ Expected

IInv == Base /\ Front

LEMMA TypesTogether == TypeOK <=> FetchTypes /\ PageTypes
BY DEF TypeOK, FetchTypes, PageTypes, AnswerOf

-----------------------------------------------------------------------------
(* Pages *)

(***************************************************************************)
(* A search has at least one page.                                         *)
(***************************************************************************)
LEMMA PagesPositive ==
    ASSUME NEW t \in Nat
    PROVE  Pages(t) \in Nat \ {0}
<1>1. PerPage \in Nat /\ PerPage >= 1
  BY BrowserAssumption
<1>2. CASE t <= PerPage
  BY <1>2 DEF Pages
<1>3. CASE ~ (t <= PerPage)
  <2> DEFINE n == t + PerPage - 1
  <2>1. n \in Nat /\ n >= PerPage /\ n \div PerPage \in Int
    BY <1>1, <1>3
  <2>2. n = PerPage * (n \div PerPage) + (n % PerPage) /\ n % PerPage \in 0 .. PerPage - 1
    BY <1>1, <2>1
  <2> HIDE DEF n
  <2>3. \A q \in Int : q <= 0 => PerPage * q <= 0
    BY <1>1
  <2>4. n \div PerPage >= 1
    BY <1>1, <2>1, <2>2, <2>3
  <2>5. QED
    BY <1>3, <2>1, <2>4 DEF Pages, n
<1>4. QED
  BY <1>2, <1>3

(***************************************************************************)
(* The page after and the page before, around the end; within the pages    *)
(* there are, the one undoes the other.                                    *)
(***************************************************************************)
LEMMA AroundTheEnd ==
    ASSUME NEW pages \in Nat \ {0}, NEW n \in Nat \ {0}
    PROVE  /\ After(n, pages) \in Nat \ {0} /\ After(n, pages) <= pages
           /\ Before(n, pages) \in Nat \ {0}
           /\ n <= pages =>
                /\ Before(n, pages) <= pages
                /\ Before(After(n, pages), pages) = n
                /\ After(Before(n, pages), pages) = n
           /\ pages = 2 /\ n <= 2 => After(n, pages) = Before(n, pages)
<1>1. n % pages \in 0 .. pages - 1
  OBVIOUS
<1>2. ASSUME NEW m \in Nat, m < pages
      PROVE  m % pages = m
  BY <1>2
<1>3. pages % pages = 0
  OBVIOUS
<1>4. /\ After(n, pages) \in Nat \ {0} /\ After(n, pages) <= pages
      /\ Before(n, pages) \in Nat \ {0}
  BY <1>1 DEF After, Before
<1>5. ASSUME n < pages
      PROVE  /\ Before(n, pages) <= pages
             /\ Before(After(n, pages), pages) = n
             /\ After(Before(n, pages), pages) = n
  <2>1. After(n, pages) = n + 1
    BY <1>2, <1>5 DEF After
  <2>2. CASE n = 1
    BY <1>3, <1>5, <2>1, <2>2 DEF After, Before
  <2>3. CASE n > 1
    <3>1. Before(n, pages) = n - 1 /\ n - 1 \in Nat /\ n - 1 < pages
      BY <1>5, <2>3 DEF Before
    <3>2. (n - 1) % pages = n - 1
      BY <1>2, <3>1
    <3>3. QED
      BY <1>5, <2>1, <3>1, <3>2 DEF After, Before
  <2>4. QED
    BY <2>2, <2>3
<1>6. ASSUME n = pages
      PROVE  /\ Before(n, pages) <= pages
             /\ Before(After(n, pages), pages) = n
             /\ After(Before(n, pages), pages) = n
  <2>1. After(n, pages) = 1
    BY <1>3, <1>6 DEF After
  <2>2. CASE n = 1
    BY <1>3, <1>6, <2>1, <2>2 DEF After, Before
  <2>3. CASE n > 1
    <3>1. Before(n, pages) = n - 1 /\ n - 1 \in Nat /\ n - 1 < pages
      BY <1>6, <2>3 DEF Before
    <3>2. (n - 1) % pages = n - 1
      BY <1>2, <3>1
    <3>3. QED
      BY <1>6, <2>1, <3>1, <3>2 DEF After, Before
  <2>4. QED
    BY <2>2, <2>3
<1>7. ASSUME pages = 2, n <= 2
      PROVE  After(n, pages) = Before(n, pages)
  <2>1. 1 % 2 = 1 /\ 2 % 2 = 0 /\ (n = 1 \/ n = 2)
    BY <1>7
  <2>2. QED
    BY <1>7, <2>1 DEF After, Before
<1>8. QED
  BY <1>4, <1>5, <1>6, <1>7

-----------------------------------------------------------------------------
(* Requests *)

(***************************************************************************)
(* The names of the requests are distinct.                                 *)
(***************************************************************************)
LEMMA Names ==
    /\ PageRequests \subseteq Requests /\ Kept \in Requests /\ Kept \notin PageRequests
    /\ \A n \in 1 .. MaxRequests : Page(n) \in PageRequests
    /\ \A n \in 1 .. MAX_ATTEMPTS : Try(n) \in Requests
    /\ \A m, n : (Page(m) = Page(n) => m = n) /\ (Try(m) = Try(n) => m = n)
    /\ \A m, n : Page(m) # Try(n) /\ Page(m) # Kept /\ Try(m) # Kept
    /\ \A r \in PageRequests : r[2] \in 1 .. MaxRequests /\ r = Page(r[2])
    /\ NoSlot \notin PageRequests
BY DEF PageRequests, Requests, Kept, Page, Try, NoSlot

(***************************************************************************)
(* Where a request is, counted.                                            *)
(***************************************************************************)
LEMMA PlacesParts ==
    ASSUME FetchTypes, NEW r \in Requests
    PROVE  /\ Len(answers[r]) \in Nat /\ Places(r) \in Nat
           /\ Answered(r) <=> Len(answers[r]) > 0
           /\ Places(r) = 0 => /\ r \notin inFlight /\ r \notin done
                               /\ ~ (r = Kept /\ cancelling = "found")
                               /\ Len(answers[r]) = 0
           /\ Places(r) =< 1 => /\ r \in inFlight => ~ Answered(r) /\ r \notin done
                                /\ r \in done => ~ Answered(r)
<1>1. answers[r] \in Seq(AnswerOf)
  BY DEF FetchTypes
<1>2. Len(answers[r]) \in Nat /\ (answers[r] # <<>> <=> Len(answers[r]) > 0)
  BY <1>1, EmptySeq, LenProperties
<1> DEFINE a == IF r \in inFlight THEN 1 ELSE 0
           b == IF r \in done THEN 1 ELSE 0
           c == IF r = Kept /\ cancelling = "found" THEN 1 ELSE 0
           d == Len(answers[r])
<1>3. /\ a \in Nat /\ (r \in inFlight => a = 1) /\ (r \notin inFlight => a = 0)
      /\ b \in Nat /\ (r \in done => b = 1) /\ (r \notin done => b = 0)
      /\ c \in Nat /\ (r = Kept /\ cancelling = "found" => c = 1)
      /\ d \in Nat /\ (Answered(r) <=> d > 0) /\ d = Len(answers[r])
  BY <1>2 DEF Answered
<1>4. Places(r) = a + b + c + d
  BY DEF Places
<1> HIDE DEF a, b, c, d
<1>5. ASSUME NEW m \in Nat, NEW n \in Nat, NEW k \in Nat, NEW l \in Nat
      PROVE  /\ m + n + k + l \in Nat
             /\ m + n + k + l = 0 => m = 0 /\ n = 0 /\ k = 0 /\ l = 0
             /\ m + n + k + l =< 1 => (m = 1 => n = 0 /\ l = 0) /\ (n = 1 => l = 0)
  OBVIOUS
<1>6. /\ Places(r) \in Nat
      /\ Places(r) = 0 => a = 0 /\ b = 0 /\ c = 0 /\ d = 0
      /\ Places(r) =< 1 => (a = 1 => b = 0 /\ d = 0) /\ (b = 1 => d = 0)
  <2>1. a \in Nat /\ b \in Nat /\ c \in Nat /\ d \in Nat
    BY <1>3
  <2>2. QED
    BY <1>4, <1>5, <2>1
<1>7. QED
  BY <1>3, <1>6

(***************************************************************************)
(* A callback that runs adds one answer, after those there are.            *)
(***************************************************************************)
LEMMA OneMoreAnswer ==
    ASSUME NEW S, NEW seq \in Seq(S), NEW x \in S
    PROVE  /\ Append(seq, x) \in Seq(S) /\ Len(Append(seq, x)) = Len(seq) + 1
           /\ Len(seq) \in Nat /\ Append(seq, x) # <<>>
           /\ seq # <<>> => Append(seq, x)[1] = seq[1]
<1>1. /\ Append(seq, x) \in Seq(S) /\ Len(Append(seq, x)) = Len(seq) + 1
      /\ \A i \in 1 .. Len(seq) : Append(seq, x)[i] = seq[i]
  BY AppendProperties
<1>2. Len(seq) \in Nat /\ (seq # <<>> => Len(seq) \in Nat \ {0})
  BY EmptySeq, LenProperties
<1>3. QED
  BY <1>1, <1>2, EmptySeq

\* What request r has been answered is kept.
KeepsAnswer(r) == Answered(r) => Answered(r)' /\ Answer(r)' = Answer(r)

(***************************************************************************)
(* submit: every new request is on the list, or answered.                  *)
(***************************************************************************)
LEMMA Submitted ==
    ASSUME FetchTypes, NEW new \in SUBSET Requests, Submit(new), done' = done,
           cancelling = "found" <=> cancelling' = "found",
           \A r \in new : Places(r) = 0
    PROVE  /\ inFlight' \subseteq Requests /\ answers' \in [Requests -> Seq(AnswerOf)]
           /\ verdict' = verdict
           /\ \A r \in Requests : Places(r)' = IF r \in new THEN 1 ELSE Places(r)
           /\ \A r \in Requests \ new :
                  answers'[r] = answers[r] /\ (r \in inFlight' <=> r \in inFlight)
           /\ \A r \in new : answers'[r] # <<>> => answers'[r][1] = "unsent"
<1>1. PICK taken \in SUBSET new :
        /\ inFlight' = inFlight \cup taken
        /\ answers' = [r \in Requests |->
                         IF r \in new \ taken THEN Append(answers[r], "unsent") ELSE answers[r]]
        /\ verdict' = verdict
  BY DEF Submit
<1>2. \A r \in Requests : answers[r] \in Seq(AnswerOf) /\ "unsent" \in AnswerOf
  BY DEF FetchTypes, AnswerOf
<1>3. \A r \in Requests : /\ Append(answers[r], "unsent") \in Seq(AnswerOf)
                          /\ Len(Append(answers[r], "unsent")) = Len(answers[r]) + 1
                          /\ Len(answers[r]) \in Nat
  BY <1>2, OneMoreAnswer
<1>4. inFlight' \subseteq Requests /\ answers' \in [Requests -> Seq(AnswerOf)]
  BY <1>1, <1>2, <1>3 DEF FetchTypes
<1>5. \A r \in Requests \ new : answers'[r] = answers[r] /\ (r \in inFlight' <=> r \in inFlight)
  BY <1>1
<1>6. ASSUME NEW r \in Requests \ new
      PROVE  Places(r)' = Places(r)
  BY <1>5, <1>6 DEF Places
<1>7. ASSUME NEW r \in new
      PROVE  Places(r)' = 1
  <2>1. /\ r \in Requests /\ r \notin inFlight /\ r \notin done
        /\ ~ (r = Kept /\ cancelling = "found") /\ Len(answers[r]) = 0
    BY <1>7, PlacesParts
  <2>2. CASE r \in taken
    <3>1. r \in inFlight' /\ answers'[r] = answers[r]
      BY <1>1, <2>1, <2>2
    <3>2. r \notin done' /\ ~ (r = Kept /\ cancelling' = "found") /\ Len(answers'[r]) = 0
      BY <2>1, <3>1
    <3>3. QED
      BY <3>1, <3>2 DEF Places
  <2>3. CASE r \notin taken
    <3>1. r \notin inFlight' /\ Len(answers'[r]) = 1
      BY <1>1, <1>3, <1>7, <2>1, <2>3
    <3>2. r \notin done' /\ ~ (r = Kept /\ cancelling' = "found")
      BY <2>1
    <3>3. QED
      BY <3>1, <3>2 DEF Places
  <2>4. QED
    BY <2>2, <2>3
<1>8. ASSUME NEW r \in new, answers'[r] # <<>>
      PROVE  answers'[r][1] = "unsent"
  <2>1. r \in Requests /\ Len(answers[r]) = 0 /\ ~ Answered(r)
    BY <1>8, PlacesParts
  <2>2. answers[r] = <<>> /\ answers'[r] # <<>>
    BY <1>8, <2>1 DEF Answered
  <2>3. answers'[r] = Append(<<>>, "unsent")
    BY <1>1, <2>1, <2>2
  <2>4. QED
    BY <2>3
<1>9. QED
  BY <1>1, <1>4, <1>5, <1>6, <1>7, <1>8

(***************************************************************************)
(* What fetch and fetchNow leave behind, for any number of pages.          *)
(***************************************************************************)
HasAsked(search, numbers) ==
    /\ built' = built + Len(numbers) /\ built' =< MaxRequests
    /\ inFlight' \subseteq Requests /\ answers' \in [Requests -> Seq(AnswerOf)]
    /\ asked' \in [PageRequests -> (Searches \X (Nat \ {0})) \cup {<<>>}]
    /\ \A r \in Requests : Places(r)' = IF r \in Sent' THEN 1 ELSE 0
    /\ \A r \in InHand : asked'[r] = asked[r] /\ answers'[r] = answers[r]
    /\ \A n \in 1 .. MAX_ATTEMPTS :
           answers'[Try(n)] = answers[Try(n)] /\ (Try(n) \in inFlight' <=> Try(n) \in inFlight)
    /\ \A i \in 1 .. Len(numbers) : /\ Page(built + i) \in PageRequests
                                    /\ asked'[Page(built + i)] = <<search, numbers[i]>>
    /\ UNCHANGED <<verdict, fetcherVars, cancelling, fileVars, serverVars, body>>

LEMMA PagesInHand ==
    ASSUME FetchTypes
    PROVE  /\ InHand \subseteq PageRequests /\ InHand \subseteq Requests /\ InHand \subseteq Sent
           /\ \A i \in Nat \ {0} : Page(built + i) \notin Sent
           /\ \A r \in PageRequests : r \in Sent <=> r[2] =< built
<1>1. built \in Nat /\ built =< MaxRequests /\ attempt \in Nat /\ MaxRequests \in Nat
  BY FetchAssumption DEF FetchTypes
<1>2. InHand \subseteq PageRequests
  <2>1. \A n \in 1 .. built : n \in 1 .. MaxRequests
    BY <1>1
  <2>2. QED
    BY <2>1, Names DEF InHand
<1>3. \A k \in Nat : Page(k) \in Sent <=> k \in 1 .. built
  BY <1>1, Names DEF Sent
<1>4. \A r \in PageRequests : r \in Sent <=> r[2] =< built
  BY <1>1, <1>3, Names
<1>5. QED
  BY <1>1, <1>2, <1>3, <1>4, Names DEF InHand, Sent

LEMMA AskedPages ==
    ASSUME Base, pc # "down", NEW search \in Searches, NEW numbers \in Seq(Nat \ {0}),
           built + Len(numbers) =< MaxRequests, Ask(search, numbers)
    PROVE  HasAsked(search, numbers)
<1> DEFINE n   == Len(numbers)
           new == {Page(built + i) : i \in 1 .. n}
<1>1. FetchTypes /\ built \in Nat /\ n \in Nat /\ MaxRequests \in Nat
  BY LenProperties, FetchAssumption DEF Base, FetchTypes
<1>2. /\ built' = built + n /\ Submit(new)
      /\ asked' = [r \in PageRequests |->
                     IF r[2] \in (built + 1) .. (built + n)
                     THEN <<search, numbers[r[2] - built]>> ELSE asked[r]]
      /\ UNCHANGED <<body, fetcherVars, cancelling, fileVars, serverVars>>
  BY DEF Ask
<1>3. \A i \in 1 .. n : built + i \in 1 .. MaxRequests /\ Page(built + i) \in PageRequests
  BY <1>1, Names
<1>4. new \subseteq PageRequests /\ new \in SUBSET Requests
  BY <1>3, Names
<1>5. \A r \in new : r \notin Sent
  <2>1. \A i \in 1 .. n : i \in Nat \ {0}
    BY <1>1
  <2>2. QED
    BY <1>1, <2>1, PagesInHand
<1>6. \A r \in Requests : Places(r) = IF r \in Sent THEN 1 ELSE 0
  BY DEF Base, AnsweredOnce
<1>7. Sent' = Sent \cup new
  <2>1. attempt' = attempt /\ cancelling' = cancelling
    BY <1>2 DEF fileVars
  <2>2. {Page(i) : i \in 1 .. built'} = {Page(i) : i \in 1 .. built} \cup new
    <3>1. \A i \in 1 .. built + n : i \in 1 .. built \/ (i - built \in 1 .. n /\ built + (i - built) = i)
      BY <1>1
    <3>2. \A i \in 1 .. n : built + i \in 1 .. built + n
      BY <1>1
    <3>3. \A i \in 1 .. built : i \in 1 .. built + n
      BY <1>1
    <3>4. QED
      BY <1>2, <3>1, <3>2, <3>3
  <2> HIDE DEF new
  <2>3. QED
    BY <2>1, <2>2 DEF Sent
<1> HIDE DEF new
<1>8. /\ inFlight' \subseteq Requests /\ answers' \in [Requests -> Seq(AnswerOf)]
      /\ verdict' = verdict
      /\ \A r \in Requests : Places(r)' = IF r \in new THEN 1 ELSE Places(r)
      /\ \A r \in Requests \ new :
             answers'[r] = answers[r] /\ (r \in inFlight' <=> r \in inFlight)
  <2>1. done' = done /\ cancelling' = cancelling
    BY <1>2 DEF fetcherVars
  <2>2. \A r \in new : Places(r) = 0
    BY <1>4, <1>5, <1>6
  <2>3. QED
    BY <1>1, <1>2, <1>4, <2>1, <2>2, Submitted
<1>9. \A r \in Requests : Places(r)' = IF r \in Sent' THEN 1 ELSE 0
  BY <1>6, <1>7, <1>8
<1>10. asked' \in [PageRequests -> (Searches \X (Nat \ {0})) \cup {<<>>}]
  <2>1. \A k \in (built + 1) .. (built + n) : numbers[k - built] \in Nat \ {0}
    <3>1. \A k \in (built + 1) .. (built + n) : k - built \in 1 .. n
      BY <1>1
    <3>2. QED
      BY <3>1, ElementOfSeq
  <2>2. \A r \in PageRequests : asked[r] \in (Searches \X (Nat \ {0})) \cup {<<>>}
    BY <1>1 DEF FetchTypes
  <2>3. QED
    BY <1>2, <2>1, <2>2
<1>11. ASSUME NEW r \in InHand
       PROVE  asked'[r] = asked[r] /\ answers'[r] = answers[r]
  <2>1. r \in PageRequests /\ r \in Requests /\ r \in Sent /\ r[2] =< built
    BY <1>1, PagesInHand
  <2>2. r \notin new /\ r[2] \notin (built + 1) .. (built + n)
    BY <1>1, <1>5, <2>1
  <2>3. QED
    BY <1>2, <1>8, <2>1, <2>2
<1>12. ASSUME NEW i \in 1 .. n
       PROVE  asked'[Page(built + i)] = <<search, numbers[i]>>
  <2>1. Page(built + i) \in PageRequests /\ Page(built + i)[2] = built + i
    BY <1>3 DEF Page
  <2>2. built + i \in (built + 1) .. (built + n) /\ (built + i) - built = i
    BY <1>1
  <2>3. QED
    BY <1>2, <2>1, <2>2
<1>13. ASSUME NEW k \in 1 .. MAX_ATTEMPTS
       PROVE  answers'[Try(k)] = answers[Try(k)] /\ (Try(k) \in inFlight' <=> Try(k) \in inFlight)
  <2>1. Try(k) \in Requests /\ Try(k) \notin new
    BY <1>13, Names DEF new
  <2>2. QED
    BY <1>8, <2>1
<1>14. QED
  BY <1>1, <1>2, <1>3, <1>8, <1>9, <1>10, <1>11, <1>12, <1>13 DEF HasAsked

(***************************************************************************)
(* What does not touch the download and its tries leaves its file alone.   *)
(***************************************************************************)
LEMMA FileAside ==
    ASSUME OpenFile, UNCHANGED <<verdict, attempt, download, file>>,
           \A n \in 1 .. MAX_ATTEMPTS :
               /\ Try(n) \in inFlight' \cup done' => Try(n) \in inFlight \cup done
               /\ \/ answers'[Try(n)] = answers[Try(n)]
                  \/ Answered(Try(n))' /\ Answer(Try(n))' = "page" => verdict[Try(n)] = "page"
    PROVE  OpenFile'
<1>1. ASSUME NEW n \in 1 .. MAX_ATTEMPTS
      PROVE  /\ Try(n) \in inFlight' \cup done' => download' = "wait" /\ attempt' = n
             /\ n > attempt' => verdict'[Try(n)] = "none"
             /\ Answered(Try(n))' /\ Answer(Try(n))' = "page" => verdict'[Try(n)] = "page"
  <2>1. answers'[Try(n)] = answers[Try(n)] =>
          (Answered(Try(n))' <=> Answered(Try(n))) /\ Answer(Try(n))' = Answer(Try(n))
    BY DEF Answered, Answer
  <2>2. Answered(Try(n))' /\ Answer(Try(n))' = "page" => verdict[Try(n)] = "page"
    BY <2>1 DEF OpenFile
  <2>3. QED
    BY <2>2 DEF OpenFile
<1>2. download' = "wait" => /\ verdict'[Try(attempt')] = "none" => file' = "empty"
                            /\ verdict'[Try(attempt')] = "page" => file' = "page"
  BY DEF OpenFile
<1>3. QED
  BY <1>1, <1>2 DEF OpenFile, Answered, Answer

LEMMA AskedNone ==
    ASSUME Base, pc # "down", NEW search, AskNothing
    PROVE  HasAsked(search, <<>>)
<1>1. Len(<<>>) = 0 /\ FetchTypes /\ built \in Nat /\ built =< MaxRequests
  BY DEF Base, FetchTypes
<1>2. /\ UNCHANGED <<inFlight, answers, asked, built, attempt, cancelling, done>>
      /\ UNCHANGED <<verdict, fetcherVars, fileVars, serverVars, body>>
  BY DEF AskNothing, fetchVars, transferVars, fetcherVars, fileVars, slotVars
<1>3. \A r \in Requests : Places(r)' = Places(r)
  BY <1>2 DEF Places
<1>4. Sent' = Sent
  BY <1>2 DEF Sent
<1>5. \A r \in Requests : Places(r)' = IF r \in Sent' THEN 1 ELSE 0
  BY <1>3, <1>4 DEF Base, AnsweredOnce
<1>6. QED
  BY <1>1, <1>2, <1>5 DEF HasAsked, FetchTypes

(***************************************************************************)
(* Asking for pages preserves Base.                                        *)
(***************************************************************************)
LEMMA BaseAfterAsking ==
    ASSUME Base, NEW search \in Searches, NEW numbers \in Seq(Nat \ {0}),
           HasAsked(search, numbers),
           pc \notin {"clear", "down"}, pc' \notin {"clear", "down"}
    PROVE  /\ Base'
           /\ InHand \subseteq InHand'
           /\ \A i \in 1 .. Len(numbers) :
                  Page(built + i) \in InHand' /\ Page(built + i) \in PageRequests
<1>1. /\ UNCHANGED <<verdict, company, initialized, threadRunning, fetcher, done, cancelling>>
      /\ UNCHANGED <<attempt, download, file, cardFailed, total, changes, body>>
  BY DEF HasAsked, fetcherVars, fileVars, serverVars
<1>2. /\ built \in Nat /\ built' \in Nat /\ Len(numbers) \in Nat
      /\ built' = built + Len(numbers) /\ built' =< MaxRequests
  BY LenProperties DEF Base, FetchTypes, HasAsked
<1>3. FetchTypes'
  BY <1>1, <1>2 DEF Base, FetchTypes, HasAsked
<1>4. AnsweredOnce'
  BY DEF HasAsked, AnsweredOnce
<1>5. Threads' /\ Counted' /\ OpenFile' /\ FileIsWhole'
  <2>1. OpenFile'
    <3>1. \A n \in 1 .. MAX_ATTEMPTS :
            answers'[Try(n)] = answers[Try(n)] /\ (Try(n) \in inFlight' <=> Try(n) \in inFlight)
      BY DEF HasAsked
    <3>2. OpenFile /\ UNCHANGED <<verdict, attempt, download, file, done>>
      BY <1>1 DEF Base
    <3>3. QED
      BY <3>1, <3>2, FileAside
  <2>2. QED
    BY <1>1, <2>1 DEF Base, Threads, Counted, FileIsWhole
<1>6. InHand \subseteq InHand'
  BY <1>2 DEF InHand
<1>7. \A i \in 1 .. Len(numbers) : built + i \in 1 .. built'
  BY <1>2
<1>8. \A i \in 1 .. Len(numbers) :
          Page(built + i) \in InHand' /\ Page(built + i) \in PageRequests
  BY <1>7 DEF InHand, HasAsked
<1>9. AskedFor'
  <2>1. ASSUME NEW k \in 1 .. built'
        PROVE  asked'[Page(k)] \in Searches \X (Nat \ {0})
    <3>1. CASE k \in 1 .. built
      BY <3>1 DEF HasAsked, InHand, Base, AskedFor
    <3>2. CASE k > built
      <4>1. k - built \in 1 .. Len(numbers) /\ built + (k - built) = k
        BY <1>2, <2>1, <3>2
      <4>2. asked'[Page(k)] = <<search, numbers[k - built]>>
        BY <4>1 DEF HasAsked
      <4>3. numbers[k - built] \in Nat \ {0}
        BY <4>1, ElementOfSeq
      <4>4. QED
        BY <4>2, <4>3
    <3>3. QED
      BY <1>2, <2>1, <3>1, <3>2
  <2>2. QED
    BY <2>1 DEF AskedFor, InHand
<1>10. QED
  BY <1>3, <1>4, <1>5, <1>6, <1>8, <1>9 DEF Base

(***************************************************************************)
(* What happens beside the browser does not disturb it, as long as the     *)
(* slots keep what they have been answered.                                *)
(***************************************************************************)
KeepsSlots ==
    \A r \in InHand : KeepsAnswer(r) /\ (HasContents(r) => body'[r] = body[r])

LEMMA FrontBeside ==
    ASSUME IInv, UNCHANGED <<built, asked, pageVars, mainVars>>, KeepsSlots
    PROVE  Front'
<1>1. UNCHANGED <<built, asked, searchQuery, current, next, prev, pageNumber, isGood>>
      /\ UNCHANGED <<pc, arriving, number, beyond>>
  BY DEF pageVars, mainVars, waitVars
<1>2. PageTypes' /\ Room' /\ InHand' = InHand
  BY <1>1 DEF IInv, Front, PageTypes, Room, InHand
<1>3. ASSUME isGood, pc \in {"idle", "forward", "back"}
      PROVE  HasContents(current)' /\ PagesOf(current)' = PagesOf(current)
  <2>1. current \in InHand /\ HasContents(current)
    BY <1>3 DEF IInv, Front, Shown
  <2>2. HasContents(current)' /\ body'[current] = body[current]
    BY <1>1, <2>1 DEF KeepsSlots, KeepsAnswer, HasContents
  <2>3. QED
    BY <1>1, <2>1, <2>2 DEF PagesOf
<1>4. Shown'
  BY <1>1, <1>2, <1>3 DEF IInv, Front, Shown, Fit
<1>5. Expected'
  BY <1>1, <1>2, <1>3 DEF IInv, Front, Expected, Waiting
<1>6. QED
  BY <1>2, <1>4, <1>5 DEF Front

LEMMA SamePlaces ==
    ASSUME AnsweredOnce, Sent' = Sent, pc' = pc, \A r \in Requests : Places(r)' = Places(r)
    PROVE  AnsweredOnce'
BY DEF AnsweredOnce

\* Of a step beside the browser, what has to be shown.
BesideStep ==
    /\ FetchTypes' /\ AnsweredOnce' /\ Threads' /\ Counted' /\ OpenFile' /\ FileIsWhole'
    /\ KeepsSlots

LEMMA StepBeside ==
    ASSUME IInv, UNCHANGED <<built, asked, pageVars, mainVars>>, BesideStep
    PROVE  IInv'
<1>1. AskedFor'
  BY DEF IInv, Base, AskedFor, InHand
<1>2. QED
  BY <1>1, FrontBeside DEF IInv, Base, BesideStep

-----------------------------------------------------------------------------
(* The steps beside the browser *)

LEMMA TotalStep ==
    ASSUME IInv, TotalChanges
    PROVE  IInv'
<1>1. /\ UNCHANGED <<fetchVars, slotVars, pageVars, mainVars>>
      /\ total' \in Totals /\ changes' \in 0 .. MaxChanges
  BY BrowserAssumption DEF TotalChanges, IInv, Base, FetchTypes
<1>2. /\ UNCHANGED <<inFlight, verdict, answers, company, initialized, threadRunning>>
      /\ UNCHANGED <<fetcher, done, cancelling, attempt, download, file, cardFailed>>
      /\ UNCHANGED <<built, asked, body, pc>>
  BY <1>1 DEF fetchVars, transferVars, fetcherVars, fileVars, slotVars, mainVars
<1>3. FetchTypes'
  BY <1>1, <1>2 DEF IInv, Base, FetchTypes
<1>4. AnsweredOnce'
  BY <1>2 DEF IInv, Base, AnsweredOnce, Places, Sent
<1>5. Threads' /\ Counted' /\ OpenFile' /\ FileIsWhole'
  <2>1. OpenFile'
    BY <1>2, FileAside DEF IInv, Base
  <2>2. QED
    BY <1>2, <2>1 DEF IInv, Base, Threads, Counted, FileIsWhole
<1>6. KeepsSlots
  BY <1>2 DEF KeepsSlots, KeepsAnswer, Answered, Answer
<1>7. QED
  BY <1>1, <1>2, <1>3, <1>4, <1>5, <1>6, StepBeside DEF BesideStep

LEMMA ArrivalStep ==
    ASSUME IInv, NEW r \in Requests, PageArrives(r)
    PROVE  IInv'
<1>1. /\ r \in inFlight /\ verdict[r] = "none"
      /\ UNCHANGED <<inFlight, answers, company, initialized, threadRunning>>
      /\ UNCHANGED <<fetcher, done, cancelling, attempt, download, cardFailed>>
      /\ UNCHANGED <<total, changes, built, asked, pageVars, mainVars, pc>>
  BY DEF PageArrives, TransferEnds, fetcherVars, serverVars, mainVars
<1>2. PICK v \in Outcomes(r) : /\ verdict' = [verdict EXCEPT ![r] = v]
                               /\ IF r[1] = "try" THEN Writes(v) ELSE UNCHANGED file
  BY DEF PageArrives, TransferEnds
<1>3. v \in Verdicts /\ v # "none"
  BY DEF Outcomes, Verdicts
<1>4. FetchTypes
  BY DEF IInv, Base
<1>5. verdict' \in [Requests -> Verdicts \cup {"none"}]
  BY <1>2, <1>3, <1>4 DEF FetchTypes
<1>6. /\ body' \in [PageRequests -> Nat]
      /\ \A s \in PageRequests : s # r => body'[s] = body[s]
  <2>1. total \in Nat /\ body \in [PageRequests -> Nat]
    BY <1>4, BrowserAssumption DEF FetchTypes
  <2>2. body' = [body EXCEPT ![r] = total] \/ body' = body
    BY DEF PageArrives
  <2>3. QED
    BY <2>1, <2>2
<1>7. FetchTypes'
  <2>1. file' \in {"missing", "empty", "part", "page"}
    BY <1>2, <1>4 DEF FetchTypes, Writes
  <2>2. QED
    BY <1>1, <1>4, <1>5, <1>6, <2>1 DEF FetchTypes
<1>8. AnsweredOnce'
  BY <1>1 DEF IInv, Base, AnsweredOnce, Places, Sent
<1>9. Threads'
  <2>1. \A s \in done : verdict'[s] # "none"
    BY <1>2, <1>3, <1>4 DEF IInv, Base, Threads, FetchTypes
  <2>2. QED
    BY <1>1, <2>1 DEF IInv, Base, Threads
<1>10. Counted' /\ OpenFile' /\ FileIsWhole'
  <2>1. Counted /\ OpenFile /\ FileIsWhole /\ attempt \in 0 .. MAX_ATTEMPTS /\ attempt \in Nat
    BY <1>4 DEF IInv, Base, FetchTypes
  <2>2. \A q \in Requests : verdict'[q] = IF q = r THEN v ELSE verdict[q]
    BY <1>2, <1>4 DEF FetchTypes
  <2>3. CASE r[1] = "try"
    <3>1. PICK k \in 1 .. MAX_ATTEMPTS : r = Try(k)
      BY <2>3 DEF Requests, Kept, Try
    <3>2. download = "wait" /\ attempt = k /\ file = "empty"
      BY <1>1, <2>1, <3>1 DEF OpenFile
    <3>3. v = "page" => file' = "page"
      BY <1>2, <2>3, <3>2 DEF Writes
    <3>4. ~ Answered(r)
      <4>1. Places(r) =< 1
        BY <1>4 DEF IInv, Base, AnsweredOnce
      <4>2. QED
        BY <1>1, <1>4, <4>1, PlacesParts
    <3>5. ASSUME NEW n \in 1 .. MAX_ATTEMPTS
          PROVE  /\ Try(n) \in inFlight' \cup done' => n = k
                 /\ n > attempt => verdict'[Try(n)] = "none"
                 /\ Answered(Try(n))' /\ Answer(Try(n))' = "page" => verdict'[Try(n)] = "page"
      <4>1. Try(n) \in Requests /\ (Try(n) = r <=> n = k)
        BY <3>1, Names
      <4>2. (Answered(Try(n))' <=> Answered(Try(n))) /\ Answer(Try(n))' = Answer(Try(n))
        BY <1>1 DEF Answered, Answer
      <4>3. n > attempt => n # k
        BY <2>1, <3>2
      <4>4. Try(n) \in inFlight' \cup done' => n = k
        BY <1>1, <2>1, <3>2 DEF OpenFile
      <4>5. n > attempt => verdict'[Try(n)] = "none"
        BY <2>1, <2>2, <4>1, <4>3 DEF OpenFile
      <4>6. Answered(Try(n)) /\ Answer(Try(n)) = "page" => verdict'[Try(n)] = "page"
        BY <2>1, <2>2, <3>4, <4>1 DEF OpenFile
      <4>7. QED
        BY <4>2, <4>4, <4>5, <4>6
    <3>6. verdict'[Try(attempt')] = v
      BY <1>1, <2>2, <3>1, <3>2
    <3>7. OpenFile'
      BY <1>1, <1>3, <3>2, <3>3, <3>5, <3>6 DEF OpenFile
    <3>8. QED
      BY <1>1, <2>1, <3>2, <3>7 DEF Counted, FileIsWhole
  <2>4. CASE r[1] # "try"
    <3>1. file' = file
      BY <1>2, <2>4
    <3>2. ASSUME NEW n \in 1 .. MAX_ATTEMPTS
          PROVE  verdict'[Try(n)] = verdict[Try(n)]
      <4>1. Try(n) \in Requests /\ Try(n)[1] = "try"
        BY Names DEF Try
      <4>2. Try(n) # r
        BY <2>4, <4>1
      <4>3. QED
        BY <2>2, <4>1, <4>2
    <3>3. download = "wait" => attempt \in 1 .. MAX_ATTEMPTS
      BY <2>1 DEF Counted
    <3>4. OpenFile'
      BY <1>1, <2>1, <3>1, <3>2, <3>3 DEF OpenFile, Answered, Answer
    <3>5. QED
      BY <1>1, <2>1, <3>1, <3>4 DEF Counted, FileIsWhole
  <2>5. QED
    BY <2>3, <2>4
<1>11. KeepsSlots
  <2>1. ASSUME NEW s \in InHand, HasContents(s)
        PROVE  s # r
    <3>1. s \in Requests /\ Places(s) =< 1
      BY <1>4, <2>1, PagesInHand DEF IInv, Base, AnsweredOnce
    <3>2. QED
      BY <1>1, <1>4, <2>1, <3>1, PlacesParts DEF HasContents
  <2>2. \A s \in InHand : KeepsAnswer(s)
    BY <1>1 DEF KeepsAnswer, Answered, Answer
  <2>3. InHand \subseteq PageRequests
    BY <1>4, PagesInHand
  <2>4. QED
    BY <1>6, <2>1, <2>2, <2>3 DEF KeepsSlots
<1>12. QED
  BY <1>1, <1>7, <1>8, <1>9, <1>10, <1>11, StepBeside DEF BesideStep

(***************************************************************************)
(* The fetch thread.                                                       *)
(***************************************************************************)
LEMMA FetcherStep ==
    ASSUME IInv, FetcherSteps, Beside
    PROVE  IInv'
<1>1. /\ UNCHANGED <<company, initialized, threadRunning, verdict, cancelling>>
      /\ UNCHANGED <<attempt, download, file, cardFailed, total, changes, built, asked, body, pc>>
      /\ UNCHANGED <<pageVars, mainVars>>
  BY DEF FetcherSteps, FetcherTests, FetcherDrains, FetcherAnswers, TurnEnds, Fetcher,
         Beside, fileVars, serverVars, slotVars, mainVars
<1>2. /\ FetchTypes /\ AnsweredOnce /\ Threads /\ Counted /\ OpenFile /\ FileIsWhole
  BY DEF IInv, Base
<1>3. Counted' /\ FileIsWhole' /\ Sent' = Sent
  BY <1>1, <1>2 DEF Counted, FileIsWhole, Sent
<1>4. ASSUME /\ inFlight' \subseteq Requests /\ done' \subseteq Requests
             /\ fetcher' \in {"test", "drain", "run", "ended"}
             /\ answers' \in [Requests -> Seq(AnswerOf)]
             /\ \A r \in Requests : Places(r)' = Places(r) /\ KeepsAnswer(r)
             /\ fetcher' # "run" => done' = {}
             /\ \A r \in done' : verdict[r] # "none"
             /\ inFlight' \cup done' \subseteq inFlight \cup done
             /\ \A r \in Requests : \/ answers'[r] = answers[r]
                                    \/ Answer(r)' = "page" => verdict[r] = "page"
      PROVE  IInv'
  <2>1. FetchTypes'
    BY <1>1, <1>2, <1>4 DEF FetchTypes
  <2>2. AnsweredOnce'
    BY <1>1, <1>2, <1>3, <1>4, SamePlaces
  <2>3. Threads'
    BY <1>1, <1>2, <1>4 DEF Threads
  <2>4. KeepsSlots
    BY <1>1, <1>2, <1>4, PagesInHand DEF KeepsSlots
  <2>5. OpenFile'
    BY <1>1, <1>2, <1>4, Names, FileAside
  <2>6. QED
    BY <1>1, <1>3, <2>1, <2>2, <2>3, <2>4, <2>5, StepBeside DEF BesideStep
<1>5. CASE FetcherTests
  <2>1. /\ UNCHANGED <<inFlight, done, answers>> /\ done = {}
        /\ fetcher' \in {"drain", "ended"}
    BY <1>2, <1>5 DEF FetcherTests, Fetcher, Threads
  <2>2. \A r \in Requests : Places(r)' = Places(r) /\ KeepsAnswer(r)
    BY <1>1, <2>1 DEF Places, KeepsAnswer, Answered, Answer
  <2>3. QED
    BY <1>2, <1>4, <2>1, <2>2 DEF FetchTypes
<1>6. CASE FetcherDrains
  <2>1. /\ fetcher = "drain" /\ fetcher' = "run" /\ done = {}
        /\ done' = Over /\ inFlight' = inFlight \ Over /\ answers' = answers
    BY <1>2, <1>6 DEF FetcherDrains, Fetcher, Threads
  <2>2. Over \subseteq inFlight /\ \A r \in Over : verdict[r] # "none"
    BY DEF Over
  <2>3. ASSUME NEW r \in Requests
        PROVE  Places(r)' = Places(r)
    <3>1. CASE r \in Over
      <4>1. r \in inFlight /\ r \notin done /\ r \notin inFlight' /\ r \in done'
        BY <2>1, <2>2, <3>1
      <4>2. QED
        BY <1>1, <2>1, <4>1 DEF Places
    <3>2. CASE r \notin Over
      <4>1. (r \in inFlight' <=> r \in inFlight) /\ r \notin done /\ r \notin done'
        BY <2>1, <3>2
      <4>2. QED
        BY <1>1, <2>1, <4>1 DEF Places
    <3>3. QED
      BY <3>1, <3>2
  <2>4. \A r \in Requests : KeepsAnswer(r)
    BY <2>1 DEF KeepsAnswer, Answered, Answer
  <2>5. /\ inFlight' \subseteq Requests /\ done' \subseteq Requests
        /\ inFlight' \cup done' \subseteq inFlight \cup done
        /\ answers' \in [Requests -> Seq(AnswerOf)]
    BY <1>2, <2>1, <2>2 DEF FetchTypes
  <2>6. QED
    BY <1>4, <2>1, <2>2, <2>3, <2>4, <2>5
<1>7. ASSUME NEW r \in Requests, FetcherAnswers(r)
      PROVE  IInv'
  <2>1. /\ fetcher' = "run" /\ r \in done /\ done' = done \ {r} /\ inFlight' = inFlight
        /\ answers' = [answers EXCEPT ![r] = Append(@, verdict[r])]
    BY <1>7 DEF FetcherAnswers, Fetcher
  <2>2. /\ verdict[r] \in AnswerOf
        /\ \A s \in Requests : answers[s] \in Seq(AnswerOf)
    BY <1>2, <2>1 DEF FetchTypes, Threads, AnswerOf
  <2>3. /\ Append(answers[r], verdict[r]) \in Seq(AnswerOf)
        /\ Len(Append(answers[r], verdict[r])) = Len(answers[r]) + 1
        /\ Len(answers[r]) \in Nat /\ Append(answers[r], verdict[r]) # <<>>
        /\ answers[r] # <<>> => Append(answers[r], verdict[r])[1] = answers[r][1]
    BY <2>2, OneMoreAnswer
  <2>4. /\ answers' \in [Requests -> Seq(AnswerOf)]
        /\ answers'[r] = Append(answers[r], verdict[r])
        /\ \A s \in Requests : s # r => answers'[s] = answers[s]
    BY <1>2, <2>1, <2>2, <2>3 DEF FetchTypes
  <2>5. Places(r)' = Places(r)
    <3>1. r \in done /\ r \notin done' /\ Len(answers'[r]) = Len(answers[r]) + 1
      BY <2>1, <2>3, <2>4
    <3> DEFINE x == IF r \in inFlight THEN 1 ELSE 0
               y == IF r = Kept /\ cancelling = "found" THEN 1 ELSE 0
    <3>2. Places(r) = x + 1 + y + Len(answers[r])
      BY <3>1 DEF Places
    <3>3. Places(r)' = x + 0 + y + (Len(answers[r]) + 1)
      BY <1>1, <2>1, <3>1 DEF Places
    <3>4. x \in Nat /\ y \in Nat
      OBVIOUS
    <3> HIDE DEF x, y
    <3>5. \A m, n, k \in Nat : m + 1 + n + k = m + 0 + n + (k + 1)
      OBVIOUS
    <3>6. Len(answers[r]) \in Nat
      BY <2>3
    <3>7. QED
      BY <3>2, <3>3, <3>4, <3>5, <3>6
  <2>6. ASSUME NEW s \in Requests, s # r
        PROVE  Places(s)' = Places(s)
    <3>1. (s \in done' <=> s \in done) /\ answers'[s] = answers[s]
      BY <2>1, <2>4, <2>6
    <3>2. QED
      BY <1>1, <2>1, <3>1 DEF Places
  <2>7. \A s \in Requests : KeepsAnswer(s)
    BY <2>3, <2>4 DEF KeepsAnswer, Answered, Answer
  <2>8. \A s \in done' : verdict[s] # "none"
    BY <1>2, <2>1 DEF Threads
  <2>9. inFlight' \subseteq Requests /\ done' \subseteq Requests
    BY <1>2, <2>1 DEF FetchTypes
  <2>10. Answer(r)' = "page" => verdict[r] = "page"
    <3>1. r \in Requests /\ Places(r) =< 1
      BY <1>2, <1>7 DEF AnsweredOnce
    <3>2. answers[r] = <<>>
      BY <1>2, <2>1, <3>1, PlacesParts DEF Answered
    <3>3. QED
      BY <2>4, <3>2 DEF Answer
  <2>11. QED
    BY <1>4, <2>1, <2>4, <2>5, <2>6, <2>7, <2>8, <2>9, <2>10
<1>8. CASE TurnEnds
  <2>1. UNCHANGED <<inFlight, done, answers>> /\ done = {} /\ fetcher' = "test"
    BY <1>8 DEF TurnEnds, Fetcher
  <2>2. \A r \in Requests : Places(r)' = Places(r) /\ KeepsAnswer(r)
    BY <1>1, <2>1 DEF Places, KeepsAnswer, Answered, Answer
  <2>3. QED
    BY <1>2, <1>4, <2>1, <2>2 DEF FetchTypes
<1>9. QED
  BY <1>5, <1>6, <1>7, <1>8 DEF FetcherSteps

(***************************************************************************)
(* The thread that keeps a handle and cancels.                             *)
(***************************************************************************)
LEMMA CancelStep ==
    ASSUME IInv, CancelSteps, Beside
    PROVE  IInv'
<1>1. /\ UNCHANGED <<company, initialized, threadRunning, fetcher, done, verdict>>
      /\ UNCHANGED <<attempt, download, file, cardFailed, total, changes, built, asked, body, pc>>
      /\ UNCHANGED <<pageVars, mainVars>>
  BY DEF CancelSteps, SendAndKeep, Cancel, CancelAnswers, Cancelling, Submit,
         Beside, fetcherVars, fileVars, serverVars, slotVars, mainVars
<1>2. /\ FetchTypes /\ AnsweredOnce /\ Threads /\ Counted /\ OpenFile /\ FileIsWhole
  BY DEF IInv, Base
<1>3. Counted' /\ FileIsWhole' /\ Threads'
  BY <1>1, <1>2 DEF Counted, FileIsWhole, Threads
<1>4. InHand \subseteq Requests /\ Kept \notin InHand /\ Kept \in Requests
  BY <1>2, PagesInHand, Names
<1>5. ASSUME /\ inFlight' \subseteq Requests /\ answers' \in [Requests -> Seq(AnswerOf)]
             /\ cancelling' \in {"none", "may", "found", "no"}
             /\ \A r \in Requests \ {Kept} : answers'[r] = answers[r]
             /\ \A r \in Requests \ {Kept} : r \in inFlight' => r \in inFlight
             /\ AnsweredOnce'
      PROVE  IInv'
  <2>1. FetchTypes'
    BY <1>1, <1>2, <1>5 DEF FetchTypes
  <2>2. KeepsSlots
    BY <1>1, <1>4, <1>5 DEF KeepsSlots, KeepsAnswer, Answered, Answer
  <2>3. OpenFile'
    <3>1. \A n \in 1 .. MAX_ATTEMPTS : Try(n) \in Requests \ {Kept}
      BY Names
    <3>2. QED
      BY <1>1, <1>2, <1>5, <3>1, FileAside
  <2>4. QED
    BY <1>1, <1>3, <1>5, <2>1, <2>2, <2>3, StepBeside DEF BesideStep
<1>6. CASE SendAndKeep
  <2>1. /\ Submit({Kept}) /\ cancelling = "none" /\ cancelling' \in {"may", "no"}
    BY <1>6 DEF SendAndKeep
  <2>2. Kept \notin Sent /\ Sent' = Sent \cup {Kept}
    BY <1>1, <2>1, Names DEF Sent
  <2>3. Places(Kept) = 0
    BY <1>2, <1>4, <2>2 DEF AnsweredOnce
  <2>4. /\ inFlight' \subseteq Requests /\ answers' \in [Requests -> Seq(AnswerOf)]
        /\ \A r \in Requests : Places(r)' = IF r = Kept THEN 1 ELSE Places(r)
        /\ \A r \in Requests \ {Kept} :
               answers'[r] = answers[r] /\ (r \in inFlight' <=> r \in inFlight)
    BY <1>1, <1>2, <1>4, <2>1, <2>3, Submitted
  <2>5. AnsweredOnce'
    BY <1>1, <1>2, <2>2, <2>4 DEF AnsweredOnce
  <2>6. QED
    BY <1>5, <2>1, <2>4, <2>5
<1>7. CASE Cancel
  <2>1. /\ cancelling = "may" /\ answers' = answers /\ inFlight' = inFlight \ {Kept}
        /\ cancelling' = IF Kept \in inFlight THEN "found" ELSE "no"
    BY <1>7 DEF Cancel, Cancelling
  <2>2. Sent' = Sent
    BY <1>1, <2>1 DEF Sent
  <2>3. ASSUME NEW r \in Requests
        PROVE  Places(r)' = Places(r)
    <3>1. CASE r = Kept /\ Kept \in inFlight
      <4>1. /\ r \in inFlight /\ r \notin inFlight' /\ cancelling # "found" /\ cancelling' = "found"
        BY <2>1, <3>1
      <4>2. QED
        BY <1>1, <2>1, <3>1, <4>1 DEF Places
    <3>2. CASE ~ (r = Kept /\ Kept \in inFlight)
      <4>1. /\ r \in inFlight' <=> r \in inFlight
            /\ ~ (r = Kept /\ cancelling = "found") /\ ~ (r = Kept /\ cancelling' = "found")
        BY <2>1, <3>2
      <4>2. QED
        BY <1>1, <2>1, <4>1 DEF Places
    <3>3. QED
      BY <3>1, <3>2
  <2>4. AnsweredOnce'
    BY <1>1, <1>2, <2>2, <2>3, SamePlaces
  <2>5. QED
    BY <1>2, <1>5, <2>1, <2>4 DEF FetchTypes
<1>8. CASE CancelAnswers
  <2>1. /\ cancelling = "found" /\ cancelling' = "no" /\ inFlight' = inFlight
        /\ answers' = [answers EXCEPT ![Kept] = Append(@, "cancelled")]
    BY <1>8 DEF CancelAnswers, Cancelling
  <2>2. Sent' = Sent
    BY <1>1, <2>1 DEF Sent
  <2>3. /\ \A r \in Requests : answers[r] \in Seq(AnswerOf)
        /\ "cancelled" \in AnswerOf
    BY <1>2 DEF FetchTypes, AnswerOf
  <2>4. /\ Append(answers[Kept], "cancelled") \in Seq(AnswerOf)
        /\ Len(Append(answers[Kept], "cancelled")) = Len(answers[Kept]) + 1
        /\ Len(answers[Kept]) \in Nat
    BY <1>4, <2>3, OneMoreAnswer
  <2>5. /\ answers' \in [Requests -> Seq(AnswerOf)]
        /\ Len(answers'[Kept]) = Len(answers[Kept]) + 1
        /\ \A r \in Requests \ {Kept} : answers'[r] = answers[r]
    BY <1>2, <1>4, <2>1, <2>3, <2>4 DEF FetchTypes
  <2>6. Places(Kept)' = Places(Kept)
    BY <1>1, <2>1, <2>4, <2>5 DEF Places
  <2>7. ASSUME NEW r \in Requests, r # Kept
        PROVE  Places(r)' = Places(r)
    BY <1>1, <2>1, <2>5, <2>7 DEF Places
  <2>8. AnsweredOnce'
    BY <1>1, <1>2, <2>2, <2>6, <2>7, SamePlaces
  <2>9. QED
    BY <1>2, <1>5, <2>1, <2>5, <2>8 DEF FetchTypes
<1>9. QED
  BY <1>6, <1>7, <1>8 DEF CancelSteps

(***************************************************************************)
(* The thread that downloads.                                              *)
(***************************************************************************)
LEMMA DownloadStep ==
    ASSUME IInv, DownloadSteps, Beside
    PROVE  IInv'
<1>1. /\ UNCHANGED <<company, initialized, threadRunning, fetcher, done, verdict, cancelling>>
      /\ UNCHANGED <<total, changes, built, asked, body, pc, pageVars, mainVars>>
  BY DEF DownloadSteps, DownloadRefused, DownloadAsks, DownloadReturns, Download, Submit,
         Beside, transferVars, fetcherVars, serverVars, slotVars, mainVars
<1>2. /\ FetchTypes /\ AnsweredOnce /\ Threads /\ Counted /\ OpenFile /\ FileIsWhole
      /\ attempt \in Nat /\ MAX_ATTEMPTS \in Nat /\ MAX_ATTEMPTS >= 1
  BY FetchAssumption DEF IInv, Base, FetchTypes
<1>3. Threads'
  BY <1>1, <1>2 DEF Threads
<1>4. ASSUME /\ UNCHANGED <<inFlight, answers, attempt>>
             /\ download' \in {"none", "wait", "next", "refused", "failed", "saved"}
             /\ file' \in {"missing", "empty", "part", "page"} /\ cardFailed' \in BOOLEAN
             /\ download' # "wait" /\ \A n \in 1 .. MAX_ATTEMPTS : Try(n) \notin inFlight \cup done
             /\ Counted' /\ FileIsWhole'
      PROVE  IInv'
  <2>1. FetchTypes'
    BY <1>1, <1>2, <1>4 DEF FetchTypes
  <2>2. AnsweredOnce'
    BY <1>1, <1>2, <1>4 DEF AnsweredOnce, Places, Sent
  <2>3. KeepsSlots
    BY <1>1, <1>4 DEF KeepsSlots, KeepsAnswer, Answered, Answer
  <2>4. OpenFile'
    BY <1>1, <1>2, <1>4 DEF OpenFile, Answered, Answer
  <2>5. QED
    BY <1>1, <1>3, <1>4, <2>1, <2>2, <2>3, <2>4, StepBeside DEF BesideStep
<1>5. CASE DownloadRefused
  <2>1. /\ download \in {"next", "none"} /\ download' = "refused"
        /\ UNCHANGED <<inFlight, answers, attempt, file, cardFailed>>
    BY <1>5 DEF DownloadRefused, Download, transferVars
  <2>2. attempt = 0 => file = "missing"
    BY <1>2, <2>1 DEF Counted
  <2>3. Counted' /\ FileIsWhole'
    BY <2>1, <2>2 DEF Counted, FileIsWhole
  <2>4. \A n \in 1 .. MAX_ATTEMPTS : Try(n) \notin inFlight \cup done
    BY <1>2, <2>1 DEF OpenFile
  <2>5. QED
    BY <1>2, <1>4, <2>1, <2>3, <2>4 DEF FetchTypes
<1>6. CASE DownloadReturns
  <2>1. /\ download = "wait" /\ UNCHANGED <<inFlight, answers, attempt>>
        /\ Answered(Try(attempt))
    BY <1>6 DEF DownloadReturns, transferVars
  <2>2. \/ /\ download' = "next" /\ attempt < MAX_ATTEMPTS
           /\ UNCHANGED <<file, cardFailed>>
        \/ /\ download' = "saved" /\ Answer(Try(attempt)) = "page"
           /\ UNCHANGED <<file, cardFailed>> \/ (file' = "part" /\ cardFailed' = TRUE)
        \/ /\ download' = "failed"
           /\ \/ file' = "missing" /\ UNCHANGED cardFailed
              \/ UNCHANGED file /\ cardFailed' = TRUE
    BY <1>6 DEF DownloadReturns, Download, CardWorks, CardFails
  <2>3. attempt \in 1 .. MAX_ATTEMPTS
    BY <1>2, <2>1 DEF Counted, FetchTypes
  <2>4. Answer(Try(attempt)) = "page" => file = "page"
    BY <1>2, <2>1, <2>3 DEF OpenFile
  <2>5. Counted' /\ FileIsWhole'
    BY <1>2, <2>1, <2>2, <2>4 DEF Counted, FileIsWhole
  <2>6. Try(attempt) \notin inFlight \cup done
    <3>1. Try(attempt) \in Requests
      BY <2>3, Names
    <3>2. Places(Try(attempt)) =< 1
      BY <1>2, <3>1 DEF AnsweredOnce
    <3>3. QED
      BY <1>2, <2>1, <3>1, <3>2, PlacesParts
  <2>7. \A n \in 1 .. MAX_ATTEMPTS : Try(n) \notin inFlight \cup done
    BY <1>2, <2>6 DEF OpenFile
  <2>8. QED
    BY <1>2, <1>4, <2>1, <2>2, <2>5, <2>7 DEF FetchTypes
<1>7. CASE DownloadAsks
  <2>1. /\ download \in {"none", "next"} /\ download' = "wait" /\ file' = "empty"
        /\ cardFailed' = cardFailed
        /\ attempt' = attempt + 1 /\ Submit({Try(attempt + 1)})
    BY <1>7 DEF DownloadAsks, Download
  <2>2. attempt + 1 \in 1 .. MAX_ATTEMPTS
    BY <1>2, <2>1 DEF Counted, FetchTypes
  <2> DEFINE new == Try(attempt + 1)
  <2>3. new \in Requests /\ InHand \subseteq Requests /\ new \notin InHand
    BY <1>2, <2>2, PagesInHand, Names DEF InHand
  <2>4. new \notin Sent
    BY <1>2, <2>2, Names DEF Sent
  <2>5. Sent' = Sent \cup {new}
    <3>1. 1 .. attempt' = (1 .. attempt) \cup {attempt + 1}
      BY <1>2, <2>1
    <3>2. QED
      BY <1>1, <3>1 DEF Sent
  <2>6. Places(new) = 0
    BY <1>2, <2>3, <2>4 DEF AnsweredOnce
  <2> HIDE DEF new
  <2>7. /\ inFlight' \subseteq Requests /\ answers' \in [Requests -> Seq(AnswerOf)]
        /\ \A r \in Requests : Places(r)' = IF r = new THEN 1 ELSE Places(r)
        /\ \A r \in Requests \ {new} :
               answers'[r] = answers[r] /\ (r \in inFlight' <=> r \in inFlight)
        /\ answers'[new] # <<>> => answers'[new][1] = "unsent"
    <3>1. Submit({new})
      BY <2>1 DEF new
    <3>2. QED
      BY <1>1, <1>2, <2>3, <2>6, <3>1, Submitted
  <2>8. AnsweredOnce'
    BY <1>1, <1>2, <2>5, <2>7 DEF AnsweredOnce
  <2>9. FetchTypes'
    BY <1>1, <1>2, <2>1, <2>2, <2>7 DEF FetchTypes
  <2>10. Counted' /\ FileIsWhole'
    BY <1>2, <2>1 DEF Counted, FileIsWhole
  <2>11. KeepsSlots
    BY <1>1, <2>3, <2>7 DEF KeepsSlots, KeepsAnswer, Answered, Answer
  <2>12. OpenFile'
    <3>1. \A n \in 1 .. MAX_ATTEMPTS : Try(n) \notin inFlight \cup done
      BY <1>2, <2>1 DEF OpenFile
    <3>2. verdict[new] = "none"
      BY <1>2, <2>2 DEF OpenFile, new
    <3>3. ASSUME NEW n \in 1 .. MAX_ATTEMPTS
          PROVE  /\ Try(n) \in inFlight' \cup done' => attempt' = n
                 /\ n > attempt' => verdict'[Try(n)] = "none"
                 /\ Answered(Try(n))' /\ Answer(Try(n))' = "page" => verdict'[Try(n)] = "page"
      <4>1. Try(n) \in Requests /\ (Try(n) = new <=> n = attempt')
        BY <2>1, Names DEF new
      <4>2. n > attempt' => n > attempt
        BY <1>2, <2>1
      <4>3. CASE Try(n) = new
        <5>1. /\ ~ (n > attempt') \/ verdict'[Try(n)] = "none"
              /\ Try(n) \in inFlight' \cup done' => attempt' = n
          BY <1>1, <3>2, <4>1, <4>3
        <5>2. answers'[Try(n)] # <<>> => answers'[Try(n)][1] # "page"
          BY <2>7, <4>3
        <5>3. QED
          BY <5>1, <5>2 DEF Answered, Answer
      <4>4. CASE Try(n) # new
        <5>1. Try(n) \notin inFlight' \cup done' /\ answers'[Try(n)] = answers[Try(n)]
          BY <1>1, <2>7, <3>1, <4>1, <4>4
        <5>2. QED
          BY <1>1, <1>2, <4>2, <5>1 DEF OpenFile, Answered, Answer
      <4>5. QED
        BY <4>3, <4>4
    <3>4. verdict'[Try(attempt')] = "none"
      BY <1>1, <2>1, <3>2 DEF new
    <3>5. QED
      BY <2>1, <3>3, <3>4 DEF OpenFile
  <2>13. QED
    BY <1>1, <1>3, <2>8, <2>9, <2>10, <2>11, <2>12, StepBeside DEF BesideStep
<1>8. QED
  BY <1>5, <1>6, <1>7 DEF DownloadSteps

(***************************************************************************)
(* Fetch::exit: the records go, and nothing is answered twice for it.      *)
(***************************************************************************)
LEMMA ExitStep ==
    ASSUME IInv, Exiting
    PROVE  IInv'
<1>1. /\ UNCHANGED <<verdict, answers, fetcher, done, cancelling, attempt, download, file>>
      /\ UNCHANGED <<cardFailed, company, total, changes, built, asked, body>>
      /\ UNCHANGED <<searchQuery, current, next, prev, pageNumber, isGood>>
      /\ UNCHANGED <<arriving, number, beyond>>
      /\ inFlight' \subseteq inFlight
      /\ \/ /\ pc \in {"idle", "closed"} /\ pc' = "clear"
            /\ threadRunning' = FALSE /\ initialized' = FALSE /\ inFlight' = inFlight
         \/ /\ pc = "clear" /\ pc' = "down" /\ inFlight' = {}
            /\ UNCHANGED <<threadRunning, initialized>>
  BY DEF Exiting, ExitBegins, ExitEnds, Main, StopFetching, ClearInFlight, transferVars,
         fetcherVars, fileVars, serverVars, slotVars, pageVars, waitVars
<1>2. /\ FetchTypes /\ AnsweredOnce /\ Threads /\ Counted /\ OpenFile /\ FileIsWhole /\ AskedFor
      /\ PageTypes
  BY DEF IInv, Base, Front
<1>3. FetchTypes'
  <2>1. inFlight' \subseteq Requests /\ initialized' \in BOOLEAN /\ threadRunning' \in BOOLEAN
    BY <1>1, <1>2 DEF FetchTypes
  <2>2. QED
    BY <1>1, <1>2, <2>1 DEF FetchTypes
<1>4. Sent' = Sent
  BY <1>1 DEF Sent
<1>5. AnsweredOnce'
  <2>1. CASE pc' = "clear"
    <3>1. \A r \in Requests : Places(r)' = Places(r)
      BY <1>1, <2>1 DEF Places
    <3>2. QED
      BY <1>1, <1>2, <1>4, <2>1, <3>1 DEF AnsweredOnce
  <2>2. CASE pc' = "down"
    <3>1. ASSUME NEW r \in Requests
          PROVE  Places(r)' =< Places(r) /\ Places(r) \in Nat /\ Places(r)' \in Nat
      <4> DEFINE a == IF r \in inFlight THEN 1 ELSE 0
                 b == IF r \in done THEN 1 ELSE 0
                 c == IF r = Kept /\ cancelling = "found" THEN 1 ELSE 0
      <4>1. Places(r) = a + b + c + Len(answers[r])
        BY DEF Places
      <4>2. Places(r)' = 0 + b + c + Len(answers[r])
        BY <1>1, <2>2 DEF Places
      <4>3. a \in Nat /\ b \in Nat /\ c \in Nat
        OBVIOUS
      <4>4. Len(answers[r]) \in Nat
        BY <1>2, PlacesParts
      <4> HIDE DEF a, b, c
      <4>5. ASSUME NEW m \in Nat, NEW n \in Nat, NEW k \in Nat, NEW l \in Nat
            PROVE  /\ 0 + n + k + l =< m + n + k + l
                   /\ m + n + k + l \in Nat /\ 0 + n + k + l \in Nat
        OBVIOUS
      <4> DEFINE l == Len(answers[r])
      <4>6. a \in Nat /\ b \in Nat /\ c \in Nat /\ l \in Nat
        BY <4>3, <4>4
      <4>7. /\ Places(r) = a + b + c + l /\ Places(r)' = 0 + b + c + l
        BY <4>1, <4>2
      <4> HIDE DEF l
      <4>8. /\ 0 + b + c + l =< a + b + c + l
            /\ a + b + c + l \in Nat /\ 0 + b + c + l \in Nat
        BY <4>5, <4>6
      <4>9. QED
        BY <4>7, <4>8
    <3>2. \A r \in Requests : IF r \in Sent THEN Places(r) =< 1 ELSE Places(r) = 0
      BY <1>1, <1>2, <2>2 DEF AnsweredOnce
    <3>3. QED
      BY <1>4, <2>2, <3>1, <3>2 DEF AnsweredOnce
  <2>3. QED
    BY <1>1, <2>1, <2>2
<1>6. Threads' /\ Counted' /\ OpenFile' /\ FileIsWhole' /\ AskedFor'
  <2>1. OpenFile'
    BY <1>1, <1>2, FileAside
  <2>2. QED
    BY <1>1, <1>2, <2>1 DEF Threads, Counted, FileIsWhole, AskedFor, InHand
<1>7. PageTypes' /\ Room' /\ Shown' /\ Expected'
  BY <1>1, <1>2 DEF PageTypes, Room, Shown, Expected, Waiting
<1>8. QED
  BY <1>3, <1>5, <1>6, <1>7 DEF IInv, Base, Front

-----------------------------------------------------------------------------
(* The steps of the browser *)

LEMMA PagesOfSlot ==
    ASSUME FetchTypes, NEW slot \in PageRequests
    PROVE  PagesOf(slot) \in Nat \ {0}
<1>1. body[slot] \in Nat
  BY DEF FetchTypes
<1>2. QED
  BY <1>1, PagesPositive DEF PagesOf

LEMMA OneNumber ==
    ASSUME NEW n \in Nat \ {0}
    PROVE  /\ <<n>> \in Seq(Nat \ {0}) /\ Len(<<n>>) = 1 /\ <<n>>[1] = n
           /\ \A m \in Nat \ {0} :
                  /\ <<n, m>> \in Seq(Nat \ {0}) /\ Len(<<n, m>>) = 2
                  /\ <<n, m>>[1] = n /\ <<n, m>>[2] = m
OBVIOUS

(***************************************************************************)
(* refresh, up to its wait.                                                *)
(***************************************************************************)
LEMMA RefreshStep ==
    ASSUME IInv, NEW search \in Searches, NEW n \in Nat \ {0}, Refresh(search, n),
           pc \in {"closed", "idle"}, pc' = "first", UNCHANGED <<current, next, prev, isGood>>
    PROVE  IInv'
<1>1. /\ built + 4 =< MaxRequests /\ Ask(search, <<n>>) /\ arriving' = Page(built + 1)
      /\ number' = n /\ beyond' = FALSE /\ searchQuery' = search /\ pageNumber' = n
  BY DEF Refresh
<1>2. Base /\ PageTypes /\ built \in Nat /\ MaxRequests \in Nat
  BY FetchAssumption DEF IInv, Front, Base, FetchTypes
<1> DEFINE numbers == <<n>>
<1>3. numbers \in Seq(Nat \ {0}) /\ Len(numbers) = 1 /\ numbers[1] = n
  BY OneNumber
<1>4. Ask(search, numbers)
  BY <1>1
<1> HIDE DEF numbers
<1>5. HasAsked(search, numbers)
  <2>1. built + Len(numbers) =< MaxRequests /\ pc # "down"
    BY <1>1, <1>2, <1>3
  <2>2. QED
    BY <1>2, <1>3, <1>4, <2>1, AskedPages
<1>6. /\ Base' /\ arriving' \in InHand' /\ arriving' \in PageRequests
  <2>1. \A i \in 1 .. Len(numbers) :
            Page(built + i) \in InHand' /\ Page(built + i) \in PageRequests
    BY <1>2, <1>3, <1>5, BaseAfterAsking
  <2>2. Base'
    BY <1>2, <1>3, <1>5, BaseAfterAsking
  <2>3. QED
    BY <1>1, <1>3, <2>1, <2>2
<1>7. asked'[arriving'] = <<search, n>> /\ built' = built + 1
  BY <1>1, <1>3, <1>5 DEF HasAsked
<1>8. PageTypes'
  BY <1>1, <1>2, <1>6 DEF PageTypes, Slots
<1>9. Room' /\ Shown' /\ Expected'
  BY <1>1, <1>2, <1>6, <1>7 DEF Room, Shown, Expected, Waiting
<1>10. QED
  BY <1>6, <1>8, <1>9 DEF IInv, Front

LEMMA BrowsingStep ==
    ASSUME IInv, Browsing
    PROVE  IInv'
<1>1. Base /\ FetchTypes /\ PageTypes /\ Room /\ Shown /\ Expected
  BY DEF IInv, Front, Base
<1>2. CASE Open
  <2>1. PICK s \in Searches : Refresh(s, 1)
    BY <1>2 DEF Open
  <2>2. QED
    BY <1>2, <2>1, RefreshStep DEF Open, Main
<1>3. CASE RefreshBegins
  <2>1. /\ isGood /\ pc = "idle" /\ pc' = "first" /\ UNCHANGED <<current, next, prev, isGood>>
    BY <1>3 DEF RefreshBegins, Main
  <2>2. pageNumber \in Nat \ {0} /\ searchQuery \in Searches
    BY <1>1 DEF PageTypes
  <2>3. PagesOf(current) \in Nat \ {0}
    BY <1>1, <2>1, PagesInHand, PagesOfSlot DEF Shown
  <2>4. \E s \in Searches, n \in Nat \ {0} : Refresh(s, n)
    BY <1>3, <2>2, <2>3 DEF RefreshBegins
  <2>5. QED
    BY <2>1, <2>4, RefreshStep
<1>4. ASSUME NEW to \in {"forward", "back"}, NEW slot \in {next, prev}, NEW n \in Nat \ {0},
             TurnTo(to, slot, n),
             to = "forward" => slot = next /\ n = After(pageNumber, PagesOf(current)),
             to = "back" => slot = prev /\ n = Before(pageNumber, PagesOf(current))
      PROVE  IInv'
  <2>1. /\ pc = "idle" /\ pc' = to /\ isGood /\ built + 2 =< MaxRequests
        /\ arriving' = slot /\ number' = n /\ AskNothing
        /\ UNCHANGED <<searchQuery, current, next, prev, pageNumber, isGood, beyond>>
    BY <1>4 DEF TurnTo, Main, pageVars
  <2>2. HasAsked(searchQuery, <<>>) /\ searchQuery \in Searches /\ <<>> \in Seq(Nat \ {0})
    BY <1>1, <2>1, AskedNone DEF PageTypes
  <2>3. Base' /\ InHand \subseteq InHand'
    BY <1>1, <2>1, <2>2, BaseAfterAsking
  <2>4. UNCHANGED <<answers, body, asked, built>>
    BY <2>1 DEF AskNothing, fetchVars, transferVars, slotVars
  <2>5. PageTypes' /\ Room'
    BY <1>1, <2>1, <2>4 DEF PageTypes, Room
  <2>6. HasContents(current)' = HasContents(current) /\ PagesOf(current)' = PagesOf(current)
    BY <2>1, <2>4 DEF HasContents, Answered, Answer, PagesOf
  <2>7. Shown'
    BY <1>1, <2>1, <2>3, <2>4, <2>6 DEF Shown, Fit
  <2>8. arriving' \in InHand' /\ asked'[arriving'][1] = searchQuery'
    BY <1>1, <2>1, <2>3, <2>4 DEF Shown
  <2>9. Expected'
    BY <1>4, <2>1, <2>6, <2>8 DEF Expected
  <2>10. QED
    BY <2>3, <2>5, <2>7, <2>9 DEF IInv, Front
<1>5. isGood /\ pc = "idle" =>
        /\ After(pageNumber, PagesOf(current)) \in Nat \ {0}
        /\ Before(pageNumber, PagesOf(current)) \in Nat \ {0}
  <2> SUFFICES ASSUME isGood, pc = "idle"
               PROVE  /\ After(pageNumber, PagesOf(current)) \in Nat \ {0}
                      /\ Before(pageNumber, PagesOf(current)) \in Nat \ {0}
    OBVIOUS
  <2>1. PagesOf(current) \in Nat \ {0} /\ pageNumber \in Nat \ {0}
    BY <1>1, PagesInHand, PagesOfSlot DEF Shown, PageTypes
  <2>2. QED
    BY <2>1, AroundTheEnd
<1>6. CASE TurnForward
  <2>1. isGood /\ pc = "idle"
    BY <1>6 DEF TurnForward, TurnTo, Main
  <2>2. QED
    BY <1>4, <1>5, <1>6, <2>1 DEF TurnForward
<1>7. CASE TurnBack
  <2>1. isGood /\ pc = "idle"
    BY <1>7 DEF TurnBack, TurnTo, Main
  <2>2. QED
    BY <1>4, <1>5, <1>7, <2>1 DEF TurnBack
<1>8. QED
  BY <1>2, <1>3, <1>6, <1>7 DEF Browsing

(***************************************************************************)
(* A page that is adopted is in hand with its neighbours.                  *)
(***************************************************************************)
Landed ==
    /\ pc \in {"first", "last", "forward", "back"} /\ pc' = "idle"
    /\ HasContents(arriving)
    /\ current' = arriving /\ pageNumber' = number /\ isGood' = TRUE
    /\ searchQuery' = searchQuery /\ arriving' = arriving /\ number' = number
    /\ beyond' = (beyond \/ number > Adopted)

NeighboursInHand ==
    /\ next' \in InHand' /\ prev' \in InHand'
    /\ asked'[next'][1] = searchQuery /\ asked'[prev'][1] = searchQuery
    /\ Adopted = 1 => next' = arriving /\ prev' = arriving
    /\ Adopted > 1 /\ ~ beyond' =>
          /\ asked'[next'][2] = After(number, Adopted)
          /\ asked'[prev'][2] = Before(number, Adopted)

LEMMA LandedStep ==
    ASSUME IInv, Landed, NEW numbers \in Seq(Nat \ {0}), HasAsked(searchQuery, numbers),
           NeighboursInHand,
           Adopted > 1 /\ ~ beyond' => asked[arriving][2] = number
    PROVE  IInv'
<1>1. Base /\ FetchTypes /\ PageTypes /\ Expected /\ Base' /\ InHand \subseteq InHand'
  BY BaseAfterAsking DEF IInv, Front, Base, Landed, PageTypes
<1>2. /\ arriving \in InHand /\ arriving \in PageRequests
      /\ asked[arriving][1] = searchQuery
  BY <1>1, PagesInHand DEF Expected, Waiting, Landed
<1>3. /\ asked'[arriving] = asked[arriving] /\ answers'[arriving] = answers[arriving]
      /\ body' = body
  BY <1>2 DEF HasAsked
<1>4. HasContents(arriving)' /\ PagesOf(current)' = Adopted
  BY <1>3 DEF Landed, HasContents, Answered, Answer, PagesOf, Adopted
<1>5. HasContents(current)'
  BY <1>4 DEF Landed, HasContents, Answered, Answer
<1>6. InHand' \subseteq PageRequests
  <2>1. FetchTypes'
    BY <1>1 DEF Base
  <2>2. built' \in 0 .. MaxRequests /\ MaxRequests \in Nat
    BY <2>1, FetchAssumption DEF FetchTypes
  <2>3. \A k \in 1 .. built' : k \in 1 .. MaxRequests
    BY <2>2
  <2>4. QED
    BY <2>3, Names DEF InHand
<1>7. PageTypes'
  BY <1>1, <1>2, <1>6 DEF PageTypes, Slots, Landed, NeighboursInHand
<1>8. Room' /\ Expected'
  BY DEF Room, Expected, Waiting, Landed
<1>9. number \in Nat /\ Adopted \in Nat
  BY <1>1, <1>2, PagesOfSlot DEF PageTypes, Adopted
<1>10. Shown'
  <2>1. /\ {current', next', prev'} \subseteq InHand'
        /\ \A slot \in {current', next', prev'} : asked'[slot][1] = searchQuery'
    BY <1>1, <1>2, <1>3 DEF Landed, NeighboursInHand
  <2>2. Adopted = 1 => next' = current' /\ prev' = current'
    BY DEF Landed, NeighboursInHand
  <2>3. ~ beyond' => pageNumber' =< Adopted
    <3>1. ~ beyond' => ~ (number > Adopted)
      BY Zenon DEF Landed
    <3>2. QED
      BY <1>9, <3>1 DEF Landed
  <2>4. Adopted > 1 /\ ~ beyond' =>
            /\ asked'[current'][2] = pageNumber'
            /\ asked'[next'][2] = After(pageNumber', Adopted)
            /\ asked'[prev'][2] = Before(pageNumber', Adopted)
    BY <1>3 DEF Landed, NeighboursInHand
  <2>5. QED
    BY <1>4, <1>5, <2>1, <2>2, <2>3, <2>4 DEF Shown, Fit, After, Before
<1>11. QED
  BY <1>1, <1>7, <1>8, <1>10 DEF IInv, Front

LEMMA AskOne ==
    ASSUME Base, pc \notin {"clear", "down"}, pc' \notin {"clear", "down"},
           NEW search \in Searches, NEW n \in Nat \ {0},
           built + 1 =< MaxRequests, Ask(search, <<n>>)
    PROVE  /\ HasAsked(search, <<n>>) /\ Base' /\ InHand \subseteq InHand'
           /\ Page(built + 1) \in InHand' /\ Page(built + 1) \in PageRequests
           /\ asked'[Page(built + 1)] = <<search, n>>
           /\ built' = built + 1
<1> DEFINE numbers == <<n>>
<1>1. numbers \in Seq(Nat \ {0}) /\ Len(numbers) = 1 /\ numbers[1] = n
  BY OneNumber
<1>2. Ask(search, numbers)
  OBVIOUS
<1> HIDE DEF numbers
<1>3. HasAsked(search, numbers)
  <2>1. built + Len(numbers) =< MaxRequests /\ pc # "down"
    BY <1>1
  <2>2. QED
    BY <1>1, <1>2, <2>1, AskedPages
<1>4. /\ Base' /\ InHand \subseteq InHand'
      /\ \A i \in 1 .. Len(numbers) :
             Page(built + i) \in InHand' /\ Page(built + i) \in PageRequests
  BY <1>1, <1>3, BaseAfterAsking
<1>5. /\ \A i \in 1 .. Len(numbers) : asked'[Page(built + i)] = <<search, numbers[i]>>
      /\ built' = built + Len(numbers)
  BY <1>3 DEF HasAsked
<1>6. 1 \in 1 .. Len(numbers)
  BY <1>1
<1>7. QED
  BY <1>1, <1>3, <1>4, <1>5, <1>6 DEF numbers

LEMMA AskTwo ==
    ASSUME Base, pc \notin {"clear", "down"}, pc' \notin {"clear", "down"},
           NEW search \in Searches, NEW n \in Nat \ {0}, NEW m \in Nat \ {0},
           built + 2 =< MaxRequests, Ask(search, <<n, m>>)
    PROVE  /\ HasAsked(search, <<n, m>>)
           /\ Page(built + 1) \in InHand' /\ Page(built + 2) \in InHand'
           /\ asked'[Page(built + 1)] = <<search, n>>
           /\ asked'[Page(built + 2)] = <<search, m>>
<1> DEFINE numbers == <<n, m>>
<1>1. numbers \in Seq(Nat \ {0}) /\ Len(numbers) = 2 /\ numbers[1] = n /\ numbers[2] = m
  BY OneNumber
<1>2. Ask(search, numbers)
  OBVIOUS
<1> HIDE DEF numbers
<1>3. HasAsked(search, numbers)
  <2>1. built + Len(numbers) =< MaxRequests /\ pc # "down"
    BY <1>1
  <2>2. QED
    BY <1>1, <1>2, <2>1, AskedPages
<1>4. \A i \in 1 .. Len(numbers) :
          Page(built + i) \in InHand' /\ Page(built + i) \in PageRequests
  BY <1>1, <1>3, BaseAfterAsking
<1>5. \A i \in 1 .. Len(numbers) : asked'[Page(built + i)] = <<search, numbers[i]>>
  BY <1>3 DEF HasAsked
<1>6. 1 \in 1 .. Len(numbers) /\ 2 \in 1 .. Len(numbers)
  BY <1>1
<1>7. QED
  BY <1>1, <1>3, <1>4, <1>5, <1>6 DEF numbers

(***************************************************************************)
(* Asking for both neighbours, or for the one there is, or for none.       *)
(***************************************************************************)
LEMMA NeighboursStep ==
    ASSUME IInv, Landed, NEW other \in {After(number, Adopted), Before(number, Adopted)},
           BothNeighbours(other),
           Adopted > 1 /\ ~ beyond' => asked[arriving][2] = number
    PROVE  IInv'
<1>1. /\ Base /\ FetchTypes /\ PageTypes /\ Expected /\ Room
      /\ pc \notin {"clear", "down"} /\ pc' \notin {"clear", "down"} /\ pc # "down"
      /\ pc \in {"first", "last", "forward", "back"}
  BY DEF IInv, Front, Base, Landed
<1>2. /\ searchQuery \in Searches /\ number \in Nat \ {0} /\ built \in Nat
      /\ built + 2 =< MaxRequests /\ built + 1 =< MaxRequests
  <2>1. built \in Nat /\ MaxRequests \in Nat
    BY <1>1, FetchAssumption DEF FetchTypes
  <2>2. built + 3 =< MaxRequests \/ built + 2 =< MaxRequests
    BY <1>1 DEF Room
  <2>3. QED
    BY <1>1, <2>1, <2>2 DEF PageTypes
<1>3. arriving \in InHand /\ arriving \in PageRequests /\ asked[arriving][1] = searchQuery
  BY <1>1, PagesInHand DEF Expected, Waiting
<1>4. Adopted \in Nat \ {0}
  BY <1>1, <1>3, PagesOfSlot DEF Adopted
<1>5. /\ After(number, Adopted) \in Nat \ {0} /\ Before(number, Adopted) \in Nat \ {0}
      /\ Adopted = 2 /\ number =< 2 => After(number, Adopted) = Before(number, Adopted)
  BY <1>2, <1>4, AroundTheEnd
<1>6. ~ beyond' => ~ (number > Adopted)
  BY Zenon DEF Landed
<1>7. CASE Adopted = 1
  <2>1. AskNothing /\ next' = arriving /\ prev' = arriving
    BY <1>7 DEF BothNeighbours
  <2>2. HasAsked(searchQuery, <<>>) /\ <<>> \in Seq(Nat \ {0})
    BY <1>1, <2>1, AskedNone
  <2>3. InHand \subseteq InHand' /\ asked'[arriving] = asked[arriving]
    BY <1>1, <1>2, <1>3, <2>2, BaseAfterAsking DEF HasAsked
  <2>4. NeighboursInHand
    BY <1>3, <1>7, <2>1, <2>3 DEF NeighboursInHand
  <2>5. QED
    BY <2>2, <2>4, LandedStep
<1>8. CASE Adopted = 2
  <2>1. /\ next' = Page(built + 1) /\ prev' = next'
        /\ Ask(searchQuery, <<other>>)
    BY <1>8 DEF BothNeighbours
  <2> DEFINE n == other
  <2>2. n \in Nat \ {0} /\ Ask(searchQuery, <<n>>)
    BY <1>5, <2>1
  <2>3. /\ HasAsked(searchQuery, <<n>>) /\ Page(built + 1) \in InHand'
        /\ asked'[Page(built + 1)] = <<searchQuery, n>>
    <3> HIDE DEF n
    <3>1. QED
      BY <1>1, <1>2, <2>2, AskOne
  <2>4. ~ beyond' => n = After(number, Adopted) /\ n = Before(number, Adopted)
    BY <1>2, <1>5, <1>6, <1>8
  <2>5. NeighboursInHand
    BY <1>8, <2>1, <2>3, <2>4 DEF NeighboursInHand
  <2>6. <<n>> \in Seq(Nat \ {0})
    BY <2>2, OneNumber
  <2>7. QED
    BY <2>3, <2>5, <2>6, LandedStep
<1>9. CASE Adopted > 2
  <2> DEFINE n == After(number, Adopted)
             m == Before(number, Adopted)
  <2>1. /\ next' = Page(built + 1) /\ prev' = Page(built + 2)
        /\ Ask(searchQuery, <<n, m>>) /\ n \in Nat \ {0} /\ m \in Nat \ {0}
    BY <1>4, <1>5, <1>9 DEF BothNeighbours
  <2>2. /\ HasAsked(searchQuery, <<n, m>>)
        /\ Page(built + 1) \in InHand' /\ Page(built + 2) \in InHand'
        /\ asked'[Page(built + 1)] = <<searchQuery, n>>
        /\ asked'[Page(built + 2)] = <<searchQuery, m>>
    <3> HIDE DEF n, m
    <3>1. QED
      BY <1>1, <1>2, <2>1, AskTwo
  <2>3. NeighboursInHand
    BY <1>4, <1>9, <2>1, <2>2 DEF NeighboursInHand
  <2>4. <<n, m>> \in Seq(Nat \ {0})
    BY <2>1, OneNumber
  <2>5. QED
    BY <2>2, <2>3, <2>4, LandedStep
<1>10. QED
  BY <1>4, <1>7, <1>8, <1>9

(***************************************************************************)
(* A turn: the page that arrives is the one it was asked to be, and the    *)
(* page departed from is beside it when the total is the same.             *)
(***************************************************************************)
LEMMA TurnFacts ==
    ASSUME IInv, pc \in {"forward", "back"}, HasContents(arriving)
    PROVE  /\ {current, next, prev} \subseteq InHand
           /\ Adopted > 1 /\ ~ beyond => asked[arriving][2] = number
           /\ asked[current][1] = searchQuery
           /\ Adopted > 2 /\ SameTotal /\ ~ beyond =>
                /\ asked[current][2] = pageNumber
                /\ pc = "forward" => pageNumber = Before(number, Adopted)
                /\ pc = "back" => pageNumber = After(number, Adopted)
<1>1. /\ FetchTypes /\ PageTypes /\ isGood /\ HasContents(current)
      /\ {current, next, prev} \subseteq InHand
      /\ \A slot \in {current, next, prev} : asked[slot][1] = searchQuery
      /\ PagesOf(current) = 1 => next = current /\ prev = current
      /\ ~ beyond => pageNumber <= PagesOf(current)
      /\ PagesOf(current) > 1 /\ ~ beyond => Fit
      /\ pc = "forward" => arriving = next /\ number = After(pageNumber, PagesOf(current))
      /\ pc = "back" => arriving = prev /\ number = Before(pageNumber, PagesOf(current))
  BY DEF IInv, Base, Front, Shown, Expected
<1>2. current \in PageRequests /\ PagesOf(current) \in Nat \ {0} /\ pageNumber \in Nat \ {0}
  BY <1>1, PagesInHand, PagesOfSlot DEF PageTypes
<1>3. Adopted > 1 => PagesOf(current) > 1
  BY <1>1, <1>2 DEF Adopted
<1>4. Adopted > 1 /\ ~ beyond => asked[arriving][2] = number
  BY <1>1, <1>3 DEF Fit
<1>5. SameTotal => PagesOf(current) = Adopted
  BY <1>1 DEF SameTotal, PagesOf, Adopted
<1>6. pageNumber =< PagesOf(current) =>
        /\ Before(After(pageNumber, PagesOf(current)), PagesOf(current)) = pageNumber
        /\ After(Before(pageNumber, PagesOf(current)), PagesOf(current)) = pageNumber
  BY <1>2, AroundTheEnd
<1>7. ASSUME Adopted > 2, SameTotal, ~ beyond
      PROVE  /\ asked[current][2] = pageNumber
             /\ pc = "forward" => pageNumber = Before(number, Adopted)
             /\ pc = "back" => pageNumber = After(number, Adopted)
  <2>1. PagesOf(current) > 1 /\ PagesOf(current) = Adopted
    BY <1>2, <1>5, <1>7
  <2>2. asked[current][2] = pageNumber
    BY <1>1, <1>7, <2>1 DEF Fit
  <2>3. QED
    BY <1>1, <1>6, <1>7, <2>1, <2>2
<1>8. QED
  BY <1>1, <1>4, <1>7

LEMMA AdoptingStep ==
    ASSUME IInv, Adopting
    PROVE  IInv'
<1>1. /\ Base /\ FetchTypes /\ PageTypes /\ Expected /\ Room /\ Shown
      /\ searchQuery \in Searches /\ number \in Nat \ {0} /\ built \in Nat /\ MaxRequests \in Nat
  BY FetchAssumption DEF IInv, Front, Base, FetchTypes, PageTypes
<1>2. ASSUME pc \in {"first", "last", "forward", "back"}
      PROVE  /\ arriving \in InHand /\ arriving \in PageRequests
             /\ asked[arriving][1] = searchQuery /\ Adopted \in Nat \ {0}
  <2>1. arriving \in InHand /\ arriving \in PageRequests /\ asked[arriving][1] = searchQuery
    BY <1>1, <1>2, PagesInHand DEF Expected, Waiting
  <2>2. QED
    BY <1>1, <2>1, PagesOfSlot DEF Adopted
<1>3. CASE AdoptFails
  <2>1. /\ pc \in {"first", "last", "forward", "back"} /\ pc' = "idle" /\ AskNothing
        /\ current' = arriving /\ isGood' = FALSE
        /\ UNCHANGED <<searchQuery, next, prev, pageNumber, arriving, number, beyond>>
    BY <1>3 DEF AdoptFails, waitVars
  <2>2. HasAsked(searchQuery, <<>>) /\ <<>> \in Seq(Nat \ {0})
    BY <1>1, <2>1, AskedNone
  <2>3. Base'
    BY <1>1, <2>1, <2>2, BaseAfterAsking
  <2>4. PageTypes'
    BY <1>1, <1>2, <2>1 DEF PageTypes, Slots
  <2>5. Room' /\ Shown' /\ Expected'
    BY <2>1 DEF Room, Shown, Expected, Waiting
  <2>6. QED
    BY <2>3, <2>4, <2>5 DEF IInv, Front
<1>4. CASE RefreshEnds
  <2>1. pc \in {"first", "last"} /\ BothNeighbours(After(number, Adopted)) /\ Landed
    BY <1>4 DEF RefreshEnds, Adopt, Main, StayPut, Landed
  <2>2. asked[arriving][2] = number
    BY <1>1, <2>1 DEF Expected
  <2>3. QED
    BY <2>1, <2>2, NeighboursStep
<1>5. CASE RefreshLast
  <2>1. /\ pc = "first" /\ pc' = "last" /\ Ask(searchQuery, <<Adopted>>)
        /\ current' = arriving /\ pageNumber' = number /\ isGood' = TRUE
        /\ arriving' = Page(built + 1) /\ number' = Adopted
        /\ UNCHANGED <<searchQuery, next, prev, beyond>>
    BY <1>5 DEF RefreshLast, Adopt, Main
  <2>2. arriving \in PageRequests /\ Adopted \in Nat \ {0}
    BY <1>2, <2>1
  <2>3. built + 3 =< MaxRequests /\ built + 1 =< MaxRequests
    BY <1>1, <2>1 DEF Room
  <2> DEFINE n == Adopted
  <2>4. n \in Nat \ {0} /\ Ask(searchQuery, <<n>>)
    BY <2>1, <2>2
  <2>5. /\ Base' /\ Page(built + 1) \in InHand' /\ Page(built + 1) \in PageRequests
        /\ asked'[Page(built + 1)] = <<searchQuery, n>> /\ built' = built + 1
    <3> HIDE DEF n
    <3>1. pc \notin {"clear", "down"} /\ pc' \notin {"clear", "down"}
      BY <2>1
    <3>2. QED
      BY <1>1, <2>3, <2>4, <3>1, AskOne
  <2>6. PageTypes'
    BY <1>1, <2>1, <2>2, <2>5 DEF PageTypes, Slots
  <2>7. Room'
    BY <1>1, <2>1, <2>3, <2>5 DEF Room
  <2>8. Shown' /\ Expected'
    BY <2>1, <2>5 DEF Shown, Expected, Waiting
  <2>9. QED
    BY <2>5, <2>6, <2>7, <2>8 DEF IInv, Front
<1>6. ASSUME NEW ahead \in {next', prev'}, NEW departed \in {next', prev'}, NEW n \in Nat \ {0},
             pc \in {"forward", "back"}, Landed, Adopted > 2, SameTotal,
             departed = current, ahead = Page(built + 1), Ask(searchQuery, <<n>>),
             \/ /\ pc = "forward" /\ departed = prev' /\ ahead = next'
                /\ n = After(number, Adopted)
             \/ /\ pc = "back" /\ departed = next' /\ ahead = prev'
                /\ n = Before(number, Adopted)
      PROVE  IInv'
  <2>1. HasContents(arriving) /\ pc' = "idle"
    BY <1>6 DEF Landed
  <2>2. /\ current \in InHand /\ asked[current][1] = searchQuery
        /\ Adopted > 1 /\ ~ beyond => asked[arriving][2] = number
        /\ ~ beyond => /\ asked[current][2] = pageNumber
                       /\ pc = "forward" => pageNumber = Before(number, Adopted)
                       /\ pc = "back" => pageNumber = After(number, Adopted)
    BY <1>6, <2>1, TurnFacts
  <2>3. built + 1 =< MaxRequests /\ pc \notin {"clear", "down"} /\ pc' \notin {"clear", "down"}
    BY <1>1, <1>6, <2>1 DEF Room
  <2>4. /\ HasAsked(searchQuery, <<n>>) /\ InHand \subseteq InHand'
        /\ Page(built + 1) \in InHand' /\ asked'[Page(built + 1)] = <<searchQuery, n>>
    BY <1>1, <1>6, <2>3, AskOne
  <2>5. asked'[current] = asked[current]
    BY <2>2, <2>4 DEF HasAsked
  <2>6. ~ beyond' => ~ beyond
    BY <1>6, Zenon DEF Landed
  <2>7. NeighboursInHand
    BY <1>6, <2>2, <2>4, <2>5, <2>6 DEF NeighboursInHand
  <2>8. <<n>> \in Seq(Nat \ {0})
    BY OneNumber
  <2>9. Adopted > 1 /\ ~ beyond' => asked[arriving][2] = number
    BY <2>2, <2>6
  <2>10. QED
    BY <1>6, <2>4, <2>7, <2>8, <2>9, LandedStep
<1>7. ASSUME pc \in {"forward", "back"}, Landed,
             NEW other \in {After(number, Adopted), Before(number, Adopted)}, BothNeighbours(other)
      PROVE  IInv'
  <2>1. HasContents(arriving)
    BY <1>7 DEF Landed
  <2>2. Adopted > 1 /\ ~ beyond => asked[arriving][2] = number
    BY <1>7, <2>1, TurnFacts
  <2>3. ~ beyond' => ~ beyond
    BY <1>7, Zenon DEF Landed
  <2>4. QED
    BY <1>7, <2>2, <2>3, NeighboursStep
<1>8. CASE TurnEndsForward
  <2>1. pc = "forward" /\ Landed
    BY <1>8 DEF TurnEndsForward, Adopt, Main, StayPut, Landed
  <2>2. CASE Adopted > 2 /\ SameTotal
    <3>1. /\ prev' = current /\ next' = Page(built + 1)
          /\ Ask(searchQuery, <<After(number, Adopted)>>)
      BY <1>8, <2>2 DEF TurnEndsForward
    <3>2. After(number, Adopted) \in Nat \ {0}
      BY <1>1, <1>2, <2>1, AroundTheEnd
    <3>3. QED
      BY <1>6, <2>1, <2>2, <3>1, <3>2
  <2>3. CASE ~ (Adopted > 2 /\ SameTotal)
    BY <1>7, <1>8, <2>1, <2>3 DEF TurnEndsForward
  <2>4. QED
    BY <2>2, <2>3
<1>9. CASE TurnEndsBack
  <2>1. pc = "back" /\ Landed
    BY <1>9 DEF TurnEndsBack, Adopt, Main, StayPut, Landed
  <2>2. CASE Adopted > 2 /\ SameTotal
    <3>1. /\ next' = current /\ prev' = Page(built + 1)
          /\ Ask(searchQuery, <<Before(number, Adopted)>>)
      BY <1>9, <2>2 DEF TurnEndsBack
    <3>2. Before(number, Adopted) \in Nat \ {0}
      BY <1>1, <1>2, <2>1, AroundTheEnd
    <3>3. QED
      BY <1>6, <2>1, <2>2, <3>1, <3>2
  <2>3. CASE ~ (Adopted > 2 /\ SameTotal)
    BY <1>7, <1>9, <2>1, <2>3 DEF TurnEndsBack
  <2>4. QED
    BY <2>2, <2>3
<1>10. QED
  BY <1>3, <1>4, <1>5, <1>8, <1>9 DEF Adopting

-----------------------------------------------------------------------------
(* The theorems *)

LEMMA Start == Init => IInv
<1> SUFFICES ASSUME Init
             PROVE  IInv
  OBVIOUS
<1>1. FetchInit /\ built = 0 /\ pc = "closed" /\ isGood = FALSE /\ beyond = FALSE
  BY DEF Init
<1>2. FetchTypes
  <2>1. \A r \in Requests : answers[r] = <<>> /\ <<>> \in Seq(AnswerOf)
    BY <1>1 DEF FetchInit
  <2>2. answers \in [Requests -> Seq(AnswerOf)]
    BY <1>1, <2>1 DEF FetchInit
  <2>3. initialized \in BOOLEAN /\ threadRunning \in BOOLEAN /\ cardFailed \in BOOLEAN
    BY <1>1, Zenon DEF FetchInit
  <2>4. attempt \in 0 .. MAX_ATTEMPTS /\ built \in 0 .. MaxRequests /\ changes \in 0 .. MaxChanges
    BY <1>1, FetchAssumption, BrowserAssumption DEF Init, FetchInit
  <2>5. /\ verdict \in [Requests -> Verdicts \cup {"none"}]
        /\ asked \in [PageRequests -> (Searches \X (Nat \ {0})) \cup {<<>>}]
        /\ body \in [PageRequests -> Nat]
    BY <1>1 DEF Init, FetchInit
  <2>6. QED
    BY <1>1, <2>2, <2>3, <2>4, <2>5 DEF Init, FetchInit, FetchTypes
<1>3. PageTypes
  <2>1. {current, next, prev, arriving} \subseteq Slots
    BY DEF Init, Slots
  <2>2. pageNumber \in Nat \ {0} /\ number \in Nat \ {0}
    BY DEF Init
  <2>3. searchQuery \in Searches /\ isGood \in BOOLEAN /\ beyond \in BOOLEAN
    BY <1>1 DEF Init
  <2>4. pc \in {"closed", "idle", "first", "last", "forward", "back", "clear", "down"}
    BY <1>1
  <2>5. QED
    BY <2>1, <2>2, <2>3, <2>4 DEF PageTypes
<1>4. AnsweredOnce
  <2>1. attempt = 0 /\ cancelling = "none" /\ inFlight = {} /\ done = {}
    BY <1>1 DEF FetchInit
  <2>2. Sent = {}
    BY <1>1, <2>1 DEF Sent
  <2>3. \A r \in Requests : Len(answers[r]) = 0
    BY <1>1, EmptySeq DEF FetchInit
  <2>4. \A r \in Requests : Places(r) = 0
    BY <2>1, <2>3 DEF Places
  <2>5. QED
    BY <2>2, <2>4 DEF AnsweredOnce
<1>5. Threads /\ Counted /\ OpenFile /\ FileIsWhole
  <2>1. \A n \in 1 .. MAX_ATTEMPTS : verdict[Try(n)] = "none" /\ ~ Answered(Try(n))
    BY <1>1, Names DEF FetchInit, Answered
  <2>2. OpenFile
    BY <1>1, <2>1 DEF FetchInit, OpenFile
  <2>3. QED
    BY <1>1, <2>2 DEF FetchInit, Threads, Counted, FileIsWhole
<1>6. AskedFor
  BY <1>1 DEF AskedFor, InHand
<1>7. Room /\ Shown /\ Expected
  BY <1>1 DEF Room, Shown, Expected, Waiting
<1>8. QED
  BY <1>2, <1>3, <1>4, <1>5, <1>6, <1>7 DEF IInv, Base, Front

LEMMA Stutter ==
    ASSUME IInv, UNCHANGED vars
    PROVE  IInv'
<1>1. /\ UNCHANGED <<inFlight, verdict, answers, company, initialized, threadRunning>>
      /\ UNCHANGED <<fetcher, done, cancelling, attempt, download, file, cardFailed>>
      /\ UNCHANGED <<total, changes, built, asked, body, pc, pageVars, mainVars>>
  BY DEF vars, fetchVars, transferVars, fetcherVars, fileVars, serverVars, slotVars, mainVars
<1>2. FetchTypes'
  BY <1>1 DEF IInv, Base, FetchTypes
<1>3. AnsweredOnce'
  BY <1>1 DEF IInv, Base, AnsweredOnce, Places, Sent
<1>4. Threads' /\ Counted' /\ OpenFile' /\ FileIsWhole'
  <2>1. OpenFile'
    BY <1>1, FileAside DEF IInv, Base
  <2>2. QED
    BY <1>1, <2>1 DEF IInv, Base, Threads, Counted, FileIsWhole
<1>5. KeepsSlots
  BY <1>1 DEF KeepsSlots, KeepsAnswer, Answered, Answer
<1>6. QED
  BY <1>1, <1>2, <1>3, <1>4, <1>5, StepBeside DEF BesideStep

LEMMA Step == IInv /\ [Next]_vars => IInv'
BY TotalStep, ArrivalStep, FetcherStep, CancelStep, DownloadStep, BrowsingStep, AdoptingStep,
   ExitStep, Stutter DEF Next

LEMMA Always == Spec => []IInv
BY Start, Step, PTL DEF Spec

(***************************************************************************)
(* Every variable has its type.                                            *)
(***************************************************************************)
THEOREM TypeCorrect == Spec => []TypeOK
<1>1. IInv => TypeOK
  BY TypesTogether DEF IInv, Base, Front
<1>2. QED
  BY <1>1, Always, PTL

(***************************************************************************)
(* Every request is answered once: one that has gone out is on the list,   *)
(* drained, with the canceller or answered, and in one of these places     *)
(* only, whatever curl, cancel, a retry and exit do at the same time.      *)
(***************************************************************************)
THEOREM EachAnsweredOnce == Spec => []AnsweredOnce
<1>1. IInv => AnsweredOnce
  BY DEF IInv, Base
<1>2. QED
  BY <1>1, Always, PTL

(***************************************************************************)
(* The fetch thread writes only through the FILE that is open: a try that  *)
(* is in flight is the one the download waits for, however often it tries  *)
(* and whoever else sends, cancels and exits meanwhile.                    *)
(***************************************************************************)
THEOREM OpenWhileWritten == Spec => []WritesIntoOpenFile
<1>1. IInv => WritesIntoOpenFile
  BY DEF IInv, Base, OpenFile, WritesIntoOpenFile
<1>2. QED
  BY <1>1, Always, PTL

(***************************************************************************)
(* As long as no last flush and no removal has failed, a download that is  *)
(* reported as successful has left the bytes of one try from the first to  *)
(* the last, and one that has failed has left nothing, unless it ended     *)
(* where a retry could not begin.                                          *)
(***************************************************************************)
THEOREM WholeFile == Spec => []FileIsWhole
<1>1. IInv => FileIsWhole
  BY DEF IInv, Base
<1>2. QED
  BY <1>1, Always, PTL

(***************************************************************************)
(* The page on screen and the two beside it are of the search shown, and   *)
(* the ones the page number says, however the search grows and shrinks     *)
(* meanwhile, unless a page past the last one has been shown since the     *)
(* last refresh.                                                           *)
(***************************************************************************)
THEOREM FittingPages == Spec => []PagesFit
<1>1. IInv => PagesFit
  BY DEF IInv, Front, Shown, Fit, PagesFit
<1>2. QED
  BY <1>1, Always, PTL

(***************************************************************************)
(* The fetch thread runs until exit tells it to end.                       *)
(***************************************************************************)
FetcherRuns ==
    /\ initialized => threadRunning
    /\ fetcher = "ended" => ~ threadRunning

LEMMA FetcherRunsInv == FetcherRuns /\ [Next]_vars => FetcherRuns'
<1> SUFFICES ASSUME FetcherRuns, [Next]_vars PROVE FetcherRuns'
  OBVIOUS
<1> USE DEF FetcherRuns
<1>1. CASE UNCHANGED <<initialized, threadRunning, fetcher>>
  BY <1>1
<1>2. CASE FetcherSteps /\ Beside
  BY <1>2 DEF FetcherSteps, FetcherTests, FetcherDrains, FetcherAnswers, TurnEnds, Fetcher
<1>3. CASE Exiting
  BY <1>3 DEF Exiting, ExitBegins, ExitEnds, StopFetching, ClearInFlight, fetcherVars
<1>4. CASE TotalChanges \/ \E r \in Requests : PageArrives(r)
  BY <1>4, <1>1 DEF TotalChanges, PageArrives, TransferEnds, fetchVars, fetcherVars
<1>5. CASE (CancelSteps \/ DownloadSteps) /\ Beside
  BY <1>5, <1>1 DEF CancelSteps, SendAndKeep, Cancel, CancelAnswers, Cancelling, DownloadSteps,
                    DownloadRefused, DownloadAsks, DownloadReturns, Download, fetcherVars
<1>6. ASSUME NEW search, NEW numbers, Ask(search, numbers)
      PROVE  UNCHANGED <<initialized, threadRunning, fetcher>>
  BY <1>6 DEF Ask, fetcherVars
<1>7. AskNothing => UNCHANGED <<initialized, threadRunning, fetcher>>
  BY DEF AskNothing, fetchVars, fetcherVars
<1>8. CASE Browsing
  BY <1>1, <1>6, <1>7, <1>8 DEF Browsing, Open, RefreshBegins, Refresh, TurnForward, TurnBack, TurnTo
<1>9. CASE Adopting
  BY <1>1, <1>6, <1>7, <1>9 DEF Adopting, AdoptFails, RefreshEnds, RefreshLast, TurnEndsForward,
                                TurnEndsBack, BothNeighbours
<1>10. CASE UNCHANGED vars
  BY <1>1, <1>10 DEF vars, fetchVars, fetcherVars
<1>11. QED
  BY <1>2, <1>3, <1>4, <1>5, <1>8, <1>9, <1>10 DEF Next

(***************************************************************************)
(* What somebody waits for has been sent and is in one place: not yet with *)
(* its caller, so with curl or with the fetch thread.                      *)
(***************************************************************************)
LEMMA OnItsWay ==
    ASSUME IInv, FetcherRuns
    PROVE  AnswerIsComing
<1> SUFFICES ASSUME NEW r \in Requests, Awaited(r), initialized, ~ Answered(r)
             PROVE  /\ fetcher # "ended"
                    /\ r \in inFlight \/ (r \in done /\ fetcher = "run")
  BY DEF AnswerIsComing
<1>1. FetchTypes /\ AnsweredOnce /\ Threads /\ Counted /\ Expected
  BY DEF IInv, Base, Front
<1>2. fetcher # "ended"
  BY DEF FetcherRuns
<1>3. r \in Sent /\ r # Kept
  <2>1. CASE Waiting /\ r = arriving
    <3>1. r \in InHand
      BY <1>1, <2>1 DEF Expected
    <3>2. QED
      BY <1>1, <3>1, PagesInHand, Names
  <2>2. CASE download = "wait" /\ r = Try(attempt)
    <3>1. attempt \in 1 .. attempt
      BY <1>1, <2>2 DEF Counted, FetchTypes
    <3>2. QED
      BY <2>2, <3>1, Names DEF Sent
  <2>3. QED
    BY <2>1, <2>2 DEF Awaited
<1>4. Places(r) = 1
  BY <1>1, <1>3 DEF AnsweredOnce, Threads
<1>5. Len(answers[r]) = 0
  BY <1>1, PlacesParts
<1>6. r \in inFlight \/ r \in done
  BY <1>3, <1>4, <1>5 DEF Places
<1>7. r \in done => fetcher = "run"
  BY <1>1 DEF Threads
<1>8. QED
  BY <1>2, <1>6, <1>7

(***************************************************************************)
(* Nobody waits for a request that nothing can answer any more: as long as *)
(* Fetch is not taken down, it is with curl or with the fetch thread, and  *)
(* that thread goes on.                                                    *)
(***************************************************************************)
THEOREM NobodyIsForgotten == Spec => []AnswerIsComing
<1>1. Init => FetcherRuns
  BY DEF Init, FetchInit, FetcherRuns
<1>2. Spec => []FetcherRuns
  BY <1>1, FetcherRunsInv, PTL DEF Spec
<1>3. IInv /\ FetcherRuns => AnswerIsComing
  BY OnItsWay
<1>4. QED
  BY <1>2, <1>3, Always, PTL
=============================================================================
