------------------------------ MODULE YokaiBank ------------------------------
(***************************************************************************)
(* The bank of src/common/source/yokai/YokaiBank.cpp: entries in order of  *)
(* arrival, each a copy of a record with the game it came from, and the    *)
(* two counters that number them.  The file format carries the entries but *)
(* not the counters: decode() recomputes them from what it reads.          *)
(***************************************************************************)
EXTENDS Integers, Sequences, SequencesExt

BankOf(games, records) ==
    [entries     : Seq([id : Nat, arrival : Nat, game : games, record : records]),
     nextId      : Nat,
     nextArrival : Nat]

EmptyBank == [entries |-> <<>>, nextId |-> 1, nextArrival |-> 1]

Positions(bank, id) == {i \in DOMAIN bank.entries : bank.entries[i].id = id}

Ids(bank) == {bank.entries[i].id : i \in DOMAIN bank.entries}

\* find(): the first entry with the id
Has(bank, id)     == Positions(bank, id) # {}
Position(bank, id) == Min(Positions(bank, id))
Find(bank, id)    == bank.entries[Position(bank, id)]

Appended(bank, game, record) ==
    [entries     |-> Append(bank.entries,
                        [id |-> bank.nextId, arrival |-> bank.nextArrival,
                         game |-> game, record |-> record]),
     nextId      |-> bank.nextId + 1,
     nextArrival |-> bank.nextArrival + 1]

\* append() numbers the entry before it stores it: an exception while storing
\* leaves the entries alone and both numbers spent.
AppendFailed(bank) ==
    [entries     |-> bank.entries,
     nextId      |-> bank.nextId + 1,
     nextArrival |-> bank.nextArrival + 1]

Erased(bank, id) ==
    [bank EXCEPT !.entries = RemoveAt(@, Position(bank, id))]

\* decode(encode()): the entries sorted by arrival, the counters one above
\* the highest that is left.
Above(numbers) == Max({1} \cup {n + 1 : n \in numbers})

\* std::stable_sort by arrival
SortedByArrival(entries) ==
    LET Before(i, j) == \/ entries[i].arrival < entries[j].arrival
                        \/ entries[i].arrival = entries[j].arrival /\ i < j
        order == CHOOSE p \in Bijection(DOMAIN entries, DOMAIN entries) :
                     \A i, j \in DOMAIN entries : i < j => Before(p[i], p[j])
    IN  [i \in DOMAIN entries |-> entries[order[i]]]

\* Variant: the next id taken from the number of entries.
ReloadedByCount(bank) ==
    [entries |-> SortedByArrival(bank.entries),
     nextId |-> Len(bank.entries) + 1, nextArrival |-> Len(bank.entries) + 1]

Reloaded(bank) ==
    LET all == bank.entries
    IN  [entries     |-> SortedByArrival(all),
         nextId      |-> Above({all[i].id : i \in DOMAIN all}),
         nextArrival |-> Above({all[i].arrival : i \in DOMAIN all})]

\* Ids and arrivals climb together and stay below the counters.
Ordered(bank) ==
    /\ \A i, j \in DOMAIN bank.entries : i < j =>
           /\ bank.entries[i].id < bank.entries[j].id
           /\ bank.entries[i].arrival < bank.entries[j].arrival
    /\ \A i \in DOMAIN bank.entries :
           /\ bank.entries[i].id < bank.nextId
           /\ bank.entries[i].arrival < bank.nextArrival
=============================================================================
