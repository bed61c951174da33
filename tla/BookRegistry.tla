----------------------------- MODULE BookRegistry -----------------------------
(***************************************************************************)
(* server/grpc_server.go, bookFor: the map from symbols to order books,    *)
(* created on first use under double-checked locking with a RWMutex.       *)
(*                                                                         *)
(* An element of Lookup is one call of bookFor, from any RPC.  The book a  *)
(* call creates is named by that call.                                     *)
(***************************************************************************)
EXTENDS Naturals

CONSTANTS Lookup, Symbol, NoBook

ASSUME RegistryAssumption == NoBook \notin Lookup

VARIABLES
  pc,       \* where each call is
  symbol,   \* the symbol it asks for
  book,     \* the book it holds: what it read, made or returned, or NoBook
  books,    \* s.books
  readers,  \* the calls that hold booksMu for reading
  writer    \* the call that has claimed booksMu for writing, or NoBook

registryVars == <<pc, symbol, book, books, readers, writer>>

\* "start"; "reading" with the read lock; "missed" once it is released;
\* "claimed" the write lock, readers still draining; "writing" with it; "done".
Places == {"start", "reading", "missed", "claimed", "writing", "done"}

RegistryInit ==
  /\ pc = [c \in Lookup |-> "start"]
  /\ symbol \in [Lookup -> Symbol]
  /\ book = [c \in Lookup |-> NoBook]
  /\ books = [s \in Symbol |-> NoBook]
  /\ readers = {}
  /\ writer = NoBook

\* booksMu.RLock: a writer that holds or waits for the lock keeps readers out.
RLock(c) ==
  /\ pc[c] = "start"
  /\ writer = NoBook
  /\ readers' = readers \cup {c}
  /\ pc' = [pc EXCEPT ![c] = "reading"]
  /\ UNCHANGED <<symbol, book, books, writer>>

\* Mutant of RUnlock: a hit returns without releasing the read lock.
RUnlockMissOnly(c) ==
  /\ pc[c] = "reading"
  /\ book' = [book EXCEPT ![c] = books[symbol[c]]]
  /\ readers' = IF books[symbol[c]] = NoBook THEN readers \ {c} ELSE readers
  /\ pc' = [pc EXCEPT ![c] = IF books[symbol[c]] = NoBook THEN "missed" ELSE "done"]
  /\ UNCHANGED <<symbol, books, writer>>

\* The first look-up, and RUnlock: a hit returns.
RUnlock(c) ==
  /\ pc[c] = "reading"
  /\ book' = [book EXCEPT ![c] = books[symbol[c]]]
  /\ readers' = readers \ {c}
  /\ pc' = [pc EXCEPT ![c] = IF books[symbol[c]] = NoBook THEN "missed" ELSE "done"]
  /\ UNCHANGED <<symbol, books, writer>>

\* booksMu.Lock, first half: one writer at a time claims the lock.
Claim(c) ==
  /\ pc[c] = "missed"
  /\ writer = NoBook
  /\ writer' = c
  /\ pc' = [pc EXCEPT ![c] = "claimed"]
  /\ UNCHANGED <<symbol, book, books, readers>>

\* booksMu.Lock, second half: it has the lock when the last reader has left.
Lock(c) ==
  /\ pc[c] = "claimed"
  /\ readers = {}
  /\ pc' = [pc EXCEPT ![c] = "writing"]
  /\ UNCHANGED <<symbol, book, books, readers, writer>>

\* Mutant of FindOrCreate: no second look-up under the write lock.
CreateAlways(c) ==
  /\ pc[c] = "writing"
  /\ books' = [books EXCEPT ![symbol[c]] = c]
  /\ book' = [book EXCEPT ![c] = c]
  /\ writer' = NoBook
  /\ pc' = [pc EXCEPT ![c] = "done"]
  /\ UNCHANGED <<symbol, readers>>

\* Mutant of FindOrCreate: the book found or made is shadowed, and the nil of
\* the first look-up returned.
FindOrCreateShadowed(c) ==
  /\ pc[c] = "writing"
  /\ books' = [books EXCEPT ![symbol[c]] = IF @ = NoBook THEN c ELSE @]
  /\ writer' = NoBook
  /\ pc' = [pc EXCEPT ![c] = "done"]
  /\ UNCHANGED <<symbol, book, readers>>

\* The second look-up, the creation it may lead to, and Unlock.
FindOrCreate(c) ==
  /\ pc[c] = "writing"
  /\ books' = [books EXCEPT ![symbol[c]] = IF @ = NoBook THEN c ELSE @]
  /\ book' = [book EXCEPT ![c] = books'[symbol[c]]]
  /\ writer' = NoBook
  /\ pc' = [pc EXCEPT ![c] = "done"]
  /\ UNCHANGED <<symbol, readers>>

Step(c) == RLock(c) \/ RUnlock(c) \/ Claim(c) \/ Lock(c) \/ FindOrCreate(c)

RegistryNext == \E c \in Lookup : Step(c)

\* Every goroutine that can run eventually does.
RegistrySpec ==
  /\ RegistryInit /\ [][RegistryNext]_registryVars
  /\ \A c \in Lookup : WF_registryVars(Step(c))

-----------------------------------------------------------------------------
RegistryTypeOK ==
  /\ pc \in [Lookup -> Places]
  /\ symbol \in [Lookup -> Symbol]
  /\ book \in [Lookup -> Lookup \cup {NoBook}]
  /\ books \in [Symbol -> Lookup \cup {NoBook}]
  /\ readers \subseteq Lookup
  /\ writer \in Lookup \cup {NoBook}

\* booksMu does its work: nobody reads the map while a call may write it, and
\* at most one call may.
Exclusive ==
  \A c \in Lookup : pc[c] = "writing" =>
    /\ readers = {}
    /\ \A d \in Lookup : pc[d] \in {"claimed", "writing"} => d = c

\* Two calls that return for one symbol return the same book, the registered
\* one - also when both missed it at first: orders for a symbol never end up
\* in two books that cannot match them.
OneBookPerSymbol ==
  \A c, d \in Lookup :
    pc[c] = "done" /\ pc[d] = "done" /\ symbol[c] = symbol[d] =>
      book[c] = book[d] /\ book[c] # NoBook /\ books[symbol[c]] = book[c]

\* A registered book is never replaced or dropped.
BookForLife ==
  [][\A s \in Symbol : books[s] # NoBook => books'[s] = books[s]]_registryVars

\* The inductive invariant.
RegistryInv ==
  /\ RegistryTypeOK
  /\ \A c \in Lookup : /\ c \in readers <=> pc[c] = "reading"
                       /\ writer = c <=> pc[c] \in {"claimed", "writing"}
                       /\ pc[c] = "writing" => readers = {}
                       /\ pc[c] = "done" =>
                            book[c] # NoBook /\ books[symbol[c]] = book[c]

\* Every call returns: readers and writers do not wait on each other for ever.
EveryCallReturns == \A c \in Lookup : <>(pc[c] = "done")
=============================================================================
