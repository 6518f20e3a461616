----------------------------- MODULE LruDrivers -----------------------------
(***************************************************************************)
(* The programs around the caches: main.c of lru-in-c and of               *)
(* lru-in-c-datastructs, and cache.cc of lru-in-cxx.  They read a          *)
(* capacity, a count and that many keys, character by character in C, and  *)
(* print the hits.  The cache is what LruSpec promises: it holds the last  *)
(* keys requested.  INT64_MAX is a small number here.                      *)
(***************************************************************************)
EXTENDS RecencyList, Integers

CONSTANTS IntMax,     \* INT64_MAX, at least 9
          Digits,     \* the digits that occur
          MaxKeys     \* bound on the keys read

VARIABLES prog,       \* "c", "datastructs" or "cxx"
          pc,         \* "read" (in read_integer), "got" (it returned), "out", "ok", "fail"
          tok,        \* read_integer: where it is, negative, magnitude, and the value so far
          reading,    \* what main reads: "capacity", "count", "key"
          nums,       \* capacity and count
          cache,      \* whether it exists, its limit and its recency list
          hits,
          asked       \* history: keys requested, and the hits of a cache of the capacity read

vars == <<prog, pc, tok, reading, nums, cache, hits, asked>>

Chars == {"space", "-", "+", "other", "EOF"}      \* but for the digits

NoToken == [at |-> "space", negative |-> FALSE, magnitude |-> 0, ok |-> FALSE, exact |-> 0]
NoCache == [live |-> FALSE, limit |-> 0, list |-> << >>]

Init ==
  /\ prog \in {"c", "datastructs", "cxx"}
  /\ pc = "read" /\ tok = NoToken /\ reading = "capacity"
  /\ nums = [capacity |-> 0, count |-> 0]
  /\ cache = NoCache
  /\ hits = 0
  /\ asked = [stack |-> << >>, hits |-> 0, keys |-> 0]

-----------------------------------------------------------------------------
(* read_integer                                                            *)

\* Slip: the test for overflow forgets the digit.
FitsNoDigit(negative, magnitude, digit) ==
  magnitude <= (IF negative THEN IntMax + 1 ELSE IntMax) \div 10

\* magnitude > (limit - digit) / 10 is tested before the multiplication.
Fits(negative, magnitude, digit) ==
  magnitude <= ((IF negative THEN IntMax + 1 ELSE IntMax) - digit) \div 10

\* uint64_t counts modulo this, and a cast to int64_t takes the half above away.
UintModulus == 2 * (IntMax + 1)
Signed(u) == IF u > IntMax THEN u - UintModulus ELSE u

\* -(int64_t)magnitude, INT64_MIN apart.
Value(t) ==
  IF t.negative /\ t.magnitude = IntMax + 1 THEN -IntMax - 1
  ELSE IF t.negative THEN -Signed(t.magnitude) ELSE Signed(t.magnitude)

Returns(ok) == pc' = "got" /\ tok' = [tok EXCEPT !.ok = ok]
Continues(t) == pc' = pc /\ tok' = t

\* One getchar() and what is done with it; in C++ operator>> and peek() come to
\* the same.
read_digit(d) ==
  LET spelt == 10 * tok.exact + (IF tok.negative THEN -d ELSE d)
  IN /\ pc = "read" /\ asked.keys < MaxKeys
     /\ IF Fits(tok.negative, tok.magnitude, d)
        THEN Continues([tok EXCEPT !.at = "digits", !.magnitude = (10 * @ + d) % UintModulus, !.exact = spelt])
        ELSE pc' = "got" /\ tok' = [tok EXCEPT !.exact = spelt]
     /\ UNCHANGED <<prog, reading, nums, cache, hits, asked>>

read_other(ch) ==
  /\ pc = "read" /\ asked.keys < MaxKeys
  /\ CASE tok.at = "space" /\ ch = "space" -> Continues(tok)
       [] tok.at = "space" /\ ch \in {"-", "+"} ->
            Continues([tok EXCEPT !.at = "sign", !.negative = ch = "-"])
       [] tok.at = "digits" /\ ch \in {"space", "EOF"} -> Returns(TRUE)
       [] OTHER -> Returns(FALSE)
  /\ UNCHANGED <<prog, reading, nums, cache, hits, asked>>

-----------------------------------------------------------------------------
(* main                                                                    *)

\* return 1 or EXIT_FAILURE, after lru_destroy where there is a cache.
Fail == /\ pc' = "fail" /\ cache' = NoCache
        /\ UNCHANGED <<prog, tok, reading, nums, hits, asked>>

SizeFails == /\ pc = "got" /\ reading # "key"
             /\ ~tok.ok \/ (reading = "count" /\ Value(tok) < 0)
                        \/ (reading = "count" /\ nums.capacity < 0)
             /\ Fail

ReadCapacity ==
  /\ pc = "got" /\ reading = "capacity" /\ tok.ok
  /\ nums' = [nums EXCEPT !.capacity = Value(tok)]
  /\ reading' = "count" /\ pc' = "read" /\ tok' = NoToken
  /\ UNCHANGED <<prog, cache, hits, asked>>

\* The C programs make no more room than there are keys.
Limit(capacity, count) ==
  IF prog = "cxx" \/ capacity < count THEN capacity ELSE count

\* The next key, or the result after the last.
NextKey(n, count) == IF n < count THEN "read" ELSE "out"

ReadCount ==
  /\ pc = "got" /\ reading = "count" /\ tok.ok
  /\ nums.capacity >= 0 /\ Value(tok) >= 0
  /\ nums' = [nums EXCEPT !.count = Value(tok)]
  /\ cache' = [live |-> TRUE, limit |-> Limit(nums.capacity, Value(tok)), list |-> << >>]
  /\ reading' = "key" /\ pc' = NextKey(0, Value(tok)) /\ tok' = NoToken
  /\ UNCHANGED <<prog, hits, asked>>

\* lru_create returns NULL, or the cache cannot be built.
CreateFails == /\ pc = "got" /\ reading = "count" /\ tok.ok
               /\ nums.capacity >= 0 /\ Value(tok) >= 0
               /\ Fail

\* Slip: the cache is left to the system.
KeyFailsKeeps == /\ pc = "got" /\ reading = "key" /\ ~tok.ok
                 /\ pc' = "fail"
                 /\ UNCHANGED <<prog, tok, reading, nums, cache, hits, asked>>

KeyFails == pc = "got" /\ reading = "key" /\ ~tok.ok /\ Fail

\* lookup_update and lru_access of the cache.
Access ==
  /\ pc = "got" /\ reading = "key" /\ tok.ok
  /\ LET key == Value(tok)
         hit == key \in Resident(cache.list, cache.limit)
     IN /\ hits' = IF hit THEN hits + 1 ELSE hits
        /\ cache' = [cache EXCEPT !.list = Touch(@, key)]
        /\ asked' = [stack |-> Touch(asked.stack, key), keys |-> asked.keys + 1,
                     hits |-> asked.hits +
                       (IF key \in Resident(asked.stack, nums.capacity) THEN 1 ELSE 0)]
        /\ pc' = NextKey(asked.keys + 1, nums.count)
  /\ tok' = NoToken
  /\ UNCHANGED <<prog, reading, nums>>

\* lookup_update reports an error, or throws; lru_access has none to report.
AccessFails == pc = "got" /\ reading = "key" /\ tok.ok /\ prog # "datastructs" /\ Fail

\* The result is printed; in C the cache is destroyed first.
Finish(printed) ==
  /\ pc = "out"
  /\ cache' = NoCache
  /\ pc' = IF printed THEN "ok" ELSE "fail"
  /\ UNCHANGED <<prog, tok, reading, nums, hits, asked>>

\* The bound on the keys, and the end of the program.
Over == (pc \in {"ok", "fail"} \/ (pc = "read" /\ asked.keys = MaxKeys)) /\ UNCHANGED vars

Next ==
  \/ \E d \in Digits : read_digit(d)
  \/ \E ch \in Chars : read_other(ch)
  \/ SizeFails \/ ReadCapacity \/ ReadCount \/ CreateFails
  \/ KeyFails \/ Access \/ AccessFails
  \/ \E printed \in BOOLEAN : Finish(printed)
  \/ Over

Spec == Init /\ [][Next]_vars

-----------------------------------------------------------------------------
(* Properties.                                                             *)

\* A token is accepted with exactly the value it spells, from INT64_MIN to
\* INT64_MAX, and no digit is refused that fits; nothing wraps around.
TokensExact ==
  /\ pc = "got" /\ tok.ok => Value(tok) = tok.exact
  /\ tok.exact \in (-IntMax - 1)..IntMax => tok.magnitude = (IF tok.exact < 0 THEN -tok.exact ELSE tok.exact)

\* The hits printed are those of an LRU cache of the capacity asked for, although
\* the C programs make it no larger than the count, and no way out of main leaves
\* the cache behind.
HitsOfCapacity ==
  /\ hits = asked.hits
  /\ pc = "ok" => asked.keys = nums.count /\ nums.capacity >= 0
  /\ pc \in {"ok", "fail"} => cache = NoCache
  /\ cache.live => cache.limit <= nums.capacity
=============================================================================
