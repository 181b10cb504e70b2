------------------------------- MODULE Dirty -------------------------------
(***************************************************************************)
(* logic/dirty.c: dirty words in GBK.  A text is scanned character by      *)
(* character, one byte below GB_SPEC_CHAR and two from there on.  An index *)
(* by the first character gives the lengths of the words that begin with   *)
(* it, and a hash table of the words tells which of these is there.        *)
(*                                                                         *)
(* Texts and words are sequences of bytes, with positions from 1.  A file  *)
(* is the sequence of its lines, none empty, none longer than              *)
(* MAX_DIRTY_WORDS_LEN allows and none ending within a character.          *)
(***************************************************************************)
EXTENDS Integers, Sequences

CONSTANTS Files,          \* contents of dirty_cfg
          Texts,          \* what is checked and replaced
          MAX_DIRTY_WORDS_COUNT,
          GB_SPEC_CHAR, DIRTY_REPLACE_CHAR,
          tolower(_),     \* of a byte
          HashOf(_)       \* the place of hash_jhash of some bytes in ctx->hash

VARIABLES
  table,      \* ctx->table, a sequence of words; hash and index follow from it
  fn,         \* "check" or "replace", the function that runs or ran last
  src, given, \* its text, and history: the text it was called with
  i, step,    \* its loop's variables
  key,        \* the lengths still flagged in key
  dpc,        \* "app", or where in the loop: "scan", "match", "next"
  ret

vars == <<table, fn, src, given, i, step, key, dpc, ret>>

Low(s) == [j \in 1..Len(s) |-> tolower(s[j])]

(* _dirty_init_table *)
Loaded(lines) ==
  [n \in 1..(IF Len(lines) < MAX_DIRTY_WORDS_COUNT THEN Len(lines) ELSE MAX_DIRTY_WORDS_COUNT)
     |-> Low(lines[n])]

(* _dirty_init_index: the lengths of the words with this first character.  *)
LeadOf(w) == IF w[1] < GB_SPEC_CHAR THEN <<w[1]>> ELSE SubSeq(w, 1, 2)
Index(lead) == {Len(table[n]) : n \in {m \in 1..Len(table) : LeadOf(table[m]) = lead}}

(* dirty_hash_find over the chains of _dirty_init_hash: some word in the   *)
(* same place of the hash table begins with s.                             *)
dirty_hash_find(s) ==
  \E n \in 1..Len(table) :
    /\ HashOf(table[n]) = HashOf(s)
    /\ Len(table[n]) >= Len(s) /\ SubSeq(table[n], 1, Len(s)) = s

Init ==
  /\ \E lines \in Files : table = Loaded(lines)
  /\ fn = "replace" /\ src = <<>> /\ given = <<>>
  /\ i = 1 /\ step = 0 /\ key = {} /\ dpc = "app" /\ ret = 0

dirty_reload ==
  /\ dpc = "app"
  /\ \E lines \in Files : table' = Loaded(lines)
  /\ fn' = "replace" /\ src' = <<>> /\ given' = <<>> /\ ret' = 0
  /\ UNCHANGED <<i, step, key, dpc>>

(* dirty_check and dirty_replace up to their loop.                         *)
Call(f, text) ==
  /\ dpc = "app"
  /\ fn' = f /\ src' = text /\ given' = text
  /\ i' = 1 /\ step' = 0 /\ key' = {} /\ dpc' = "scan"
  /\ UNCHANGED <<table, ret>>

(* The lower case copy; src differs from it in what was replaced already.  *)
lowcase == Low(given)

Returned(r) == dpc' = "app" /\ ret' = r

(* One turn: the character at i and its lengths.                           *)
Scan ==
  /\ dpc = "scan"
  /\ IF i > Len(src) THEN Returned(0) /\ UNCHANGED <<key, step>>
     ELSE IF lowcase[i] >= GB_SPEC_CHAR /\ i = Len(src)
       THEN Returned(IF fn = "check" THEN -2 ELSE -1) /\ UNCHANGED <<key, step>>
     ELSE LET lead == LeadOf(SubSeq(lowcase, i, Len(src)))
          IN /\ key' = Index(lead) /\ step' = Len(lead)
             /\ dpc' = IF Index(lead) = {} THEN "next" ELSE "match"
             /\ UNCHANGED ret
  /\ UNCHANGED <<table, fn, src, given, i>>

(* Fault: the first length that is not a word ends the search.             *)
MatchOnce ==
  LET k == CHOOSE n \in key : \A m \in key : n <= m
      found == i + k - 1 <= Len(src) /\ dirty_hash_find(SubSeq(lowcase, i, i + k - 1))
  IN /\ dpc = "match"
     /\ dpc' = "next"
     /\ src' = IF found THEN [j \in 1..Len(src) |->
                 IF j \in i..i + k - 1 THEN DIRTY_REPLACE_CHAR ELSE src[j]] ELSE src
     /\ step' = IF found THEN k ELSE step
     /\ UNCHANGED <<table, fn, given, i, key, ret>>

(* The inner loop's next flagged length k.                                 *)
Match ==
  LET k == CHOOSE n \in key : \A m \in key : n <= m
      found == i + k - 1 <= Len(src) /\ dirty_hash_find(SubSeq(lowcase, i, i + k - 1))
  IN /\ dpc = "match"
     /\ IF found /\ fn = "check" THEN Returned(-1) /\ UNCHANGED <<src, key, step>>
        ELSE IF found
          THEN /\ src' = [j \in 1..Len(src) |->
                            IF j \in i..i + k - 1 THEN DIRTY_REPLACE_CHAR ELSE src[j]]
               /\ step' = k /\ dpc' = "next" /\ UNCHANGED <<key, ret>>
          ELSE /\ key' = key \ {k}
               /\ dpc' = IF key' = {} \/ i + k - 1 > Len(src) THEN "next" ELSE "match"
               /\ UNCHANGED <<src, step, ret>>
     /\ UNCHANGED <<table, fn, given, i>>

(* i += step.  dirty_check declares a second step inside its loop: the one *)
(* that is added here stays 0.                                             *)
Advance ==
  /\ dpc = "next"
  /\ i' = IF fn = "check" THEN i ELSE i + step
  /\ dpc' = "scan"
  /\ UNCHANGED <<table, fn, src, given, step, key, ret>>

Run == Scan \/ Match \/ Advance
Next == dirty_reload \/ Run \/ \E text \in Texts : Call("check", text) \/ Call("replace", text)

(* The thread that called goes on.                                         *)
Spec == Init /\ [][Next]_vars /\ WF_vars(Run)

----------------------------------------------------------------------------
(* Properties *)

(* Where a character of s begins: at 1, and behind every byte that is not  *)
(* the first of a double one.                                              *)
BeginsAt(s) ==
  LET begins[j \in Nat] ==
        j = 0 \/ ~(begins[j - 1] /\ j - 1 \in 1..Len(s) /\ s[j - 1] >= GB_SPEC_CHAR)
  IN begins
Begins(s) == {j \in 1..Len(s) : BeginsAt(s)[j]}
At(s, j, w) == j + Len(w) - 1 <= Len(s) /\ SubSeq(s, j, j + Len(w) - 1) = w
Words == {table[n] : n \in 1..Len(table)}

(* What dirty_hash_find may take for a word besides the words: the         *)
(* beginnings of a word that are in its place of the hash table.           *)
Prefixes(w) == {SubSeq(w, 1, n) : n \in 1..Len(w) - 1}
Aliases == UNION {{p \in Prefixes(w) : HashOf(w) = HashOf(p)} : w \in Words}
Starless(w) == \A k \in 1..Len(w) : w[k] # DIRTY_REPLACE_CHAR

(* The bytes of src that belong to a dirty word of the given text.         *)
covered ==
  {j \in 1..Len(src) : \E b \in Begins(src), w \in Words \cup Aliases :
                         At(lowcase, b, w) /\ j \in b..b + Len(w) - 1}

(* After dirty_replace no character begins a word of the table, in any     *)
(* case, and only bytes of such words were replaced, whichever words       *)
(* overlap, contain each other or share their first character or their     *)
(* place in the hash table; except that a word with a DIRTY_REPLACE_CHAR   *)
(* in it may come to be by a replacement, and that a longer word in the    *)
(* place of its own prefix stands for that prefix too.  As such a prefix   *)
(* may end within a character, characters are those of the text that is    *)
(* left, where every DIRTY_REPLACE_CHAR is one.                            *)
Cleaned ==
  (dpc = "app" /\ fn = "replace" /\ ret = 0) =>
    /\ \A j \in Begins(src), w \in Words : Starless(w) => ~At(Low(src), j, w)
    /\ \A j \in 1..Len(src) : src[j] # given[j] => j \in covered

(* dirty_check returns: 0, -1, -2 or -3 ("return 0, success", dirty.c).    *)
CheckReturns == (dpc # "app" /\ fn = "check") ~> dpc = "app"
=============================================================================
