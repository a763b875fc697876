------------------------------- MODULE Paging -------------------------------
(***************************************************************************)
(* A caller walks a device's configuration archive page by page            *)
(* (list_sdc_config_versions, list_config_versions, page_list) while the   *)
(* archive changes.  SDC does not page this list: every call fetches all   *)
(* of it and slices it under a byte budget, and the continuation token is  *)
(* an offset into the list as it was when the token was made.              *)
(***************************************************************************)
EXTENDS Naturals, Sequences, SequencesExt

CONSTANTS
  Version,    \* archived versions
  Weight,     \* bytes of an entry
  Narrow,     \* bytes of an entry cut to the selected fields
  Budget,     \* list_page_budget_bytes
  Limit,      \* max_response_bytes, for the list before it is sliced
  MaxLength,  \* bound: versions in the archive at the start
  MaxChanges  \* bound: versions archived or purged during a behaviour

ASSUME PagingAssumption ==
  /\ Weight \in [Version -> Nat \ {0}]
  /\ Narrow \in [Version -> Nat \ {0}]
  /\ Budget \in Nat \ {0} /\ Limit \in Nat \ {0}
  /\ MaxLength \in Nat /\ MaxChanges \in Nat

(* What stands in the token's place: nothing, an offset, or something this *)
(* build never issued.                                                     *)
Token(k, n) == [kind |-> k, offset |-> n]
NoToken  == Token("none", 0)
Redacted == Token("redacted", 0)

VARIABLES
  archive,    \* the versions, in SDC's order
  changes,    \* changes so far, up to MaxChanges
  walk,       \* "idle", "walking" or "done"
  token,      \* the token the caller holds
  seen,       \* history: what the walk has been given
  kept,       \* history: versions there at every fetch of the walk
  archived,   \* history: versions added during the walk
  purged      \* history: versions removed during the walk

vars == <<archive, changes, walk, token, seen, kept, archived, purged>>

history == <<seen, kept, archived, purged>>

NoRepeats(s) == \A i, j \in 1..Len(s) : s[i] = s[j] => i = j

Init ==
  /\ archive \in { s \in SeqOf(Version, MaxLength) : NoRepeats(s) }
  /\ changes = 0
  /\ walk = "idle"
  /\ token = NoToken
  /\ seen = <<>>
  /\ kept = {}
  /\ archived = 0
  /\ purged = 0

-----------------------------------------------------------------------------
(* SDC archives a version, anywhere in its order, or purges one. *)

Archive ==
  /\ changes < MaxChanges
  /\ \E v \in Version \ (ToSet(archive) \cup ToSet(seen)), i \in 1..(Len(archive) + 1) :
       archive' = InsertAt(archive, i, v)
  /\ changes' = changes + 1
  /\ archived' = archived + 1
  /\ UNCHANGED <<walk, token, seen, kept, purged>>

Purge ==
  /\ changes < MaxChanges
  /\ \E i \in 1..Len(archive) :
       /\ archive' = RemoveAt(archive, i)
       /\ kept' = kept \ {archive[i]}
  /\ changes' = changes + 1
  /\ purged' = purged + 1
  /\ UNCHANGED <<walk, token, seen, archived>>

-----------------------------------------------------------------------------
(* page_list *)

Size(v, fields) == IF fields THEN Narrow[v] ELSE Weight[v]

Bytes(s, fields) == FoldLeft(LAMBDA n, v : n + Size(v, fields), 0, s)

(* The token's offset, when this build issued it. *)
Decodable(t) == t.kind \in {"none", "offset"}

(* An archive that got shorter leaves the offset past its end. *)
Start(t) == IF t.offset < Len(archive) THEN t.offset ELSE Len(archive)

(* The first entry of a page is always taken. *)
Fits(start, n, fields) ==
  n = 1 \/ Bytes(SubSeq(archive, start + 1, start + n), fields) <= Budget

(* Entries are taken until the list ends or the next would not fit. *)
Taken(start, fields) ==
  CHOOSE n \in 0..(Len(archive) - start) :
    /\ \A m \in 1..n : Fits(start, m, fields)
    /\ start + n < Len(archive) => ~Fits(start, n + 1, fields)

(* slip: a page is taken for the last when nothing but its end is left *)
NextTokenEarly(next) ==
  IF next + 1 < Len(archive) THEN Token("offset", next) ELSE NoToken

NextToken(next) == IF next < Len(archive) THEN Token("offset", next) ELSE NoToken

(* slip: the deny-list's "token" is not carved out *)
HandedMasked(t) == IF t = NoToken THEN NoToken ELSE Redacted

(* The token as the caller gets it: redact_secrets masks keys that hold    *)
(* "token", and KEY_EXEMPTIONS leaves this one alone.                      *)
Handed(t) == t

(* The client refuses the list as a whole; an empty one has no items key.  *)
Served == archive # <<>> /\ Bytes(archive, FALSE) <= Limit

-----------------------------------------------------------------------------
(* The caller begins a walk: no token, whatever it was given before. *)
Begin ==
  /\ walk # "walking"
  /\ walk' = "walking"
  /\ token' = NoToken
  /\ seen' = <<>>
  /\ kept' = ToSet(archive)
  /\ archived' = 0
  /\ purged' = 0
  /\ UNCHANGED <<archive, changes>>

(* list_sdc_config_versions answers a page. *)
Page(fields) ==
  /\ walk = "walking"
  /\ Served
  /\ Decodable(token)
  /\ LET start == Start(token)
         n     == Taken(start, fields)
     IN /\ seen' = seen \o SubSeq(archive, start + 1, start + n)
        /\ token' = Handed(NextToken(start + n))
  /\ walk' = IF token' = NoToken THEN "done" ELSE "walking"
  /\ UNCHANGED <<archive, changes, kept, archived, purged>>

(* An error leaves the caller with the token it has: it may ask again, or  *)
(* give the walk up.                                                       *)
GiveUp ==
  /\ walk = "walking"
  /\ ~Served \/ ~Decodable(token)
  /\ walk' = "idle"
  /\ UNCHANGED <<archive, changes, token, history>>

AskPage == \E fields \in BOOLEAN : Page(fields)

Next == Archive \/ Purge \/ Begin \/ AskPage \/ GiveUp

(* A caller in a walk goes on asking, for whole entries at times. *)
FairSpec == Init /\ [][Next]_vars /\ WF_vars(Page(FALSE))

-----------------------------------------------------------------------------
(* Properties *)

(* The members of s that are in K can be found in t, in the same order. *)
InOrder(s, K, t) ==
  \E f \in [{i \in 1..Len(s) : s[i] \in K} -> 1..Len(t)] :
    /\ \A i \in DOMAIN f : t[f[i]] = s[i]
    /\ \A i, j \in DOMAIN f : i < j => f[i] < f[j]

(* A walk over an archive that does not change gives every version once,   *)
(* in order, whatever the budget and the fields asked for.  An archive     *)
(* that changes between pages shifts under the offset: a walk misses at    *)
(* most one version that stayed for each one that was purged, and repeats  *)
(* at most one for each one archived; with no purge it misses none and     *)
(* meets those that stayed in order.                                       *)
ShiftIsBounded ==
  walk = "done" =>
    /\ archived = 0 /\ purged = 0 => seen = archive
    /\ Cardinality(kept \ ToSet(seen)) <= purged
    /\ Len(seen) <= Cardinality(ToSet(seen)) + archived
    /\ purged = 0 => InOrder(archive, kept, seen)

(* A walk ends: each page moves on, one entry over the budget does not     *)
(* stop it, and the token survives redaction.  What does stop it is a list *)
(* the client refuses as a whole, however small the pages, or one that is  *)
(* empty.                                                                  *)
WalkEnds == walk = "walking" ~> (walk # "walking" \/ ~Served)
=============================================================================
