------------------------------ MODULE WordTrie ------------------------------
(***************************************************************************)
(* The prefix index of src/registry/service.go (word_trie, 26-270).  The   *)
(* trie maps a first word to a header node under trie.mu; each header owns *)
(* a tree of nodes under its own header.mu.  add and delete look the       *)
(* header up under trie.mu, release it, then work on the header under      *)
(* header.mu; delete finally removes an emptied header from trie.headers   *)
(* holding neither lock.  Callers are the watch goroutine (onKvAdd,        *)
(* onKvDelete) and RegisterService, so these steps interleave.             *)
(*                                                                         *)
(* A path is a sequence of words; a header is an object identity (1, 2,    *)
(* ...) whose tree is a set of word sequences relative to it (<<>> is the  *)
(* header itself).  A search prefix is given as strings.Split would return *)
(* it, empty words included.                                               *)
(***************************************************************************)
EXTENDS Naturals, Sequences, SequencesExt, FiniteSets

CONSTANTS
    Callers,     \* goroutines calling add/delete
    Paths,       \* the paths they add and delete: non-empty word sequences
    Queries,     \* search arguments, split on "/"
    MaxHeaders,  \* bound on header objects ever created
    MaxOps       \* bound on add/delete calls

Words == {p[1] : p \in Paths}
NoHeader == 0
HeaderIds == 1 .. MaxHeaders

VARIABLES
    headers,  \* trie.headers: first word -> header id, NoHeader if absent
    tree,     \* nodes of each header: relative paths, Len >= 1
    setp,     \* relative paths whose node has set = true (<<>>: header.set)
    nextId,   \* next header id
    pc,       \* caller: "idle", "addHeader", "delHeader", "delPrune"
    arg,      \* the path a caller works on
    hd,       \* the header it looked up
    want,     \* the paths present after the calls so far, at their header step
    ops       \* calls so far

vars == <<headers, tree, setp, nextId, pc, arg, hd, want, ops>>

\* proper-prefix closure of a relative path: the nodes add creates
Prefs(r) == {SubSeq(r, 1, i) : i \in 1 .. Len(r)}
Children(t, n) == {m \in t : Len(m) = Len(n) + 1 /\ SubSeq(m, 1, Len(n)) = n}
Below(n, m) == Len(m) > Len(n) /\ SubSeq(m, 1, Len(n)) = n

Init ==
    /\ headers = [w \in Words |-> NoHeader]
    /\ tree = [h \in HeaderIds |-> {}]
    /\ setp = [h \in HeaderIds |-> {}]
    /\ nextId = 1
    /\ pc = [c \in Callers |-> "idle"]
    /\ arg = [c \in Callers |-> CHOOSE p \in Paths : TRUE]
    /\ hd = [c \in Callers |-> NoHeader]
    /\ want = {}
    /\ ops = 0

-----------------------------------------------------------------------------
(* node.delete (236-255), from node n with the remaining words `rest`:     *)
(* the last node is unset; a missing child is ErrTODO; on the way back a   *)
(* child left with no children and unset is removed.  A node's error      *)
(* skips the pruning above it.  Returns [t, s, err].                       *)

RECURSIVE NodeDelete(_, _, _, _)
NodeDelete(t, s, n, rest) ==
    IF rest = <<>>
    THEN [t |-> t, s |-> s \ {n}, err |-> FALSE]
    ELSE LET c == Append(n, Head(rest)) IN
         IF c \notin t
         THEN [t |-> t, s |-> s, err |-> TRUE]
         ELSE LET r == NodeDelete(t, s, c, Tail(rest)) IN
              IF r.err THEN r
              ELSE [r EXCEPT !.t = IF Children(r.t, c) = {} /\ c \notin r.s
                                    THEN r.t \ {c} ELSE r.t]

\* Mutant: header.delete leaves an emptied first-level child in place.
HeaderDeleteNoPrune(t, s, rel) ==
    IF rel = <<>>
    THEN [t |-> t, s |-> s \ {<<>>}]
    ELSE LET c == <<Head(rel)>> IN
         IF c \notin t
         THEN [t |-> t, s |-> s]
         ELSE LET r == NodeDelete(t, s, c, Tail(rel)) IN [t |-> r.t, s |-> r.s]

\* header.delete (193-212): header.set := false for a one-word path; a
\* missing first child is no error; the child's own error is ignored and the
\* child is pruned as above.
HeaderDelete(t, s, rel) ==
    IF rel = <<>>
    THEN [t |-> t, s |-> s \ {<<>>}]
    ELSE LET c == <<Head(rel)>> IN
         IF c \notin t
         THEN [t |-> t, s |-> s]
         ELSE LET r == NodeDelete(t, s, c, Tail(rel)) IN
              [t |-> IF Children(r.t, c) = {} /\ c \notin r.s THEN r.t \ {c} ELSE r.t,
               s |-> r.s]

-----------------------------------------------------------------------------
(* add (60-90, 166-191).                                                   *)

\* Under trie.mu: find the header of the first word, or create and map it.
AddLookup(c, p) ==
    /\ pc[c] = "idle" /\ ops < MaxOps
    /\ IF headers[p[1]] = NoHeader
       THEN /\ nextId <= MaxHeaders
            /\ headers' = [headers EXCEPT ![p[1]] = nextId]
            /\ hd' = [hd EXCEPT ![c] = nextId]
            /\ nextId' = nextId + 1
       ELSE /\ hd' = [hd EXCEPT ![c] = headers[p[1]]]
            /\ UNCHANGED <<headers, nextId>>
    /\ pc' = [pc EXCEPT ![c] = "addHeader"]
    /\ arg' = [arg EXCEPT ![c] = p]
    /\ ops' = ops + 1
    /\ UNCHANGED <<tree, setp, want>>

\* Mutant: only the last node is created, not the ones on the way to it.
AddHeaderNoNodes(c) ==
    /\ pc[c] = "addHeader"
    /\ LET h == hd[c]
           rel == Tail(arg[c])
       IN /\ tree' = [tree EXCEPT ![h] = IF rel = <<>> THEN @ ELSE @ \cup {rel}]
          /\ setp' = [setp EXCEPT ![h] = @ \cup {rel}]
    /\ want' = want \cup {arg[c]}
    /\ pc' = [pc EXCEPT ![c] = "idle"]
    /\ UNCHANGED <<headers, nextId, arg, hd, ops>>

\* Under header.mu: create the missing nodes, mark the last one set.
AddHeader(c) ==
    /\ pc[c] = "addHeader"
    /\ LET h == hd[c]
           rel == Tail(arg[c])
       IN /\ tree' = [tree EXCEPT ![h] = @ \cup Prefs(rel)]
          /\ setp' = [setp EXCEPT ![h] = @ \cup {rel}]
    /\ want' = want \cup {arg[c]}
    /\ pc' = [pc EXCEPT ![c] = "idle"]
    /\ UNCHANGED <<headers, nextId, arg, hd, ops>>

-----------------------------------------------------------------------------
(* delete (92-117).                                                        *)

\* Under trie.mu: no header is ErrTODO and the call ends.
DeleteLookup(c, p) ==
    /\ pc[c] = "idle" /\ ops < MaxOps
    /\ pc' = [pc EXCEPT ![c] = IF headers[p[1]] = NoHeader THEN "idle" ELSE "delHeader"]
    /\ hd' = [hd EXCEPT ![c] = headers[p[1]]]
    /\ arg' = [arg EXCEPT ![c] = p]
    /\ ops' = ops + 1
    /\ UNCHANGED <<headers, tree, setp, nextId, want>>

\* Under header.mu: header.delete.
DeleteHeader(c) ==
    /\ pc[c] = "delHeader"
    /\ LET h == hd[c]
           r == HeaderDelete(tree[h], setp[h], Tail(arg[c]))
       IN /\ tree' = [tree EXCEPT ![h] = r.t]
          /\ setp' = [setp EXCEPT ![h] = r.s]
    /\ want' = want \ {arg[c]}
    /\ pc' = [pc EXCEPT ![c] = "delPrune"]
    /\ UNCHANGED <<headers, nextId, arg, hd, ops>>

\* Mutant: the header is unmapped without looking at what it still holds.
DeletePruneUnchecked(c) ==
    /\ pc[c] = "delPrune"
    /\ headers' = [headers EXCEPT ![arg[c][1]] = NoHeader]
    /\ pc' = [pc EXCEPT ![c] = "idle"]
    /\ UNCHANGED <<tree, setp, nextId, arg, hd, want, ops>>

\* With no lock held: if the header has no nodes and is not set, delete
\* trie.headers[word] -- whichever header that key maps to by now.
DeletePrune(c) ==
    /\ pc[c] = "delPrune"
    /\ headers' = IF tree[hd[c]] = {} /\ <<>> \notin setp[hd[c]]
                  THEN [headers EXCEPT ![arg[c][1]] = NoHeader]
                  ELSE headers
    /\ pc' = [pc EXCEPT ![c] = "idle"]
    /\ UNCHANGED <<tree, setp, nextId, arg, hd, want, ops>>

-----------------------------------------------------------------------------
Next ==
    \E c \in Callers :
        \/ \E p \in Paths : AddLookup(c, p) \/ DeleteLookup(c, p)
        \/ AddHeader(c) \/ DeleteHeader(c) \/ DeletePrune(c)

Spec == Init /\ [][Next]_vars

-----------------------------------------------------------------------------
(* search (119-144, 213-235).                                              *)

\* the paths set in header h, as full paths
Held(w, h) == {<<w>> \o r : r \in setp[h]}

\* header.collect: the header itself if set, and every set node below it
\* (a set node's path is its full path)
HeaderCollect(w) == Held(w, headers[w])

\* header.search's walk: a last empty word ends it (the "ignore /" break)
Walked(ws) == IF ws # <<>> /\ Last(ws) = "" THEN Front(ws) ELSE ws

\* header.search: follow the words; a missing node gives nil; otherwise
\* collect every child subtree of the node reached -- not the node itself
HeaderSearch(w, ws) ==
    LET h == headers[w]
        n == Walked(ws)
    IN IF \A i \in 1 .. Len(n) : SubSeq(n, 1, i) \in tree[h]
       THEN {<<w>> \o m : m \in {r \in setp[h] : Below(n, r)}}
       ELSE {}

Search(ws0) ==
    LET ws == IF ws0 # <<>> /\ Head(ws0) = "" THEN Tail(ws0) ELSE ws0 IN
    IF ws = <<>> THEN {}
    ELSE IF Head(ws) = ""
         THEN UNION {HeaderCollect(w) : w \in {v \in Words : headers[v] # NoHeader}}
    ELSE IF Head(ws) \notin Words \/ headers[Head(ws)] = NoHeader THEN {}
    ELSE HeaderSearch(Head(ws), Tail(ws))

-----------------------------------------------------------------------------
Quiescent == \A c \in Callers : pc[c] = "idle"

\* what the trie holds: the set paths under the headers trie.headers maps
Contents == UNION {Held(w, headers[w]) : w \in {v \in Words : headers[v] # NoHeader}}

\* spec 4.1 and 8: search(p) returns exactly the added paths that begin with
\* p, segment-aligned (p itself included); an empty prefix enumerates all
RefSearch(ws) ==
    LET pfx == SelectSeq(ws, LAMBDA x : x # "") IN
    {p \in want : IsPrefix(pfx, p)}

TypeOK ==
    /\ headers \in [Words -> {NoHeader} \cup HeaderIds]
    /\ \A h \in HeaderIds : tree[h] \subseteq Seq(UNION {Range(p) : p \in Paths})
    /\ \A h \in HeaderIds : setp[h] \subseteq tree[h] \cup {<<>>}
    /\ \A h \in HeaderIds : \A n \in tree[h] : Prefs(n) \subseteq tree[h]
    /\ nextId \in 1 .. MaxHeaders + 1
    /\ pc \in [Callers -> {"idle", "addHeader", "delHeader", "delPrune"}]
    /\ arg \in [Callers -> Paths]
    /\ hd \in [Callers -> {NoHeader} \cup HeaderIds]
    /\ want \subseteq Paths
    /\ ops \in 0 .. MaxOps

(***************************************************************************)
(* The index holds what was added (spec 4.1: add and delete interleave     *)
(* with no torn paths): whenever no call is in progress, the paths set     *)
(* under the mapped headers are exactly those added and not deleted since. *)
(* delete's unlocked removal of an emptied header, and add's use of a      *)
(* header it looked up earlier, are where this can go wrong.               *)
(***************************************************************************)
TrieHoldsAdded == Quiescent => Contents = want

(***************************************************************************)
(* Deletion prunes (spec 4.1): at rest, every node of a mapped header is   *)
(* set or has a child, and every mapped header is set or has a node -- no  *)
(* dead branches keep an emptied path alive in the structure.              *)
(***************************************************************************)
Pruned ==
    Quiescent =>
        \A w \in Words : headers[w] # NoHeader =>
            LET h == headers[w] IN
            /\ tree[h] # {} \/ <<>> \in setp[h]
            /\ \A n \in tree[h] : n \in setp[h] \/ Children(tree[h], n) # {}

SearchComplete ==
    Quiescent => \A ws \in Queries : RefSearch(ws) \subseteq Search(ws)

====
