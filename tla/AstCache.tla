------------------------------ MODULE AstCache ------------------------------
(***************************************************************************)
(* The cache of parse trees of noe/noe_parser.py, and the one parser object *)
(* of the process behind it.                                               *)
(*                                                                         *)
(* run_noe_logic gets a tree through the cache: the cache has a lock, the  *)
(* parser another, and neither is held while the other is taken.  A block  *)
(* under the cache's lock is one step, since only such blocks touch the    *)
(* cache; a parse under the parser's lock is two, since parse_chain of     *)
(* noe/__init__.py uses the same object without the lock.                  *)
(***************************************************************************)
EXTENDS Integers, Sequences, SequencesExt, FiniteSets

CONSTANTS
    Workers,      \* threads in run_noe_logic
    Direct,       \* threads in parse_chain
    Nobody,
    Chains,       \* chains that occur
    Long,         \* those longer than 2048 characters
    Unparsable,   \* those with no tree
    MaxSize,      \* _AST_CACHE_MAX_SIZE
    NoTree

Threads == Workers \cup Direct

ASSUME CacheAssumption ==
    /\ Nobody \notin Threads
    /\ Workers \cap Direct = {}
    /\ Chains # {} /\ Long \subseteq Chains /\ Unparsable \subseteq Chains
    /\ MaxSize \in Nat \ {0}

VARIABLES
    created,    \* _GLOBAL_PARSER and _GRAMMAR_HASH are set
    cache,      \* _AST_CACHE: entries, the least recently used first
    lock,       \* holder of _PARSER_LOCK
    met,        \* the parses that have met on the parser object
    pc,
    chain,      \* chain_text of each call
    tree,       \* the tree each call holds, then the tree it returned
    used        \* history: cacheable chains by their last use, oldest first

vars == <<created, cache, lock, met, pc, chain, tree, used>>

\* A tree is an object: what it is the tree of, and which call made it.
Tree == [of : Chains, by : Threads]

Entry == [key : Chains, tree : Tree]

ASSUME NoTreeAssumption == NoTree \notin Tree

Keys == {cache[i].key : i \in DOMAIN cache}

Position(c) == CHOOSE i \in DOMAIN cache : cache[i].key = c

Cached(c) == cache[Position(c)].tree

\* Variant, to see that CacheIsRecent depends on it: a hit is not a use.
MoveNothing(s, i) == s

\* OrderedDict.move_to_end, of the entry at i.
MoveToEnd(s, i) == Append(RemoveAt(s, i), s[i])

Init ==
    /\ created = FALSE
    /\ cache = <<>>
    /\ lock = Nobody
    /\ met = {}
    /\ pc = [t \in Threads |-> "idle"]
    /\ chain \in [Threads -> {CHOOSE c \in Chains : TRUE}]
    /\ tree = [t \in Threads |-> NoTree]
    /\ used = <<>>

Goto(t, label) == pc' = [pc EXCEPT ![t] = label]

Return(t, x) == Goto(t, "idle") /\ tree' = [tree EXCEPT ![t] = x]

Use(c) ==
    used' = IF c \in Range(used)
            THEN Append(RemoveAt(used, CHOOSE i \in DOMAIN used : used[i] = c), c)
            ELSE Append(used, c)

-----------------------------------------------------------------------------

Call(t, c) ==
    /\ pc[t] = "idle"
    /\ Goto(t, "get_parser")
    /\ chain' = [chain EXCEPT ![t] = c]
    /\ tree' = [tree EXCEPT ![t] = NoTree]
    /\ UNCHANGED <<created, cache, lock, met, used>>

\* _get_or_create_parser: under the parser's lock, which is free again at the end.
GetParser(t) ==
    /\ pc[t] = "get_parser"
    /\ lock = Nobody
    /\ created' = TRUE
    /\ Goto(t, IF t \in Direct THEN "parse"
               ELSE IF chain[t] \in Long THEN "acquire" ELSE "lookup")
    /\ UNCHANGED <<cache, lock, met, chain, tree, used>>

Hit(t) ==
    /\ pc[t] = "lookup"
    /\ chain[t] \in Keys
    /\ cache' = MoveToEnd(cache, Position(chain[t]))
    /\ Return(t, Cached(chain[t]))
    /\ Use(chain[t])
    /\ UNCHANGED <<created, lock, met, chain>>

Miss(t) ==
    /\ pc[t] = "lookup"
    /\ chain[t] \notin Keys
    /\ Goto(t, "acquire")
    /\ UNCHANGED <<created, cache, lock, met, chain, tree, used>>

\* Variant, to see that TreesAreOwn depends on it: the lock is not waited for.
AcquireAnyway(t) ==
    /\ pc[t] = "acquire"
    /\ lock' = t
    /\ Goto(t, "parse")
    /\ UNCHANGED <<created, cache, met, chain, tree, used>>

Acquire(t) ==
    /\ pc[t] = "acquire"
    /\ lock = Nobody
    /\ lock' = t
    /\ Goto(t, "parse")
    /\ UNCHANGED <<created, cache, met, chain, tree, used>>

InUse == \E u \in Threads : pc[u] = "parsing"

\* parser.parse(chain_text): the object keeps the text and the position, so that
\* parses that meet on it mix.
BeginParse(t) ==
    /\ pc[t] = "parse"
    /\ met' = {<<t, chain[t]>>} \cup (IF InUse THEN met ELSE {})
    /\ Goto(t, "parsing")
    /\ UNCHANGED <<created, cache, lock, chain, tree, used>>

\* The texts a parse may end up with; NoTree is a parse error.
Texts(t) == {m[2] : m \in met} \cup (IF met = {<<t, chain[t]>>} THEN {} ELSE {NoTree})

Unlock(t) == lock' = IF lock = t THEN Nobody ELSE lock

\* The parse yields a tree: parse_chain and long chains are done with it.
EndParse(t) ==
    /\ pc[t] = "parsing"
    /\ \E text \in Texts(t) \ (Unparsable \cup {NoTree}) :
         tree' = [tree EXCEPT ![t] = [of |-> text, by |-> t]]
    /\ Unlock(t)
    /\ Goto(t, IF t \in Direct \/ chain[t] \in Long THEN "idle" ELSE "insert")
    /\ UNCHANGED <<created, cache, met, chain, used>>

\* Variant, to see that ParserLockReleased depends on it: NoMatch leaves the lock taken.
ParseFailsLocked(t) ==
    /\ pc[t] = "parsing"
    /\ Texts(t) \cap (Unparsable \cup {NoTree}) # {}
    /\ Return(t, NoTree)
    /\ UNCHANGED <<created, cache, lock, met, chain, used>>

\* NoMatch leaves through the lock, and nothing is cached.
ParseFails(t) ==
    /\ pc[t] = "parsing"
    /\ Texts(t) \cap (Unparsable \cup {NoTree}) # {}
    /\ Unlock(t)
    /\ Return(t, NoTree)
    /\ UNCHANGED <<created, cache, met, chain, used>>

\* Variant, to see that OneTreePerChain depends on it: the other's insertion is
\* not noticed.
InsertUnchecked(t) ==
    /\ pc[t] = "insert"
    /\ cache' = Append(SelectSeq(cache, LAMBDA e : e.key # chain[t]),
                       [key |-> chain[t], tree |-> tree[t]])
    /\ Return(t, tree[t])
    /\ Use(chain[t])
    /\ UNCHANGED <<created, lock, met, chain>>

\* Somebody else has inserted the chain since the lookup: that tree is returned.
InsertFound(t) ==
    /\ pc[t] = "insert"
    /\ chain[t] \in Keys
    /\ cache' = MoveToEnd(cache, Position(chain[t]))
    /\ Return(t, Cached(chain[t]))
    /\ Use(chain[t])
    /\ UNCHANGED <<created, lock, met, chain>>

\* Variant, to see that TypeOK depends on it: a full cache evicts nothing.
InsertUnbounded(t) ==
    /\ pc[t] = "insert"
    /\ chain[t] \notin Keys
    /\ cache' = Append(cache, [key |-> chain[t], tree |-> tree[t]])
    /\ Return(t, tree[t])
    /\ Use(chain[t])
    /\ UNCHANGED <<created, lock, met, chain>>

\* A full cache loses its least recently used entry.
Insert(t) ==
    /\ pc[t] = "insert"
    /\ chain[t] \notin Keys
    /\ cache' = Append(IF Len(cache) >= MaxSize THEN Tail(cache) ELSE cache,
                       [key |-> chain[t], tree |-> tree[t]])
    /\ Return(t, tree[t])
    /\ Use(chain[t])
    /\ UNCHANGED <<created, lock, met, chain>>

Step(t) ==
    \/ GetParser(t) \/ Hit(t) \/ Miss(t) \/ Acquire(t)
    \/ BeginParse(t) \/ EndParse(t) \/ ParseFails(t)
    \/ InsertFound(t) \/ Insert(t)

Next ==
    \/ \E t \in Threads, c \in Chains : Call(t, c)
    \/ \E t \in Threads : Step(t)

Spec == Init /\ [][Next]_vars

\* A thread in a call goes on when it can; who gets a lock is left open.
FairSpec == Spec /\ \A t \in Threads : WF_vars(Step(t))

-----------------------------------------------------------------------------
(* Properties *)

Labels == {"idle", "get_parser", "lookup", "acquire", "parse", "parsing", "insert"}

\* The variables have the types of their code counterparts.
TypeOK ==
    /\ created \in BOOLEAN
    /\ cache \in Seq(Entry) /\ Len(cache) <= MaxSize
    /\ lock \in Threads \cup {Nobody}
    /\ met \subseteq Threads \X Chains
    /\ pc \in [Threads -> Labels]
    /\ chain \in [Threads -> Chains]
    /\ tree \in [Threads -> Tree \cup {NoTree}]
    /\ used \in Seq(Chains)

\* What is cached is what was used last, in that order: the cache is the end of
\* the sequence of last uses, so the chain it drops is always the one whose last
\* use is the oldest, and no chain is in it twice.
CacheIsRecent ==
    /\ Len(cache) <= Len(used)
    /\ \A i \in DOMAIN cache :
         cache[i].key = used[Len(used) - Len(cache) + i]

\* No thread is ever given, nor is anything cached, the tree of another chain.
TreesAreOwn ==
    /\ \A i \in DOMAIN cache : cache[i].tree.of = cache[i].key
    /\ \A t \in Threads : tree[t] # NoTree => tree[t].of = chain[t]

\* While a chain stays cached its tree is the same object, and whoever is given a
\* tree of a cacheable chain is given that object, also when two threads parsed
\* the chain at once.
OneTreePerChain ==
    [][/\ \A i \in DOMAIN cache, j \in DOMAIN cache' :
            cache[i].key = cache'[j].key => cache[i].tree = cache'[j].tree
       /\ \A t \in Workers :
            pc[t] \in {"lookup", "insert"} /\ pc'[t] = "idle" =>
                \E j \in DOMAIN cache' :
                    cache'[j] = [key |-> chain[t], tree |-> tree'[t]]]_vars

\* The parser's lock never stays with one parse, also when the parse fails.
ParserLockReleased == \A t \in Workers : (lock = t) ~> (lock # t)

\* "Even if parser object is reused, we must serialize access."
ParserAccessSerialized ==
    \A t, u \in Threads : pc[t] = "parsing" /\ pc[u] = "parsing" => t = u

=============================================================================
