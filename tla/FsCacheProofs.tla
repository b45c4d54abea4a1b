---------------------------- MODULE FsCacheProofs ----------------------------
(* Proofs about FsCache for every set of workers, paths, contents and         *)
(* operations.                                                                *)
EXTENDS FsCache, TLAPS

-----------------------------------------------------------------------------
(* One node                                                                  *)

SlotReaders == AllOps \ {"exists"}

Entries == [kind : Kinds, version : Versions]
Exists(entry) == Sees(entry, "stat")
LinkExists(entry) == Sees(entry, "lstat")

\* The operation whose answer a slot holds: a soft one writes the slot of the hard one.
Hard(op) ==
    CASE op = "statSoft" -> "stat"
      [] op = "lstatSoft" -> "lstat"
      [] OTHER -> op

Held(entry, op) ==
    IF IsMissingOutcome(Hard(op), Native(entry, Hard(op))) THEN {None}
    ELSE {None, Native(entry, Hard(op))}

\* What a node may hold: flags that are right, and in each slot an answer that is right
\* for every operation that reads it.
NodeSound(node, entry) ==
    /\ node = [exists |-> node.exists, linkExists |-> node.linkExists, slots |-> node.slots]
    /\ node.slots = [s \in Slots |-> node.slots[s]]
    /\ node.exists \in {None, Exists(entry)}
    /\ node.linkExists \in {None, LinkExists(entry)}
    /\ \A op \in SlotReaders : node.slots[SlotOf(op)] \in Held(entry, op)

LEMMA SlotIsSlot == \A op \in SlotReaders : SlotOf(op) \in Slots
BY DEF SlotReaders, AllOps, SlotOf, Slots

LEMMA SeesIs ==
    ASSUME NEW entry \in Entries, NEW op
    PROVE  /\ Sees(entry, op) <=> IF op \in LinkOps THEN LinkExists(entry) ELSE Exists(entry)
           /\ Exists(entry) => LinkExists(entry)
           /\ Exists(entry) \in BOOLEAN /\ LinkExists(entry) \in BOOLEAN
BY DEF Sees, LinkOps, Exists, LinkExists

\* Where there is something to see.
LEMMA SeenIsNotMissing ==
    ASSUME NEW entry \in Entries, NEW op \in SlotReaders, Sees(entry, op)
    PROVE  /\ ~IsMissingOutcome(op, Native(entry, op))
           /\ Native(entry, Hard(op)) = Native(entry, op)
<1>0. entry.kind \in AllKinds /\ entry.version \in Versions /\ op # "exists"
  BY InputsAssumption DEF Entries, SlotReaders
<1>1. \/ Native(entry, op) \in {Ok(entry.version), OfLink(entry.version), Ok("null")}
      \/ Native(entry, op) \in {Err("EINVAL"), Err("EACCES"), Err("EISDIR"), Err("ENOTDIR")}
  BY <1>0 DEF Native
<1>2. \A answer \in {Ok(entry.version), OfLink(entry.version), Ok("null")} :
          ~IsMissingOutcome(op, answer)
  BY <1>0, VersionsAssumption DEF IsMissingOutcome, Ok, OfLink, Err
<1>3. \A code \in {"EINVAL", "EACCES", "EISDIR", "ENOTDIR"} : ~IsMissingOutcome(op, Err(code))
  BY DEF IsMissingOutcome, Ok, Err
<1>4. ~IsMissingOutcome(op, Native(entry, op))
  BY <1>1, <1>2, <1>3
<1>5. CASE op \in SoftOps
  <2>1. Sees(entry, Hard(op))
    BY <1>5 DEF Hard, SoftOps, Sees, LinkOps
  <2>2. Native(entry, Hard(op)) = Native(entry, op)
    BY <1>5, <2>1 DEF Hard, SoftOps, Native, LinkOps, ListOps
  <2> QED
    BY <1>4, <2>2
<1>6. CASE op \notin SoftOps
  BY <1>4, <1>6 DEF Hard, SoftOps
<1> QED
  BY <1>5, <1>6

\* Where there is nothing to see: no call succeeds but a soft one that reports absence.
LEMMA UnseenAnswers ==
    ASSUME NEW entry \in Entries, NEW op \in SlotReaders, ~Sees(entry, op)
    PROVE  /\ Native(entry, op).ok => IsMissingOutcome(op, Native(entry, op))
           /\ entry.kind \notin DOMAIN Blocked => IsMissingOutcome(op, Native(entry, op))
           /\ ~IsMissingOutcome(op, Native(entry, op)) => Native(entry, Hard(op)) = Native(entry, op)
<1>0. op # "exists"
  BY DEF SlotReaders
<1>1. Native(entry, op) = Unseen(entry, op)
  BY DEF Native
<1>2. IsMissingOutcome(op, MissingAnswer(op))
  BY <1>0 DEF MissingAnswer, IsMissingOutcome
<1>3. CASE Unseen(entry, op) = MissingAnswer(op)
  BY <1>1, <1>2, <1>3
<1>4. CASE Unseen(entry, op) # MissingAnswer(op)
  <2>1. /\ entry.kind \in DOMAIN Blocked
        /\ Unseen(entry, op) = Err(Blocked[entry.kind])
        /\ ~(entry.kind = "belowFile" /\ op \in SoftOps)
    BY <1>4 DEF Unseen
  <2>2. ~Sees(entry, Hard(op)) /\ Hard(op) # "exists" /\ Hard(op) \notin SoftOps
    BY <1>0 DEF Hard, SoftOps, Sees, LinkOps
  <2>3. Native(entry, Hard(op)) = Err(Blocked[entry.kind])
    BY <2>1, <2>2 DEF Native, Unseen
  <2>4. ~Err(Blocked[entry.kind]).ok
    BY DEF Err
  <2> QED
    BY <1>1, <2>1, <2>3, <2>4
<1> QED
  BY <1>3, <1>4

\* Every operation that reads a slot learns that a missing path is missing.
LEMMA MissingIsMissing ==
    ASSUME NEW entry \in Entries, entry.kind = "missing", NEW op \in SlotReaders
    PROVE  IsMissingOutcome(op, Native(entry, op))
<1>1. ~Sees(entry, op) /\ entry.kind \notin DOMAIN Blocked
  BY DEF Sees, Blocked
<1> QED
  BY <1>1, UnseenAnswers

\* An answer that is no absence is the one of the slot it goes to.
LEMMA FilledIsHeld ==
    ASSUME NEW entry \in Entries, NEW op \in SlotReaders,
           ~IsMissingOutcome(op, Native(entry, op))
    PROVE  Native(entry, op) \in Held(entry, op)
<1>1. Native(entry, Hard(op)) = Native(entry, op)
  BY SeenIsNotMissing, UnseenAnswers
<1>2. ~IsMissingOutcome(Hard(op), Native(entry, op))
  BY DEF IsMissingOutcome, Hard, SoftOps
<1> QED
  BY <1>1, <1>2 DEF Held

\* Operations that share a slot hold the same in it.
LEMMA SlotShared ==
    ASSUME NEW entry \in Entries, NEW op \in SlotReaders, NEW other \in SlotReaders,
           SlotOf(op) = SlotOf(other)
    PROVE  Held(entry, op) = Held(entry, other)
<1>1. Hard(op) = Hard(other) \/ {op, other} \subseteq {"readdirTypes", "opendir"}
  BY DEF SlotOf, SlotReaders, AllOps, Hard
<1>2. CASE {op, other} \subseteq {"readdirTypes", "opendir"}
  <2>1. Hard(op) = op /\ Hard(other) = other
    BY <1>2 DEF Hard
  <2>2. Native(entry, "readdirTypes") = Native(entry, "opendir")
    BY DEF Native, Sees, Unseen, MissingAnswer, SoftOps, LinkOps, ListOps
  <2>3. \A answer : IsMissingOutcome("readdirTypes", answer) <=> IsMissingOutcome("opendir", answer)
    BY DEF IsMissingOutcome, SoftOps
  <2> QED
    BY <1>2, <2>1, <2>2, <2>3 DEF Held
<1> QED
  BY <1>1, <1>2 DEF Held

\* What a slot holds may be answered to every operation that reads it.
LEMMA HeldIsAllowed ==
    ASSUME NEW entry \in Entries, NEW op \in SlotReaders, NEW answer \in Held(entry, op),
           answer # None
    PROVE  answer \in Allowed(entry, op)
<1>1. /\ answer = Native(entry, Hard(op))
      /\ ~IsMissingOutcome(Hard(op), Native(entry, Hard(op)))
  BY DEF Held
<1>2. CASE op \notin SoftOps
  BY <1>1, <1>2 DEF Hard, SoftOps, Allowed
<1>3. CASE op \in SoftOps /\ Sees(entry, op)
  BY <1>1, <1>3, SeenIsNotMissing DEF Allowed
<1>4. CASE op \in SoftOps /\ ~Sees(entry, op)
  <2>1. /\ ~Sees(entry, Hard(op)) /\ Hard(op) # "exists" /\ Hard(op) \notin SoftOps
        /\ Hard(op) \in SlotReaders
    BY <1>4 DEF Hard, SoftOps, Sees, LinkOps, SlotReaders, AllOps
  <2>2. entry.kind \in DOMAIN Blocked
    BY <1>1, <2>1, UnseenAnswers
  <2>3. answer = Err(Blocked[entry.kind])
    BY <1>1, <2>1, <2>2 DEF Native, Unseen
  <2>4. CASE entry.kind = "belowFile"
    BY <1>4, <2>3, <2>4 DEF Allowed, Blocked
  <2>5. CASE entry.kind # "belowFile"
    <3>1. op # "exists"
      BY DEF SlotReaders
    <3>2. Native(entry, op) = Err(Blocked[entry.kind])
      BY <1>4, <2>2, <2>5, <3>1 DEF Native, Unseen
    <3> QED
      BY <2>3, <3>2 DEF Allowed
  <2> QED
    BY <2>4, <2>5
<1> QED
  BY <1>2, <1>3, <1>4

\* Of what exists, and of what is nothing at all, only one answer is right.
LEMMA PlainIsNative ==
    ASSUME NEW entry \in Entries, Plain(entry), NEW op \in AllOps
    PROVE  Allowed(entry, op) = {Native(entry, op)}
<1>1. entry.kind # "belowFile"
  BY DEF Plain, Sees
<1>2. ~Sees(entry, op) => Native(entry, op) = MissingAnswer(op)
  BY DEF Plain, Sees, LinkOps, Native, Unseen, Blocked
<1> QED
  BY <1>1, <1>2 DEF Allowed

\* What 'exists' answers.
LEMMA NativeExists ==
    ASSUME NEW entry
    PROVE  Native(entry, "exists") = IF Exists(entry) THEN Ok("present") ELSE Ok("absent")
BY DEF Native, Sees, Unseen, MissingAnswer, Exists, LinkOps, ListOps, SoftOps

\* Recording an answer keeps the flags right.
LEMMA UpdateKeepsSound ==
    ASSUME NEW entry \in Entries, NEW op \in AllOps, NEW node, NodeSound(node, entry)
    PROVE  NodeSound(UpdateExistence(node, op, Native(entry, op)), entry)
<1> DEFINE outcome == Native(entry, op)
           next == UpdateExistence(node, op, outcome)
<1>1. Exists(entry) \in BOOLEAN /\ LinkExists(entry) \in BOOLEAN /\ (Exists(entry) => LinkExists(entry))
  BY SeesIs
<1>2. CASE op = "exists"
  <2>1. outcome.value = "present" <=> Exists(entry)
    BY <1>2, NativeExists DEF Ok
  <2>2. next = [node EXCEPT !.exists = (outcome.value = "present"),
                            !.linkExists = IF outcome.value = "present" THEN TRUE ELSE @]
    BY <1>2 DEF UpdateExistence
  <2>3. /\ next = [exists |-> next.exists, linkExists |-> next.linkExists, slots |-> next.slots]
        /\ next.exists = Exists(entry)
        /\ next.linkExists \in {node.linkExists, LinkExists(entry)}
        /\ next.slots = node.slots
    BY <1>1, <2>1, <2>2 DEF NodeSound
  <2> QED
    BY <2>3 DEF NodeSound
<1>3. CASE op # "exists" /\ IsMissingOutcome(op, outcome)
  <2>1. op \in SlotReaders
    BY <1>3 DEF SlotReaders
  <2>2. IF op \in LinkOps THEN ~LinkExists(entry) ELSE ~Exists(entry)
    BY <1>3, <2>1, SeenIsNotMissing, SeesIs
  <2>3. next = [node EXCEPT !.exists = FALSE,
                            !.linkExists = IF op \in LinkOps THEN FALSE ELSE @]
    BY <1>3 DEF UpdateExistence
  <2>4. /\ next = [exists |-> next.exists, linkExists |-> next.linkExists, slots |-> next.slots]
        /\ next.exists = Exists(entry)
        /\ next.linkExists \in {node.linkExists, LinkExists(entry)}
        /\ next.slots = node.slots
    BY <1>1, <2>2, <2>3 DEF NodeSound
  <2> QED
    BY <2>4 DEF NodeSound
<1>4. CASE op # "exists" /\ ~IsMissingOutcome(op, outcome) /\ outcome.ok
  <2>1. op \in SlotReaders
    BY <1>4 DEF SlotReaders
  <2>2. IF op \in LinkOps THEN LinkExists(entry) ELSE Exists(entry)
    BY <1>4, <2>1, UnseenAnswers, SeesIs
  <2>3. next = [node EXCEPT !.linkExists = TRUE, !.exists = IF op \in LinkOps THEN @ ELSE TRUE]
    BY <1>4 DEF UpdateExistence
  <2>4. /\ next = [exists |-> next.exists, linkExists |-> next.linkExists, slots |-> next.slots]
        /\ next.exists \in {node.exists, Exists(entry)}
        /\ next.linkExists = LinkExists(entry)
        /\ next.slots = node.slots
    BY <1>1, <2>2, <2>3 DEF NodeSound
  <2> QED
    BY <2>4 DEF NodeSound
<1>5. CASE op # "exists" /\ ~IsMissingOutcome(op, outcome) /\ ~outcome.ok
  BY <1>5 DEF UpdateExistence
<1> QED
  BY <1>2, <1>3, <1>4, <1>5

\* The slot an answer goes to holds the answer of every operation that reads it.
LEMMA WriteKeepsSound ==
    ASSUME NEW entry \in Entries, NEW op \in AllOps, NEW node, NodeSound(node, entry)
    PROVE  NodeSound(WriteSlot(node, op, Native(entry, op)), entry)
<1> DEFINE outcome == Native(entry, op)
           next == WriteSlot(node, op, outcome)
<1>1. CASE op = "exists" \/ IsMissingOutcome(op, outcome)
  BY <1>1 DEF WriteSlot
<1>2. CASE op # "exists" /\ ~IsMissingOutcome(op, outcome)
  <2>1. op \in SlotReaders
    BY <1>2 DEF SlotReaders
  <2>2. next = [node EXCEPT !.slots[SlotOf(op)] = outcome]
    BY <1>2 DEF WriteSlot
  <2>3. /\ next = [exists |-> next.exists, linkExists |-> next.linkExists, slots |-> next.slots]
        /\ next.exists = node.exists /\ next.linkExists = node.linkExists
        /\ next.slots = [s \in Slots |-> IF s = SlotOf(op) THEN outcome ELSE node.slots[s]]
    BY <2>2 DEF NodeSound
  <2>4. ASSUME NEW other \in SlotReaders
        PROVE  next.slots[SlotOf(other)] \in Held(entry, other)
    <3>1. SlotOf(other) \in Slots
      BY SlotIsSlot
    <3>2. CASE SlotOf(other) = SlotOf(op)
      <4>1. outcome \in Held(entry, other)
        BY <1>2, <2>1, <3>2, FilledIsHeld, SlotShared
      <4> QED
        BY <2>3, <3>1, <3>2, <4>1
    <3>3. CASE SlotOf(other) # SlotOf(op)
      BY <2>3, <3>1, <3>3 DEF NodeSound
    <3> QED
      BY <3>2, <3>3
  <2>5. next.slots = [s \in Slots |-> next.slots[s]]
    BY <2>3
  <2> QED
    BY <2>3, <2>4, <2>5 DEF NodeSound
<1> QED
  BY <1>1, <1>2

\* A sound node answers what the cache may answer, also what it derives: that a file
\* opens, from its content and stats, and its names, from its entries.
LEMMA NodeAnswers ==
    ASSUME NEW entry \in Entries, NEW op \in AllOps, NEW node, NodeSound(node, entry)
    PROVE  GetFromNode(node, op) \in
             {IF op = "exists" THEN Refused ELSE None} \cup Allowed(entry, op)
<1>1. CASE op = "exists"
  <2>1. GetFromNode(node, op) = CASE node.exists = None -> Refused
                                  [] node.exists = TRUE -> Ok("present")
                                  [] OTHER -> Ok("absent")
    BY <1>1 DEF GetFromNode
  <2>2. node.exists \in {None, Exists(entry)} /\ Exists(entry) \in BOOLEAN
    BY SeesIs DEF NodeSound
  <2> QED
    BY <1>1, <2>1, <2>2, NativeExists, NoneAssumption DEF Allowed
<1>2. CASE op # "exists" /\ node.slots[SlotOf(op)] # None
  <2>1. GetFromNode(node, op) = node.slots[SlotOf(op)]
    BY <1>2 DEF GetFromNode
  <2> QED
    BY <1>2, <2>1, HeldIsAllowed DEF NodeSound, SlotReaders
<1>3. CASE op = "open" /\ node.slots[SlotOf(op)] = None
  <2>1. GetFromNode(node, op) = IF \A s \in {"content", "stat:number", "stat:bigint"} :
                                       IsOk(node.slots[s])
                                THEN Ok("null") ELSE None
    BY <1>3 DEF GetFromNode
  <2>2. node.slots["content"] \in {None, Native(entry, "readFile")}
    <3>1. "readFile" \in SlotReaders /\ SlotOf("readFile") = "content" /\ Hard("readFile") = "readFile"
      BY DEF SlotReaders, AllOps, SlotOf, Hard
    <3> QED
      BY <3>1 DEF NodeSound, Held
  <2>3. Native(entry, "readFile").ok => Native(entry, "open") = Ok("null")
    BY DEF Native, Sees, Unseen, MissingAnswer, SoftOps, LinkOps, ListOps, Ok, Err
  <2> QED
    BY <1>3, <2>1, <2>2, <2>3 DEF IsOk, Allowed
<1>4. CASE op = "readdir" /\ node.slots[SlotOf(op)] = None
  <2>1. GetFromNode(node, op) = node.slots["entries"]
    BY <1>4 DEF GetFromNode
  <2>2. node.slots["entries"] \in {None, Native(entry, "readdirTypes")}
    <3>1. /\ "readdirTypes" \in SlotReaders /\ SlotOf("readdirTypes") = "entries"
          /\ Hard("readdirTypes") = "readdirTypes"
      BY DEF SlotReaders, AllOps, SlotOf, Hard
    <3> QED
      BY <3>1 DEF NodeSound, Held
  <2>3. Native(entry, "readdirTypes") = Native(entry, "readdir")
    BY DEF Native, Sees, Unseen, MissingAnswer, SoftOps, LinkOps, ListOps
  <2> QED
    BY <1>4, <2>1, <2>2, <2>3 DEF Allowed
<1>5. CASE op \notin {"exists", "open", "readdir"} /\ node.slots[SlotOf(op)] = None
  BY <1>5 DEF GetFromNode
<1> QED
  BY <1>1, <1>2, <1>3, <1>4, <1>5

-----------------------------------------------------------------------------
(* One archive                                                               *)

\* What a recording session has consolidated.
ArchiveSound(archive, t) ==
    /\ archive.nodes = [p \in Paths |-> archive.nodes[p]]
    /\ archive.missing = {}
    /\ \A p \in Paths : archive.nodes[p] = None \/ NodeSound(archive.nodes[p], t[p])

LEMMA EmptyIsSound == ASSUME NEW t PROVE ArchiveSound(EmptyArchive, t)
BY DEF ArchiveSound, EmptyArchive

LEMMA EmptyNodeIsSound == ASSUME NEW entry \in Entries PROVE NodeSound(EmptyNode, entry)
BY SlotIsSlot DEF NodeSound, EmptyNode, Held

LEMMA TreeEntries == ASSUME NEW t \in Trees, NEW p \in Paths PROVE t[p] \in Entries
BY DEF Trees, Entries

\* set() with what the native filesystem answered keeps an archive sound.
LEMMA SetKeepsSound ==
    ASSUME NEW t \in Trees, NEW p \in Paths, NEW op \in AllOps,
           NEW archive, ArchiveSound(archive, t)
    PROVE  ArchiveSound(Set(archive, p, op, Native(t[p], op)), t)
<1> DEFINE node == IF archive.nodes[p] # None THEN archive.nodes[p] ELSE EmptyNode
           written == WriteSlot(UpdateExistence(node, op, Native(t[p], op)), op, Native(t[p], op))
           next == Set(archive, p, op, Native(t[p], op))
<1>1. t[p] \in Entries
  BY TreeEntries
<1>2. NodeSound(node, t[p])
  BY <1>1, EmptyNodeIsSound DEF ArchiveSound
<1>3. NodeSound(written, t[p])
  <2>1. NodeSound(UpdateExistence(node, op, Native(t[p], op)), t[p])
    BY <1>1, <1>2, UpdateKeepsSound
  <2> QED
    BY <1>1, <2>1, WriteKeepsSound
<1>4. next.nodes = [archive.nodes EXCEPT ![p] = written] /\ next.missing = archive.missing \ {p}
  BY DEF Set, ArchiveSound
<1> QED
  BY <1>3, <1>4 DEF ArchiveSound

\* What an archive file may hold of a tree: the paths of its list of missing paths have no
\* target, and may be links all the same.
FileSound(archive, t) ==
    /\ archive.nodes = [p \in Paths |-> archive.nodes[p]]
    /\ archive.missing \subseteq Paths
    /\ \A p \in Paths : archive.nodes[p] = None \/ NodeSound(archive.nodes[p], t[p])
    /\ \A p \in archive.missing : ~Exists(t[p])

\* Such an archive answers only what the cache may answer, except of a link without a
\* target in its list.
LEMMA FileIsFaithful ==
    ASSUME NEW t \in Trees, NEW p \in Paths, NEW archive, FileSound(archive, t),
           p \notin archive.missing \/ t[p].kind \notin {"dangling", "loop"},
           NEW op \in AllOps
    PROVE  Lookup(archive, p, op) \in {Miss, Refused} \cup Allowed(t[p], op)
<1>1. t[p] \in Entries
  BY TreeEntries
<1>2. Get(archive, p, op) \in {None, Refused} \cup Allowed(t[p], op)
  BY <1>1, NodeAnswers DEF Get, FileSound
<1>3. KnownMissing(archive, p, op) => MissingAnswer(op) \in Allowed(t[p], op)
  <2> SUFFICES ASSUME KnownMissing(archive, p, op) PROVE ~Sees(t[p], op)
    BY DEF Allowed
  <2>1. CASE archive.nodes[p] = None
    <3>1. ~Exists(t[p]) /\ t[p].kind \notin {"dangling", "loop"}
      BY <2>1 DEF KnownMissing, FileSound
    <3> QED
      BY <3>1 DEF Exists, Sees
  <2>2. CASE archive.nodes[p] # None
    <3>1. NodeSound(archive.nodes[p], t[p])
      BY <2>2 DEF FileSound
    <3>2. IF op \in LinkOps THEN archive.nodes[p].linkExists = FALSE
                            ELSE archive.nodes[p].exists = FALSE
      BY <2>2 DEF KnownMissing
    <3>3. IF op \in LinkOps THEN ~LinkExists(t[p]) ELSE ~Exists(t[p])
      BY <3>1, <3>2, NoneAssumption DEF NodeSound
    <3> QED
      BY <1>1, <3>3, SeesIs
  <2> QED
    BY <2>1, <2>2
<1>4. CASE Get(archive, p, op) = None
  BY <1>3, <1>4 DEF Lookup, IsOk
<1>5. CASE Get(archive, p, op) # None
  BY <1>2, <1>5 DEF Lookup
<1> QED
  BY <1>4, <1>5

LEMMA SoundIsFaithful ==
    ASSUME NEW t \in Trees, NEW p \in Paths, NEW archive, ArchiveSound(archive, t)
    PROVE  Faithful(archive, p, t[p])
<1>1. FileSound(archive, t)
  BY DEF ArchiveSound, FileSound
<1> QED
  BY <1>1, FileIsFaithful, InputsAssumption DEF ArchiveSound, Faithful

-----------------------------------------------------------------------------
(* The specification                                                         *)

\* An awaited answer belongs to the session that asked for it, and is still right
\* when it arrives.
PendingSound(w) ==
    pending[w] # None =>
        /\ session[w].mode # "none"
        /\ pending[w].path \in Paths
        /\ pending[w].op \in AllOps
        /\ pending[w].outcome = Native(tree[pending[w].path], pending[w].op)

\* A worker that flushes has a recording session, and awaits nothing.
Flushing(w) ==
    flush[w].at # "none" => session[w].mode = "record" /\ pending[w] = None

FsInv ==
    /\ tree \in Trees
    /\ session = [w \in Workers |-> [mode |-> session[w].mode, archive |-> session[w].archive]]
    /\ pending = [w \in Workers |-> pending[w]]
    /\ flush = [w \in Workers |-> [at |-> flush[w].at, base |-> flush[w].base]]
    /\ \A w \in Workers :
         /\ session[w].mode = "record" => ArchiveSound(session[w].archive, tree)
         /\ PendingSound(w)
         /\ Flushing(w)

LEMMA FsInvInit == Init => FsInv
<1> SUFFICES ASSUME Init PROVE FsInv
  OBVIOUS
<1>1. \A w \in Workers : session[w].mode = "none" /\ pending[w] = None /\ flush[w].at = "none"
  BY DEF Init, NoSession, NoFlush
<1>2. session = [w \in Workers |-> [mode |-> session[w].mode, archive |-> session[w].archive]]
  BY DEF Init, NoSession
<1>3. flush = [w \in Workers |-> [at |-> flush[w].at, base |-> flush[w].base]]
  BY DEF Init, NoFlush
<1> QED
  BY <1>1, <1>2, <1>3 DEF Init, FsInv, PendingSound, Flushing

\* Each step of one worker leaves the others what they had.
OneWorker(w) ==
    /\ session' = [session EXCEPT ![w] = session'[w]]
    /\ pending' = [pending EXCEPT ![w] = pending'[w]]
    /\ flush' = [flush EXCEPT ![w] = flush'[w]]
    /\ session'[w] = [mode |-> session'[w].mode, archive |-> session'[w].archive]
    /\ flush'[w] = [at |-> flush'[w].at, base |-> flush'[w].base]

\* The workers besides one.
LEMMA TheOthers ==
    ASSUME FsInv, NEW w \in Workers, OneWorker(w), NEW v \in Workers \ {w}
    PROVE  session'[v] = session[v] /\ pending'[v] = pending[v] /\ flush'[v] = flush[v]
BY DEF FsInv, OneWorker

LEMMA SessionStep ==
    ASSUME FsInv, NEW w \in Workers, OneWorker(w),
           session'[w].mode = "record" => ArchiveSound(session'[w].archive, tree),
           session'[w].mode = "none" => pending'[w] = None,
           flush'[w].at # "none" => session'[w].mode = "record" /\ pending'[w] = None,
           pending'[w] \in {pending[w], None},
           UNCHANGED tree
    PROVE  FsInv'
<1>1. session' = [v \in Workers |-> [mode |-> session'[v].mode, archive |-> session'[v].archive]]
  <2>1. /\ session' = [v \in Workers |-> session'[v]]
        /\ \A v \in Workers :
             session'[v] = [mode |-> session'[v].mode, archive |-> session'[v].archive]
    BY TheOthers DEF FsInv, OneWorker
  <2> QED
    BY <2>1
<1>3. pending' = [v \in Workers |-> pending'[v]]
  BY DEF FsInv, OneWorker
<1>4. flush' = [v \in Workers |-> [at |-> flush'[v].at, base |-> flush'[v].base]]
  <2>1. /\ flush' = [v \in Workers |-> flush'[v]]
        /\ \A v \in Workers : flush'[v] = [at |-> flush'[v].at, base |-> flush'[v].base]
    BY TheOthers DEF FsInv, OneWorker
  <2> QED
    BY <2>1
<1>2. ASSUME NEW v \in Workers
      PROVE  /\ session'[v].mode = "record" => ArchiveSound(session'[v].archive, tree)
             /\ PendingSound(v)'
             /\ Flushing(v)'
  <2>1. CASE v = w
    BY <2>1 DEF FsInv, PendingSound, Flushing
  <2>2. CASE v # w
    BY <2>2, TheOthers DEF FsInv, PendingSound, Flushing
  <2> QED
    BY <2>1, <2>2
<1> QED
  BY <1>1, <1>2, <1>3, <1>4 DEF FsInv, ArchiveSound

\* The same where a recording session gets another sound archive.
LEMMA RecordsMore ==
    ASSUME FsInv, NEW w \in Workers, Recording(w),
           NEW archive, ArchiveSound(archive, tree),
           session' = [session EXCEPT ![w].archive = archive],
           pending' = [pending EXCEPT ![w] = pending'[w]],
           pending'[w] \in {pending[w], None},
           UNCHANGED <<tree, flush>>
    PROVE  FsInv' /\ OneWorker(w)
<1>1. /\ session' = [session EXCEPT ![w] = session'[w]]
      /\ session'[w] = [mode |-> "record", archive |-> archive]
  BY DEF FsInv, Recording
<1>2. OneWorker(w)
  BY <1>1 DEF OneWorker, FsInv
<1>3. ArchiveSound(session'[w].archive, tree) /\ session'[w].mode # "none" /\ flush'[w].at = "none"
  BY <1>1 DEF Recording
<1> QED
  BY <1>1, <1>2, <1>3, SessionStep

\* What opening a file captures of it keeps the archive sound.
LEMMA CaptureKeepsSound ==
    ASSUME tree \in Trees, NEW p \in Paths, NEW archive, ArchiveSound(archive, tree), NEW fstats
    PROVE  ArchiveSound(CaptureOpenedFile(archive, p, fstats), tree)
<1>1. {"readFile", "stat", "statBigint"} \subseteq AllOps
  BY DEF AllOps
<1>2. ASSUME NEW known, ArchiveSound(known, tree), NEW op \in {"readFile", "stat", "statBigint"}
      PROVE  ArchiveSound(SetUnlessKnown(known, p, op, Native(tree[p], op)), tree)
  BY <1>1, <1>2, SetKeepsSound DEF SetUnlessKnown
<1> DEFINE withContent == SetUnlessKnown(archive, p, "readFile", Native(tree[p], "readFile"))
           withStat == IF "stat" \in fstats
                       THEN SetUnlessKnown(withContent, p, "stat", Native(tree[p], "stat"))
                       ELSE withContent
<1>3. ArchiveSound(withContent, tree)
  BY <1>2
<1>4. ArchiveSound(withStat, tree)
  BY <1>2, <1>3
<1>5. ArchiveSound(SetUnlessKnown(withStat, p, "statBigint", Native(tree[p], "statBigint")), tree)
  BY <1>2, <1>4
<1> QED
  BY <1>4, <1>5 DEF CaptureOpenedFile

\* A step of the flush of a worker leaves its session, or ends it.
LEMMA FlushStep ==
    ASSUME FsInv, NEW w \in Workers, Flushes(w)
    PROVE  FsInv' /\ OneWorker(w) /\ UNCHANGED <<tree, pending>>
             /\ (flush'[w].at # "none" => flush[w].at # "none" /\ UNCHANGED session)
             /\ (flush'[w].at = "none" => session'[w].mode = "none")
<1>1. /\ session[w] = [mode |-> session[w].mode, archive |-> session[w].archive]
      /\ flush[w] = [at |-> flush[w].at, base |-> flush[w].base]
      /\ session[w].mode = "record" => ArchiveSound(session[w].archive, tree)
      /\ PendingSound(w) /\ Flushing(w)
  BY DEF FsInv
<1>2. UNCHANGED <<tree, pending>> /\ flush[w].at # "none"
  BY DEF Flushes, OpenLock, JudgeLock, BreakLock, Load, Rename, FlushFails, Unlock
<1>3. CASE Unlock(w)
  <2>1. /\ session' = [session EXCEPT ![w] = NoSession]
        /\ flush' = [flush EXCEPT ![w] = NoFlush]
    BY <1>3 DEF Unlock
  <2>2. OneWorker(w) /\ session'[w].mode = "none" /\ flush'[w].at = "none"
    BY <1>2, <2>1 DEF OneWorker, FsInv, NoSession, NoFlush
  <2>3. pending'[w] = pending[w] /\ pending[w] = None
    BY <1>1, <1>2 DEF Flushing
  <2> QED
    BY <1>2, <2>2, <2>3, SessionStep
<1>4. CASE ~Unlock(w)
  <2>1. /\ session' = session
        /\ flush' = [flush EXCEPT ![w] = flush'[w]]
        /\ flush'[w] = [at |-> flush'[w].at, base |-> flush'[w].base]
        /\ flush'[w].at # "none"
    BY <1>1, <1>4 DEF Flushes, OpenLock, JudgeLock, BreakLock, Load, Rename, FlushFails, Leaving, FsInv
  <2>2. OneWorker(w)
    BY <1>1, <1>2, <2>1 DEF OneWorker, FsInv
  <2>3. session'[w] = session[w] /\ session[w].mode = "record" /\ pending'[w] = None
    BY <1>1, <1>2, <2>1 DEF Flushing
  <2> QED
    BY <1>1, <1>2, <2>1, <2>2, <2>3, SessionStep
<1> QED
  BY <1>3, <1>4

LEMMA FsInvStep == FsInv /\ [Next]_vars => FsInv'
<1> SUFFICES ASSUME FsInv, [Next]_vars PROVE FsInv'
  OBVIOUS
<1>0. \A w \in Workers :
          /\ session[w] = [mode |-> session[w].mode, archive |-> session[w].archive]
          /\ flush[w] = [at |-> flush[w].at, base |-> flush[w].base]
          /\ PendingSound(w) /\ Flushing(w)
          /\ session[w].mode = "record" => ArchiveSound(session[w].archive, tree)
  BY DEF FsInv
<1>1. ASSUME NEW w \in Workers, BeginAnalysis(w) PROVE FsInv'
  <2>1. /\ session' = [session EXCEPT ![w] = session'[w]]
        /\ session'[w] \in {[mode |-> "record", archive |-> EmptyArchive],
                           [mode |-> "replay", archive |-> disk]}
    BY <1>1 DEF BeginAnalysis, FsInv
  <2>2. UNCHANGED <<tree, pending, flush>>
    BY <1>1 DEF BeginAnalysis, fileVars
  <2>3. session'[w].mode = "record" => ArchiveSound(session'[w].archive, tree)
    BY <2>1, EmptyIsSound
  <2>4. flush'[w].at = "none" /\ session'[w].mode # "none"
    <3>1. session[w].mode = "none" /\ flush'[w] = flush[w]
      BY <1>1, <2>2 DEF BeginAnalysis
    <3>2. flush[w].at = "none"
      BY <1>0, <3>1 DEF Flushing
    <3>3. session'[w].mode \in {"record", "replay"}
      BY <2>1
    <3> QED
      BY <3>1, <3>2, <3>3
  <2>5. session'[w] = [mode |-> session'[w].mode, archive |-> session'[w].archive]
    BY <2>1
  <2>6. OneWorker(w) /\ pending'[w] = pending[w]
    BY <2>1, <2>2, <2>5 DEF OneWorker, FsInv
  <2> QED
    BY <2>2, <2>3, <2>4, <2>6, SessionStep
<1>2. ASSUME NEW w \in Workers, AsyncResult(w) PROVE FsInv'
  <2>1. PendingSound(w) /\ pending[w] # None /\ tree \in Trees
    BY <1>2 DEF AsyncResult, FsInv
  <2>2. /\ pending' = [pending EXCEPT ![w] = pending'[w]]
        /\ pending'[w] = None
        /\ UNCHANGED <<tree, flush>>
    BY <1>2 DEF AsyncResult, FsInv, fileVars
  <2>3. CASE session' # session
    <3> DEFINE archive == Set(session[w].archive, pending[w].path, pending[w].op,
                              pending[w].outcome)
    <3>1. Recording(w) /\ session' = [session EXCEPT ![w].archive = archive]
      BY <1>2, <2>3 DEF AsyncResult
    <3>2. ArchiveSound(archive, tree)
      BY <1>0, <2>1, <3>1, SetKeepsSound DEF PendingSound, Recording
    <3> HIDE DEF archive
    <3> QED
      BY <2>2, <3>1, <3>2, RecordsMore
  <2>4. CASE session' = session
    <3>1. OneWorker(w)
      BY <1>0, <2>2, <2>4 DEF OneWorker, FsInv
    <3>2. /\ session'[w] = session[w] /\ flush'[w] = flush[w]
          /\ flush'[w].at # "none" => session'[w].mode = "record"
      BY <1>0, <2>2, <2>4 DEF Flushing
    <3> QED
      BY <1>0, <2>2, <3>1, <3>2, SessionStep
  <2> QED
    BY <2>3, <2>4
<1>3. ASSUME NEW w \in Workers, End(w) \/ EndUnwritten(w) PROVE FsInv'
  <2>1. /\ pending' = [pending EXCEPT ![w] = pending'[w]]
        /\ pending'[w] = None
        /\ UNCHANGED tree
    BY <1>3 DEF End, EndUnwritten, FsInv
  <2>2. CASE session'[w].mode = "record"
    <3>1. /\ End(w) /\ session' = session /\ session'[w] = session[w]
          /\ flush' = [flush EXCEPT ![w] = flush'[w]]
          /\ flush'[w] = Waiting
      BY <1>3, <2>2 DEF End, EndUnwritten, NoSession, FsInv
    <3>2. OneWorker(w)
      BY <1>0, <2>1, <3>1 DEF OneWorker, FsInv, Waiting
    <3> QED
      BY <1>0, <2>1, <2>2, <3>1, <3>2, SessionStep
  <2>3. CASE session'[w].mode # "record"
    <3>1. /\ session' = [session EXCEPT ![w] = NoSession]
          /\ flush' \in {flush, [flush EXCEPT ![w] = NoFlush]}
      BY <1>3, <2>3 DEF End, EndUnwritten
    <3>2. flush'[w].at = "none" /\ flush'[w] = [at |-> flush'[w].at, base |-> flush'[w].base]
      BY <1>0, <1>3, <2>3, <3>1 DEF End, EndUnwritten, NoFlush, FsInv
    <3>3. session'[w] = [mode |-> "none", archive |-> EmptyArchive]
      BY <3>1 DEF FsInv, NoSession
    <3>4. OneWorker(w)
      BY <2>1, <3>1, <3>2, <3>3 DEF OneWorker, FsInv
    <3> QED
      BY <2>1, <3>2, <3>3, <3>4, SessionStep
  <2> QED
    BY <2>2, <2>3
<1>4. ASSUME NEW w \in Workers, NEW p \in Paths, Open(w, p) PROVE FsInv'
  <2> DEFINE opened == Set(session[w].archive, p, "open", Native(tree[p], "open"))
             archive(fstats) == IF Native(tree[p], "open").ok
                                THEN CaptureOpenedFile(opened, p, fstats) ELSE opened
  <2>1. Recording(w) /\ UNCHANGED <<tree, pending, flush>> /\ tree \in Trees
    BY <1>4 DEF Open, FsInv, fileVars
  <2>2. "open" \in AllOps
    BY DEF AllOps
  <2>3. ArchiveSound(opened, tree)
    BY <1>0, <2>1, <2>2, SetKeepsSound DEF Recording
  <2>4. \A fstats : ArchiveSound(archive(fstats), tree)
    BY <2>1, <2>3, CaptureKeepsSound
  <2>5. PICK fstats : session' = [session EXCEPT ![w].archive = archive(fstats)]
    BY <1>4 DEF Open
  <2> HIDE DEF archive
  <2>6. pending' = [pending EXCEPT ![w] = pending'[w]]
    BY <2>1 DEF FsInv
  <2> QED
    BY <2>1, <2>4, <2>5, <2>6, RecordsMore
<1>5. ASSUME NEW w \in Workers, NEW p \in Paths, NEW op \in Ops, Call(w, p, op) PROVE FsInv'
  <2> DEFINE archive == Set(session[w].archive, p, op, Native(tree[p], op))
  <2>1. Recording(w) /\ UNCHANGED <<tree, pending, flush>> /\ tree \in Trees /\ op \in AllOps
    BY <1>5, InputsAssumption DEF Call, FsInv, fileVars
  <2>2. ArchiveSound(archive, tree)
    BY <1>0, <2>1, SetKeepsSound DEF Recording
  <2>3. session' = [session EXCEPT ![w].archive = archive]
    BY <1>5 DEF Call
  <2> HIDE DEF archive
  <2>4. pending' = [pending EXCEPT ![w] = pending'[w]]
    BY <2>1 DEF FsInv
  <2> QED
    BY <2>1, <2>2, <2>3, <2>4, RecordsMore
<1>6. ASSUME NEW w \in Workers, NEW p \in Paths, NEW op \in Ops, AsyncCall(w, p, op)
      PROVE  FsInv'
  <2>1. pending'[w] = [path |-> p, op |-> op, outcome |-> Native(tree[p], op)]
    BY <1>6 DEF AsyncCall, FsInv
  <2>2. session[w].mode # "none" /\ flush[w].at = "none" /\ op \in AllOps
    BY <1>6, InputsAssumption DEF AsyncCall, Recording
  <2>3. \A v \in Workers \ {w} : pending'[v] = pending[v]
    BY <1>6 DEF AsyncCall, FsInv
  <2>4. UNCHANGED <<tree, session, flush>>
    BY <1>6 DEF AsyncCall, fileVars
  <2>5. ASSUME NEW v \in Workers PROVE PendingSound(v)' /\ Flushing(v)'
    BY <2>1, <2>2, <2>3, <2>4 DEF FsInv, PendingSound, Flushing
  <2>6. pending' = [v \in Workers |-> pending'[v]]
    BY <1>6 DEF AsyncCall, FsInv
  <2> QED
    BY <2>4, <2>5, <2>6 DEF FsInv, ArchiveSound
<1>7. ASSUME Checkout PROVE FsInv'
  <2>1. /\ tree' \in Trees /\ UNCHANGED <<session, pending, flush>>
        /\ \A w \in Workers : session[w].mode = "none"
    BY <1>7 DEF Checkout, fileVars
  <2> QED
    BY <2>1 DEF FsInv, PendingSound, Flushing
<1>8. ASSUME DeleteArchive \/ UNCHANGED vars PROVE FsInv'
  <2>1. UNCHANGED <<tree, session, pending, flush>>
    BY <1>8 DEF DeleteArchive, vars
  <2> QED
    BY <2>1 DEF FsInv, PendingSound, Flushing, ArchiveSound
<1>9. ASSUME NEW w \in Workers, Flushes(w) PROVE FsInv'
  BY <1>9, FlushStep
<1> QED
  BY <1>1, <1>2, <1>3, <1>4, <1>5, <1>6, <1>7, <1>8, <1>9 DEF Next, Analyses

\* The invariant of every session, for any number of workers and paths.
THEOREM FsInvCorrect == Spec => []FsInv
<1>1. Init => FsInv
  BY FsInvInit
<1>2. FsInv /\ [Next]_vars => FsInv'
  BY FsInvStep
<1> QED
  BY <1>1, <1>2, PTL DEF Spec

\* What a recording session answers from its archive, in whatever order the
\* analysis calls the operations and its awaited reads arrive, is what the native
\* filesystem would say; only why something cannot be reached may get lost.
THEOREM RecordedAnswersAreNativeCorrect == Spec => []RecordedAnswersAreNative
<1>1. FsInv => RecordedAnswersAreNative
  BY SoundIsFaithful DEF FsInv, RecordedAnswersAreNative, Recording
<1> QED
  BY <1>1, FsInvCorrect, PTL


-----------------------------------------------------------------------------
(* The archive file                                                          *)

\* Where a node says that its file opens, it holds what these slots are for.
Captured(archive, p, slots) ==
    archive.nodes[p] # None /\ IsOk(archive.nodes[p].slots["open"]) =>
        \A s \in slots : archive.nodes[p].slots[s] # None

CapturedOf(entry) ==
    IF entry.kind = "stale" THEN {"content"} ELSE {"content", "stat:number", "stat:bigint"}

LEMMA CapturedAreSlots ==
    \A entry : CapturedOf(entry) \in SUBSET Slots /\ "content" \in CapturedOf(entry)
BY DEF CapturedOf, Slots

\* Whatever observation made the node of a missing path, it says that it is missing.
Informed(archive, p, entry) ==
    archive.nodes[p] # None /\ entry.kind = "missing" =>
        archive.nodes[p].exists = FALSE /\ \A s \in Slots : archive.nodes[p].slots[s] = None

ArchiveComplete(archive, t) ==
    \A p \in Paths : Captured(archive, p, CapturedOf(t[p])) /\ Informed(archive, p, t[p])

\* The archive file is of one tree, which is the present one while a worker records: no
\* checkout takes its place under a session.  What a flush has loaded is of it too.
FileInv ==
    /\ disk # None =>
         /\ recorded \in Trees
         /\ FileSound(disk, recorded) /\ ArchiveComplete(disk, recorded)
    /\ \A w \in Workers :
         /\ session[w].mode = "record" =>
              /\ disk # None => recorded = tree
              /\ ArchiveComplete(session[w].archive, tree)
         /\ flush[w].at # "none" =>
              FileSound(flush[w].base, tree) /\ ArchiveComplete(flush[w].base, tree)
         /\ pending[w] # None => pending[w].op # "open"

LEMMA NativeIsOutcome ==
    ASSUME NEW entry \in Entries, NEW op \in AllOps
    PROVE  Native(entry, op) \in Outcomes /\ Native(entry, op) \notin {None, Miss, Refused}
<1>1. entry.kind \in AllKinds /\ entry.version \in Versions
  BY InputsAssumption DEF Entries
<1> DEFINE codes == {"ENOENT", "EINVAL", "EACCES", "EISDIR", "ENOTDIR", "ELOOP"}
           words == {"absent", "present", "undefined", "null"}
<1>2. MissingAnswer(op) \in {Ok("absent"), Ok("undefined"), Err("ENOENT")}
  BY DEF MissingAnswer
<1>3. \/ \E value \in Versions \cup words : Native(entry, op) \in {Ok(value), OfLink(value)}
      \/ \E code \in codes : Native(entry, op) = Err(code)
  <2>1. \/ Native(entry, op) = Unseen(entry, op)
        \/ Native(entry, op) \in {Ok("present"), Ok("null"), Ok(entry.version), OfLink(entry.version)}
        \/ Native(entry, op) \in {Err("EINVAL"), Err("EACCES"), Err("EISDIR"), Err("ENOTDIR")}
    BY DEF Native
  <2>2. \/ Unseen(entry, op) = MissingAnswer(op)
        \/ Unseen(entry, op) \in {Err("EACCES"), Err("ENOTDIR"), Err("ELOOP")}
    BY DEF Unseen, Blocked
  <2> QED
    BY <1>1, <1>2, <2>1, <2>2
<1>4. ASSUME NEW value \in Versions \cup words
      PROVE  /\ Ok(value) \in Outcomes /\ Ok(value) \notin {Miss, Refused}
             /\ OfLink(value) \in Outcomes /\ OfLink(value) \notin {Miss, Refused}
  <2>1. Ok(value) \in Outcomes /\ OfLink(value) \in Outcomes
    BY DEF Ok, OfLink, Outcomes
  <2>2. Ok(value).ok /\ OfLink(value).ok /\ ~Miss.ok /\ ~Refused.ok
    BY DEF Ok, OfLink, Err, Miss, Refused
  <2> QED
    BY <2>1, <2>2
<1>5. ASSUME NEW code \in codes
      PROVE  Err(code) \in Outcomes /\ Err(code) \notin {Miss, Refused}
  BY DEF Err, Outcomes, Miss, Refused
<1>6. Native(entry, op) \in Outcomes /\ Native(entry, op) \notin {Miss, Refused}
  BY <1>3, <1>4, <1>5
<1> QED
  BY <1>6, NoneAssumption

\* The node set() starts from.
NodeFor(archive, p) == IF archive.nodes[p] # None THEN archive.nodes[p] ELSE EmptyNode

\* An answer is recorded; those that are no absence go to a slot.
Observe(archive, t, p, op) == Set(archive, p, op, Native(t[p], op))
FillsSlot(op, entry) == op # "exists" /\ ~IsMissingOutcome(op, Native(entry, op))

\* Paths do not meet in an archive.
Elsewhere(archive, next, p) == \A q \in Paths \ {p} : next.nodes[q] = archive.nodes[q]

SlotAfter(archive, t, p, op, s) ==
    Observe(archive, t, p, op).nodes[p].slots[s] =
      IF FillsSlot(op, t[p]) /\ s = SlotOf(op) THEN Native(t[p], op)
      ELSE NodeFor(archive, p).slots[s]

\* What set() does with the answer of the native filesystem: it fills at most the slot
\* of the operation, and any operation learns that a missing path is missing.
LEMMA SetWrites ==
    ASSUME NEW t \in Trees, NEW p \in Paths, NEW op \in AllOps,
           NEW archive, ArchiveSound(archive, t)
    PROVE  /\ Elsewhere(archive, Observe(archive, t, p, op), p)
           /\ \A s \in Slots : SlotAfter(archive, t, p, op, s)
           /\ t[p].kind = "missing" => Observe(archive, t, p, op).nodes[p].exists = FALSE
<1> DEFINE next == Observe(archive, t, p, op)
           node == NodeFor(archive, p)
           outcome == Native(t[p], op)
           updated == UpdateExistence(node, op, outcome)
           written == WriteSlot(updated, op, outcome)
<1>1. t[p] \in Entries
  BY TreeEntries
<1>2. NodeSound(node, t[p])
  BY <1>1, EmptyNodeIsSound DEF ArchiveSound, NodeFor
<1> HIDE DEF node
<1>3. NodeSound(updated, t[p])
  BY <1>1, <1>2, UpdateKeepsSound
<1>4. updated.slots = node.slots
  BY <1>2 DEF UpdateExistence, NodeSound
<1>5. next.nodes = [archive.nodes EXCEPT ![p] = written]
  BY DEF Observe, Set, ArchiveSound, node, NodeFor
<1> HIDE DEF next
<1>6. /\ next.nodes[p] = written
      /\ Elsewhere(archive, next, p)
  BY <1>5 DEF ArchiveSound, Elsewhere
<1>7. CASE op = "exists" \/ IsMissingOutcome(op, outcome)
  <2>1. written = updated
    BY <1>7 DEF WriteSlot
  <2>2. t[p].kind = "missing" => updated.exists = FALSE
    <3> SUFFICES ASSUME t[p].kind = "missing" PROVE updated.exists = FALSE
      OBVIOUS
    <3>1. CASE op = "exists"
      <4>1. outcome.value = "absent"
        BY <1>1, <3>1, NativeExists DEF Exists, Sees, Ok
      <4>2. updated = [node EXCEPT !.exists = FALSE, !.linkExists = @]
        BY <3>1, <4>1 DEF UpdateExistence
      <4> QED
        BY <1>2, <4>2 DEF NodeSound
    <3>2. CASE op # "exists"
      <4>1. updated = [node EXCEPT !.exists = FALSE,
                                   !.linkExists = IF op \in LinkOps THEN FALSE ELSE @]
        BY <1>7, <3>2 DEF UpdateExistence
      <4> QED
        BY <1>2, <4>1 DEF NodeSound
    <3> QED
      BY <3>1, <3>2
  <2>3. ~FillsSlot(op, t[p])
    BY <1>7 DEF FillsSlot
  <2> HIDE DEF outcome, updated, written
  <2> QED
    BY <1>4, <1>6, <2>1, <2>2, <2>3 DEF next, node, SlotAfter
<1>8. CASE op # "exists" /\ ~IsMissingOutcome(op, outcome)
  <2>1. op \in SlotReaders
    BY <1>8 DEF SlotReaders
  <2>2. t[p].kind # "missing"
    BY <1>1, <1>8, <2>1, MissingIsMissing
  <2>3. written = [updated EXCEPT !.slots[SlotOf(op)] = outcome]
    BY <1>8 DEF WriteSlot
  <2>6. FillsSlot(op, t[p])
    BY <1>8 DEF FillsSlot
  <2> HIDE DEF updated, written
  <2>4. written.slots = [updated.slots EXCEPT ![SlotOf(op)] = outcome]
    BY <1>3, <2>3 DEF NodeSound
  <2>5. \A s \in Slots : written.slots[s] = IF s = SlotOf(op) THEN outcome ELSE updated.slots[s]
    BY <1>3, <2>4 DEF NodeSound
  <2> QED
    BY <1>4, <1>6, <2>2, <2>5, <2>6 DEF next, node, SlotAfter
<1> QED
  BY <1>7, <1>8

\* An operation other than open keeps what was captured, and adds its own slot to it
\* where there is something to see.
LEMMA SetKeepsCaptured ==
    ASSUME NEW t \in Trees, NEW p \in Paths, NEW op \in AllOps \ {"open"},
           NEW archive, ArchiveSound(archive, t),
           NEW slots \in SUBSET Slots, Captured(archive, p, slots)
    PROVE  /\ Captured(Observe(archive, t, p, op), p, slots)
           /\ op # "exists" /\ Exists(t[p]) =>
                Captured(Observe(archive, t, p, op), p, slots \cup {SlotOf(op)})
<1> DEFINE next == Observe(archive, t, p, op)
           node == NodeFor(archive, p)
           sees == FillsSlot(op, t[p])
<1>1. t[p] \in Entries /\ Native(t[p], op) # None
  BY TreeEntries, NativeIsOutcome
<1>2. \A s \in Slots : next.nodes[p].slots[s] =
        IF sees /\ s = SlotOf(op) THEN Native(t[p], op) ELSE node.slots[s]
  <2>1. \A s \in Slots : SlotAfter(archive, t, p, op, s)
    BY SetWrites
  <2> QED
    BY <2>1 DEF SlotAfter
<1>3. SlotOf(op) # "open" /\ "open" \in Slots
  BY DEF SlotOf, AllOps, Slots
<1>4. IsOk(node.slots["open"]) => \A s \in slots : node.slots[s] # None
  <2>1. CASE archive.nodes[p] # None
    BY <2>1 DEF Captured, NodeFor
  <2>2. CASE archive.nodes[p] = None
    BY <1>3, <2>2 DEF EmptyNode, IsOk, NodeFor
  <2> QED
    BY <2>1, <2>2
<1>5. op # "exists" /\ Exists(t[p]) => sees /\ SlotOf(op) \in Slots
  <2> SUFFICES ASSUME op # "exists", Exists(t[p]) PROVE sees /\ SlotOf(op) \in Slots
    OBVIOUS
  <2>1. op \in SlotReaders
    BY DEF SlotReaders
  <2> QED
    BY <1>1, <2>1, SeesIs, SeenIsNotMissing, SlotIsSlot DEF FillsSlot
<1> HIDE DEF next, node, sees
<1>6. Captured(next, p, slots)
  BY <1>1, <1>2, <1>3, <1>4 DEF Captured
<1>7. op # "exists" /\ Exists(t[p]) => Captured(next, p, slots \cup {SlotOf(op)})
  BY <1>1, <1>2, <1>3, <1>4, <1>5 DEF Captured
<1> QED
  BY <1>6, <1>7 DEF next

\* set() keeps a missing path known as missing.
LEMMA SetKeepsInformed ==
    ASSUME NEW t \in Trees, NEW p \in Paths, NEW op \in AllOps,
           NEW archive, ArchiveSound(archive, t), Informed(archive, p, t[p])
    PROVE  Informed(Observe(archive, t, p, op), p, t[p])
<1> SUFFICES ASSUME t[p].kind = "missing"
             PROVE  /\ Observe(archive, t, p, op).nodes[p].exists = FALSE
                    /\ \A s \in Slots : Observe(archive, t, p, op).nodes[p].slots[s] = None
  BY DEF Informed
<1>1. ~FillsSlot(op, t[p])
  BY TreeEntries, MissingIsMissing DEF SlotReaders, FillsSlot
<1>2. \A s \in Slots : NodeFor(archive, p).slots[s] = None
  BY DEF Informed, EmptyNode, NodeFor
<1>3. /\ \A s \in Slots : SlotAfter(archive, t, p, op, s)
      /\ Observe(archive, t, p, op).nodes[p].exists = FALSE
  BY SetWrites
<1> QED
  BY <1>1, <1>2, <1>3 DEF SlotAfter

LEMMA SetKeepsComplete ==
    ASSUME NEW t \in Trees, NEW p \in Paths, NEW op \in AllOps \ {"open"},
           NEW archive, ArchiveSound(archive, t), ArchiveComplete(archive, t)
    PROVE  ArchiveComplete(Observe(archive, t, p, op), t)
<1> DEFINE next == Observe(archive, t, p, op)
<1>2. Captured(next, p, CapturedOf(t[p])) /\ Informed(next, p, t[p])
  BY CapturedAreSlots, SetKeepsCaptured, SetKeepsInformed DEF ArchiveComplete
<1>3. Elsewhere(archive, next, p)
  BY SetWrites
<1> HIDE DEF next
<1>4. ASSUME NEW q \in Paths PROVE Captured(next, q, CapturedOf(t[q])) /\ Informed(next, q, t[q])
  BY <1>2, <1>3 DEF ArchiveComplete, Captured, Informed, Elsewhere
<1> QED
  BY <1>4 DEF ArchiveComplete, next

\* One step of captureOpenedFile: what it does not set was set before.
LEMMA CaptureStep ==
    ASSUME tree \in Trees, NEW p \in Paths, NEW op \in {"readFile", "stat", "statBigint"},
           NEW archive, ArchiveSound(archive, tree), Exists(tree[p]),
           NEW slots \in SUBSET Slots, Captured(archive, p, slots)
    PROVE  LET next == SetUnlessKnown(archive, p, op, Native(tree[p], op))
           IN  /\ ArchiveSound(next, tree)
               /\ Elsewhere(archive, next, p)
               /\ Captured(next, p, slots \cup {SlotOf(op)})
<1> DEFINE next == SetUnlessKnown(archive, p, op, Native(tree[p], op))
<1>1. op \in AllOps \ {"open"} /\ op # "exists"
  BY DEF AllOps
<1>2. CASE Get(archive, p, op) = None
  <2>1. next = Observe(archive, tree, p, op)
    BY <1>2 DEF SetUnlessKnown, Observe
  <2>2. ArchiveSound(Observe(archive, tree, p, op), tree)
    BY <1>1, SetKeepsSound DEF Observe
  <2>3. Elsewhere(archive, Observe(archive, tree, p, op), p)
    BY <1>1, SetWrites
  <2>4. Captured(Observe(archive, tree, p, op), p, slots \cup {SlotOf(op)})
    BY <1>1, SetKeepsCaptured
  <2> HIDE DEF next
  <2> QED
    BY <2>1, <2>2, <2>3, <2>4 DEF next
<1>3. CASE Get(archive, p, op) # None
  <2>1. next = archive
    BY <1>3 DEF SetUnlessKnown
  <2>2. archive.nodes[p] # None /\ archive.nodes[p].slots[SlotOf(op)] # None
    BY <1>1, <1>3 DEF Get, GetFromNode
  <2> QED
    BY <2>1, <2>2 DEF Captured, Elsewhere
<1> QED
  BY <1>2, <1>3

\* Opening a file captures what its descriptor is used for, as far as fstat tells it.
LEMMA CaptureCompletes ==
    ASSUME tree \in Trees, NEW p \in Paths, NEW archive, ArchiveSound(archive, tree),
           Exists(tree[p]), NEW fstats \in Fstats(tree[p])
    PROVE  /\ Elsewhere(archive, CaptureOpenedFile(archive, p, fstats), p)
           /\ Captured(CaptureOpenedFile(archive, p, fstats), p, CapturedOf(tree[p]))
<1> DEFINE withContent == SetUnlessKnown(archive, p, "readFile", Native(tree[p], "readFile"))
           withStat == IF "stat" \in fstats
                       THEN SetUnlessKnown(withContent, p, "stat", Native(tree[p], "stat"))
                       ELSE withContent
           withBoth == IF "statBigint" \in fstats
                       THEN SetUnlessKnown(withStat, p, "statBigint", Native(tree[p], "statBigint"))
                       ELSE withStat
           stats == IF "stat" \in fstats THEN {"content", "stat:number"} ELSE {"content"}
           both == IF "statBigint" \in fstats THEN stats \cup {"stat:bigint"} ELSE stats
<1>1. /\ SlotOf("readFile") = "content" /\ SlotOf("stat") = "stat:number"
      /\ SlotOf("statBigint") = "stat:bigint"
  BY DEF SlotOf
<1>2. Captured(archive, p, {})
  BY DEF Captured
<1>3. /\ ArchiveSound(withContent, tree) /\ Elsewhere(archive, withContent, p)
      /\ Captured(withContent, p, {"content"})
  BY <1>1, <1>2, CaptureStep
<1>4. {"content"} \in SUBSET Slots /\ stats \in SUBSET Slots
  BY DEF Slots
<1> HIDE DEF withContent
<1>5. /\ ArchiveSound(withStat, tree) /\ Elsewhere(withContent, withStat, p)
      /\ Captured(withStat, p, stats)
  <2>1. CASE "stat" \in fstats
    <3>1. Captured(withStat, p, {"content"} \cup {"stat:number"})
      BY <1>1, <1>3, <1>4, <2>1, CaptureStep
    <3>2. ArchiveSound(withStat, tree) /\ Elsewhere(withContent, withStat, p)
      BY <1>3, <1>4, <2>1, CaptureStep
    <3> HIDE DEF withStat
    <3> QED
      BY <2>1, <3>1, <3>2 DEF Captured
  <2>2. CASE "stat" \notin fstats
    BY <1>3, <2>2 DEF Elsewhere
  <2> QED
    BY <2>1, <2>2
<1> HIDE DEF withStat, stats
<1>6. /\ Elsewhere(withStat, withBoth, p)
      /\ Captured(withBoth, p, both)
  <2>1. CASE "statBigint" \in fstats
    BY <1>1, <1>4, <1>5, <2>1, CaptureStep
  <2>2. CASE "statBigint" \notin fstats
    BY <1>5, <2>2 DEF Elsewhere
  <2> QED
    BY <2>1, <2>2
<1>7. CaptureOpenedFile(archive, p, fstats) = withBoth
  BY DEF CaptureOpenedFile, withContent, withStat
<1>8. CapturedOf(tree[p]) \subseteq both
  BY DEF CapturedOf, Fstats, stats
<1> HIDE DEF withBoth, both
<1> QED
  BY <1>3, <1>5, <1>6, <1>7, <1>8 DEF Elsewhere, Captured

\* openSync: where the file opens it is captured, and elsewhere its slot holds no success.
LEMMA OpenKeepsComplete ==
    ASSUME tree \in Trees, NEW p \in Paths, NEW archive, ArchiveSound(archive, tree),
           ArchiveComplete(archive, tree), NEW fstats \in Fstats(tree[p])
    PROVE  LET opened == Observe(archive, tree, p, "open")
           IN  ArchiveComplete(IF Native(tree[p], "open").ok
                               THEN CaptureOpenedFile(opened, p, fstats) ELSE opened, tree)
<1> DEFINE opened == Observe(archive, tree, p, "open")
           next == IF Native(tree[p], "open").ok THEN CaptureOpenedFile(opened, p, fstats)
                                                 ELSE opened
<1>1. "open" \in AllOps /\ "open" \in SlotReaders /\ SlotOf("open") = "open"
  BY DEF AllOps, SlotReaders, SlotOf
<1>2. ArchiveSound(opened, tree)
  BY <1>1, SetKeepsSound DEF Observe
<1>3. Elsewhere(archive, opened, p)
  BY <1>1, SetWrites
<1>4. Informed(opened, p, tree[p])
  BY <1>1, SetKeepsInformed DEF ArchiveComplete
<1> HIDE DEF opened
<1>5. /\ Elsewhere(archive, next, p)
      /\ Captured(next, p, CapturedOf(tree[p]))
      /\ Informed(next, p, tree[p])
  <2>1. CASE Native(tree[p], "open").ok
    <3>1. Exists(tree[p])
      BY <2>1 DEF Native, Unseen, Sees, MissingAnswer, SoftOps, LinkOps, ListOps, Err, Exists
    <3>2. /\ Elsewhere(opened, CaptureOpenedFile(opened, p, fstats), p)
          /\ Captured(CaptureOpenedFile(opened, p, fstats), p, CapturedOf(tree[p]))
      BY <1>2, <3>1, CaptureCompletes
    <3> QED
      BY <1>3, <2>1, <3>1, <3>2 DEF Elsewhere, Informed, Exists, Sees
  <2>2. CASE ~Native(tree[p], "open").ok
    <3>1. opened.nodes[p] # None =>
              opened.nodes[p].slots["open"] \in {None, Native(tree[p], "open")}
      <4>1. opened.nodes[p] # None => opened.nodes[p].slots[SlotOf("open")] \in Held(tree[p], "open")
        BY <1>1, <1>2 DEF ArchiveSound, NodeSound
      <4>2. Hard("open") = "open"
        BY DEF Hard
      <4> QED
        BY <1>1, <4>1, <4>2 DEF Held
    <3> QED
      BY <1>3, <1>4, <2>2, <3>1 DEF Captured, IsOk
  <2> QED
    BY <2>1, <2>2
<1> HIDE DEF next
<1>6. ASSUME NEW q \in Paths PROVE Captured(next, q, CapturedOf(tree[q])) /\ Informed(next, q, tree[q])
  BY <1>5 DEF ArchiveComplete, Captured, Informed, Elsewhere
<1> QED
  BY <1>6 DEF ArchiveComplete, next, opened

-----------------------------------------------------------------------------
(* A flush                                                                   *)

\* The merge of two archives, before absences alone become missing paths.
Joined(base, own) ==
    [nodes   |-> [p \in Paths |->
                    CASE own.nodes[p] = None -> base.nodes[p]
                      [] own.nodes[p] # None /\ base.nodes[p] = None -> own.nodes[p]
                      [] OTHER -> MergeNodes(base.nodes[p], own.nodes[p])],
     missing |-> {p \in base.missing : own.nodes[p] = None}]

LEMMA MergedIsCompacted == \A base, own : Merged(base, own) = Compact(Joined(base, own))
BY DEF Merged, Joined

\* Two sound nodes of one path make a sound one, which knows what either of them knows.
LEMMA MergeKeepsSound ==
    ASSUME NEW entry \in Entries, NEW base, NodeSound(base, entry),
           NEW own, NodeSound(own, entry)
    PROVE  NodeSound(MergeNodes(base, own), entry)
<1> DEFINE node == MergeNodes(base, own)
<1>1. /\ node = [exists |-> node.exists, linkExists |-> node.linkExists, slots |-> node.slots]
      /\ node.slots = [s \in Slots |-> node.slots[s]]
      /\ node.exists \in {base.exists, own.exists}
      /\ node.linkExists \in {base.linkExists, own.linkExists}
      /\ \A s \in Slots : node.slots[s] \in {base.slots[s], own.slots[s]}
  BY DEF MergeNodes
<1>2. \A op \in SlotReaders : node.slots[SlotOf(op)] \in Held(entry, op)
  BY <1>1, SlotIsSlot DEF NodeSound
<1> HIDE DEF node
<1> QED
  BY <1>1, <1>2 DEF NodeSound, node

\* Where the nodes of a merge come from.
LEMMA JoinedNode ==
    ASSUME NEW base, NEW own, NEW p \in Paths
    PROVE  /\ own.nodes[p] = None => Joined(base, own).nodes[p] = base.nodes[p]
           /\ own.nodes[p] # None /\ base.nodes[p] = None =>
                  Joined(base, own).nodes[p] = own.nodes[p]
           /\ own.nodes[p] # None /\ base.nodes[p] # None =>
                  Joined(base, own).nodes[p] = MergeNodes(base.nodes[p], own.nodes[p])
BY DEF Joined

LEMMA JoinKeepsSound ==
    ASSUME NEW t \in Trees, NEW base, FileSound(base, t), NEW own, ArchiveSound(own, t)
    PROVE  FileSound(Joined(base, own), t)
<1> DEFINE joined == Joined(base, own)
<1>1. ASSUME NEW p \in Paths PROVE joined.nodes[p] = None \/ NodeSound(joined.nodes[p], t[p])
  <2>1. base.nodes[p] = None \/ NodeSound(base.nodes[p], t[p])
    BY DEF FileSound
  <2>2. own.nodes[p] = None \/ NodeSound(own.nodes[p], t[p])
    BY DEF ArchiveSound
  <2> HIDE DEF joined
  <2> QED
    BY <2>1, <2>2, JoinedNode, MergeKeepsSound, TreeEntries DEF joined
<1>2. joined.nodes = [p \in Paths |-> joined.nodes[p]] /\ joined.missing \subseteq base.missing
  BY DEF Joined
<1> HIDE DEF joined
<1> QED
  BY <1>1, <1>2 DEF FileSound, joined

LEMMA JoinKeepsComplete ==
    ASSUME NEW t, NEW base, ArchiveComplete(base, t), NEW own, ArchiveComplete(own, t)
    PROVE  ArchiveComplete(Joined(base, own), t)
<1> DEFINE joined == Joined(base, own)
<1>1. (\A entry : CapturedOf(entry) \subseteq Slots) /\ "open" \in Slots
  BY CapturedAreSlots DEF Slots
<1>2. ASSUME NEW p \in Paths
      PROVE  Captured(joined, p, CapturedOf(t[p])) /\ Informed(joined, p, t[p])
  <2>1. /\ Captured(base, p, CapturedOf(t[p])) /\ Informed(base, p, t[p])
        /\ Captured(own, p, CapturedOf(t[p])) /\ Informed(own, p, t[p])
    BY DEF ArchiveComplete
  <2>2. CASE own.nodes[p] = None \/ base.nodes[p] = None
    <3>1. joined.nodes[p] \in {base.nodes[p], own.nodes[p]}
      BY <2>2, JoinedNode
    <3> HIDE DEF joined
    <3> QED
      BY <2>1, <3>1 DEF Captured, Informed
  <2>3. CASE own.nodes[p] # None /\ base.nodes[p] # None
    <3>1. joined.nodes[p] = MergeNodes(base.nodes[p], own.nodes[p])
      BY <2>3, JoinedNode
    <3> HIDE DEF joined
    <3>2. \A s \in Slots : joined.nodes[p].slots[s] =
             IF own.nodes[p].slots[s] = None THEN base.nodes[p].slots[s]
                                             ELSE own.nodes[p].slots[s]
      BY <3>1 DEF MergeNodes
    <3>3. joined.nodes[p].exists \in {base.nodes[p].exists, own.nodes[p].exists}
      BY <3>1 DEF MergeNodes
    <3>4. Captured(joined, p, CapturedOf(t[p]))
      BY <1>1, <2>1, <2>3, <3>2 DEF Captured, IsOk
    <3>5. Informed(joined, p, t[p])
      BY <2>1, <2>3, <3>2, <3>3 DEF Informed
    <3> QED
      BY <3>4, <3>5
  <2> QED
    BY <2>2, <2>3
<1> HIDE DEF joined
<1> QED
  BY <1>2 DEF ArchiveComplete, joined

\* What remains of a node of which only the absence was known is a missing path.
LEMMA CompactNode ==
    ASSUME NEW archive, NEW p \in Paths
    PROVE  Compact(archive).nodes[p] = IF archive.nodes[p] = OnlyMissing THEN None
                                                                     ELSE archive.nodes[p]
BY DEF Compact

LEMMA CompactKeepsSound ==
    ASSUME NEW t \in Trees, NEW archive, FileSound(archive, t)
    PROVE  FileSound(Compact(archive), t)
<1> DEFINE next == Compact(archive)
<1>1. OnlyMissing.exists = FALSE
  BY DEF OnlyMissing, EmptyNode
<1>2. ASSUME NEW p \in Paths, archive.nodes[p] = OnlyMissing PROVE ~Exists(t[p])
  <2>1. OnlyMissing # None
    <3>1. OnlyMissing \in Nodes
      <4> HIDE DEF next
      <4>1. EmptyNode \in Nodes
        BY DEF EmptyNode, Nodes
      <4> QED
        BY <4>1 DEF OnlyMissing, Nodes
    <3> QED
      BY <3>1, NoneAssumption
  <2> QED
    BY <1>1, <1>2, <2>1, NoneAssumption DEF FileSound, NodeSound
<1>3. /\ next.nodes = [p \in Paths |-> next.nodes[p]]
      /\ next.missing = archive.missing \cup {p \in Paths : archive.nodes[p] = OnlyMissing}
  BY DEF Compact
<1>4. \A p \in Paths : next.nodes[p] \in {None, archive.nodes[p]}
  BY CompactNode
<1> HIDE DEF next
<1> QED
  BY <1>2, <1>3, <1>4 DEF FileSound, next

LEMMA CompactKeepsComplete ==
    ASSUME NEW t, NEW archive, ArchiveComplete(archive, t)
    PROVE  ArchiveComplete(Compact(archive), t)
<1>1. \A p \in Paths : Compact(archive).nodes[p] \in {None, archive.nodes[p]}
  BY CompactNode
<1> QED
  BY <1>1 DEF ArchiveComplete, Captured, Informed

LEMMA EmptyFile == ASSUME NEW t PROVE FileSound(EmptyArchive, t) /\ ArchiveComplete(EmptyArchive, t)
BY DEF EmptyArchive, FileSound, ArchiveComplete, Captured, Informed

\* A flush leaves a file of the tree both archives are of.
LEMMA MergedKeeps ==
    ASSUME NEW t \in Trees,
           NEW base, FileSound(base, t), ArchiveComplete(base, t),
           NEW own, ArchiveSound(own, t), ArchiveComplete(own, t)
    PROVE  FileSound(Merged(base, own), t) /\ ArchiveComplete(Merged(base, own), t)
<1> DEFINE joined == Joined(base, own)
<1>1. FileSound(joined, t)
  BY JoinKeepsSound
<1>2. ArchiveComplete(joined, t)
  BY JoinKeepsComplete
<1>3. Merged(base, own) = Compact(joined)
  BY MergedIsCompacted
<1> HIDE DEF joined
<1> QED
  BY <1>1, <1>2, <1>3, CompactKeepsSound, CompactKeepsComplete

-----------------------------------------------------------------------------
(* The archive file under the sessions                                       *)

LEMMA FileInvInit == Init => FileInv
BY DEF Init, NoSession, NoFlush, FileInv

\* A step of one session that does not touch the file.
LEMMA FileSessionStep ==
    ASSUME FsInv, FileInv, NEW w \in Workers, OneWorker(w),
           UNCHANGED <<tree, disk, recorded>>,
           session'[w].mode = "record" =>
               /\ ArchiveComplete(session'[w].archive, tree)
               /\ disk # None => session[w].mode = "record",
           flush'[w].at # "none" =>
               FileSound(flush'[w].base, tree) /\ ArchiveComplete(flush'[w].base, tree),
           pending'[w] # None => pending'[w].op # "open"
    PROVE  FileInv'
<1>1. disk' # None => /\ recorded' \in Trees
                      /\ FileSound(disk', recorded') /\ ArchiveComplete(disk', recorded')
  BY DEF FileInv
<1>2. ASSUME NEW v \in Workers
      PROVE  /\ session'[v].mode = "record" =>
                  /\ disk' # None => recorded' = tree'
                  /\ ArchiveComplete(session'[v].archive, tree')
             /\ flush'[v].at # "none" =>
                  FileSound(flush'[v].base, tree') /\ ArchiveComplete(flush'[v].base, tree')
             /\ pending'[v] # None => pending'[v].op # "open"
  <2>1. CASE v = w
    BY <2>1 DEF FileInv
  <2>2. CASE v # w
    BY <2>2, TheOthers DEF FileInv
  <2> QED
    BY <2>1, <2>2
<1> HIDE DEF FileSound, ArchiveComplete
<1> QED
  BY <1>1, <1>2 DEF FileInv, FileSound, ArchiveComplete, Captured, Informed

\* The same where a recording session gets another complete archive.
LEMMA FileRecordsMore ==
    ASSUME FsInv, FileInv, NEW w \in Workers, Recording(w), OneWorker(w),
           UNCHANGED <<tree, disk, recorded, flush>>,
           NEW archive, ArchiveComplete(archive, tree),
           session' = [session EXCEPT ![w].archive = archive],
           pending'[w] \in {pending[w], None}
    PROVE  FileInv'
<1>1. session'[w].archive = archive
  BY DEF FsInv
<1>2. pending'[w] # None => pending'[w].op # "open"
  BY DEF FileInv
<1>3. session[w].mode = "record" /\ flush'[w].at = "none"
  BY DEF Recording
<1> QED
  BY <1>1, <1>2, <1>3, FileSessionStep

\* A step of a flush: loading takes the file, renaming replaces it.
LEMMA FileFlushStep ==
    ASSUME FsInv, FileInv, NEW w \in Workers, Flushes(w)
    PROVE  FileInv'
<1> DEFINE own == session[w].archive
           base == flush[w].base
<1>1. /\ OneWorker(w) /\ UNCHANGED <<tree, pending>>
      /\ flush'[w].at # "none" => flush[w].at # "none" /\ UNCHANGED session
      /\ flush'[w].at = "none" => session'[w].mode = "none"
  BY FlushStep
<1>2. flush[w].at # "none"
  BY DEF Flushes, OpenLock, JudgeLock, BreakLock, Load, Rename, FlushFails, Unlock
<1>3. /\ tree \in Trees /\ session[w].mode = "record"
      /\ ArchiveSound(own, tree) /\ ArchiveComplete(own, tree)
      /\ FileSound(base, tree) /\ ArchiveComplete(base, tree)
      /\ disk # None => recorded = tree
  BY <1>2 DEF FsInv, FileInv, Flushing
<1>4. pending'[w] # None => pending'[w].op # "open"
  BY <1>1 DEF FileInv
<1>5. FileSound(EmptyArchive, tree) /\ ArchiveComplete(EmptyArchive, tree)
  BY EmptyFile
<1>6. CASE Rename(w)
  <2>1. /\ disk' = Merged(base, own) /\ recorded' = tree
        /\ UNCHANGED <<tree, session, pending>>
    BY <1>6 DEF Rename
  <2>2. flush'[w].base = EmptyArchive
    BY <1>6 DEF Rename, Leaving, FsInv
  <2> HIDE DEF base, own
  <2>3. FileSound(disk', recorded') /\ ArchiveComplete(disk', recorded')
    BY <1>3, <2>1, MergedKeeps
  <2>4. ASSUME NEW v \in Workers
        PROVE  /\ session'[v].mode = "record" =>
                    recorded' = tree' /\ ArchiveComplete(session'[v].archive, tree')
               /\ flush'[v].at # "none" =>
                    FileSound(flush'[v].base, tree') /\ ArchiveComplete(flush'[v].base, tree')
               /\ pending'[v] # None => pending'[v].op # "open"
    <3>1. CASE v = w
      BY <1>3, <1>4, <1>5, <2>1, <2>2, <3>1 DEF own
    <3>2. CASE v # w
      BY <1>1, <2>1, <3>2, TheOthers DEF FileInv
    <3> QED
      BY <3>1, <3>2
  <2>5. recorded' \in Trees
    BY <1>3, <2>1
  <2> QED
    BY <2>3, <2>4, <2>5 DEF FileInv, FileSound, ArchiveComplete, Captured, Informed
<1>7. CASE ~Rename(w)
  <2>1. UNCHANGED <<disk, recorded>>
    BY <1>7 DEF Flushes, OpenLock, JudgeLock, BreakLock, Load, FlushFails, Unlock
  <2>2. /\ flush'[w].base \in {base, EmptyArchive, disk}
        /\ flush'[w].base = disk => disk # None \/ base = disk \/ EmptyArchive = disk
    BY <1>7 DEF Flushes, OpenLock, JudgeLock, BreakLock, Load, FlushFails, Unlock, Leaving, NoFlush, FsInv
  <2>3. disk # None => FileSound(disk, tree) /\ ArchiveComplete(disk, tree)
    BY <1>3 DEF FileInv
  <2>4. FileSound(flush'[w].base, tree) /\ ArchiveComplete(flush'[w].base, tree)
    BY <1>3, <1>5, <2>2, <2>3
  <2>5. session'[w].mode = "record" =>
            session[w].mode = "record" /\ ArchiveComplete(session'[w].archive, tree)
    BY <1>1, <1>3
  <2> QED
    BY <1>1, <1>4, <2>1, <2>4, <2>5, FileSessionStep
<1> QED
  BY <1>6, <1>7

LEMMA FileInvStep == FsInv /\ FileInv /\ [Next]_vars => FileInv'
<1> SUFFICES ASSUME FsInv, FileInv, [Next]_vars PROVE FileInv'
  OBVIOUS
<1>0. \A w \in Workers :
          /\ session[w] = [mode |-> session[w].mode, archive |-> session[w].archive]
          /\ flush[w] = [at |-> flush[w].at, base |-> flush[w].base]
          /\ PendingSound(w) /\ Flushing(w)
          /\ session[w].mode = "record" => /\ ArchiveSound(session[w].archive, tree)
                                           /\ ArchiveComplete(session[w].archive, tree)
          /\ flush[w].at # "none" =>
                FileSound(flush[w].base, tree) /\ ArchiveComplete(flush[w].base, tree)
          /\ pending[w] # None => pending[w].op # "open"
  BY DEF FsInv, FileInv
<1>1. ASSUME NEW w \in Workers, BeginAnalysis(w) PROVE FileInv'
  <2>1. /\ session' = [session EXCEPT ![w] = session'[w]]
        /\ session'[w] = IF disk = None THEN [mode |-> "record", archive |-> EmptyArchive]
                                        ELSE [mode |-> "replay", archive |-> disk]
    BY <1>1 DEF BeginAnalysis, FsInv
  <2>2. UNCHANGED <<tree, disk, recorded, pending, flush>>
    BY <1>1 DEF BeginAnalysis, fileVars
  <2>3. session'[w].mode = "record" => disk = None /\ ArchiveComplete(session'[w].archive, tree)
    BY <2>1, EmptyFile
  <2>4. OneWorker(w)
    <3>1. session'[w] = [mode |-> session'[w].mode, archive |-> session'[w].archive]
      BY <2>1
    <3>2. flush'[w] = [at |-> flush'[w].at, base |-> flush'[w].base]
      BY <1>0, <2>2
    <3> QED
      BY <2>1, <2>2, <3>1, <3>2 DEF OneWorker, FsInv
  <2>5. flush'[w] = flush[w] /\ pending'[w] = pending[w]
    BY <2>2
  <2> QED
    BY <1>0, <2>2, <2>3, <2>4, <2>5, FileSessionStep
<1>2. ASSUME NEW w \in Workers, AsyncResult(w) PROVE FileInv'
  <2>1. /\ pending' = [pending EXCEPT ![w] = pending'[w]]
        /\ pending'[w] = None
        /\ UNCHANGED <<tree, disk, recorded, flush>>
    BY <1>2 DEF AsyncResult, FsInv, fileVars
  <2>2. CASE session' # session
    <3> DEFINE archive == Observe(session[w].archive, tree, pending[w].path, pending[w].op)
    <3>1. /\ pending[w].path \in Paths /\ pending[w].op \in AllOps \ {"open"}
          /\ pending[w].outcome = Native(tree[pending[w].path], pending[w].op)
      BY <1>0, <1>2 DEF AsyncResult, PendingSound
    <3>2. Recording(w) /\ session' = [session EXCEPT ![w].archive = archive]
      BY <1>2, <2>2, <3>1 DEF AsyncResult, Observe
    <3>3. tree \in Trees /\ ArchiveSound(session[w].archive, tree)
                         /\ ArchiveComplete(session[w].archive, tree)
      BY <1>0, <3>2 DEF FsInv, Recording
    <3>4. ArchiveComplete(archive, tree)
      BY <3>1, <3>3, SetKeepsComplete
    <3>5. ArchiveSound(archive, tree)
      BY <3>1, <3>3, SetKeepsSound DEF Observe
    <3> HIDE DEF archive
    <3>6. OneWorker(w)
      BY <2>1, <3>2, <3>5, RecordsMore
    <3> QED
      BY <2>1, <3>2, <3>4, <3>6, FileRecordsMore
  <2>3. CASE session' = session
    <3>1. OneWorker(w) /\ session'[w] = session[w] /\ flush'[w] = flush[w]
      BY <1>0, <2>1, <2>3 DEF OneWorker, FsInv
    <3> QED
      BY <1>0, <2>1, <3>1, FileSessionStep
  <2> QED
    BY <2>2, <2>3
<1>3. ASSUME NEW w \in Workers, End(w) \/ EndUnwritten(w) PROVE FileInv'
  <2>1. /\ pending' = [pending EXCEPT ![w] = pending'[w]]
        /\ pending'[w] = None
        /\ UNCHANGED <<tree, disk, recorded>>
    BY <1>3 DEF End, EndUnwritten, FsInv
  <2>2. CASE session' = session
    <3>1. /\ flush' = [flush EXCEPT ![w] = flush'[w]]
          /\ flush'[w].at # "none" =>
                session[w].mode = "record" /\ flush'[w] = Waiting
          /\ flush[w].at = "none" \/ flush'[w].at = "none"
          /\ flush'[w] = [at |-> flush'[w].at, base |-> flush'[w].base]
      BY <1>0, <1>3, <2>2 DEF End, EndUnwritten, Waiting, NoFlush, NoSession, FsInv
    <3>2. OneWorker(w) /\ session'[w] = session[w]
      BY <1>0, <2>1, <2>2, <3>1 DEF OneWorker, FsInv
    <3>3. flush'[w].at # "none" => flush'[w].base = EmptyArchive
      BY <3>1 DEF Waiting
    <3>4. flush'[w].at # "none" =>
            FileSound(flush'[w].base, tree) /\ ArchiveComplete(flush'[w].base, tree)
      BY <3>3, EmptyFile
    <3>5. session'[w].mode = "record" =>
            session[w].mode = "record" /\ ArchiveComplete(session'[w].archive, tree)
      BY <1>0, <3>2
    <3> QED
      BY <2>1, <3>2, <3>4, <3>5, FileSessionStep
  <2>3. CASE session' # session
    <3>1. /\ session' = [session EXCEPT ![w] = NoSession]
          /\ flush' \in {flush, [flush EXCEPT ![w] = NoFlush]}
      BY <1>3, <2>3 DEF End, EndUnwritten
    <3>2. flush'[w].at = "none" /\ flush'[w] = [at |-> flush'[w].at, base |-> flush'[w].base]
      BY <1>0, <1>3, <2>3, <3>1 DEF End, EndUnwritten, NoFlush, FsInv
    <3>3. session'[w] = [mode |-> "none", archive |-> EmptyArchive]
      BY <3>1 DEF FsInv, NoSession
    <3>4. OneWorker(w)
      BY <2>1, <3>1, <3>2, <3>3 DEF OneWorker, FsInv
    <3> QED
      BY <2>1, <3>2, <3>3, <3>4, FileSessionStep
  <2> QED
    BY <2>2, <2>3
<1>4. ASSUME NEW w \in Workers, NEW p \in Paths, Open(w, p) PROVE FileInv'
  <2> DEFINE opened == Observe(session[w].archive, tree, p, "open")
             archive(fstats) == IF Native(tree[p], "open").ok
                                THEN CaptureOpenedFile(opened, p, fstats) ELSE opened
  <2>1. Recording(w) /\ UNCHANGED <<tree, disk, recorded, pending, flush>> /\ tree \in Trees
    BY <1>4 DEF Open, FsInv, fileVars
  <2>2. \A fstats \in Fstats(tree[p]) : ArchiveComplete(archive(fstats), tree)
    BY <1>0, <2>1, OpenKeepsComplete DEF Recording
  <2>3. PICK fstats \in Fstats(tree[p]) : session' = [session EXCEPT ![w].archive = archive(fstats)]
    BY <1>4 DEF Open, Observe
  <2>4. ArchiveComplete(archive(fstats), tree)
    BY <2>2
  <2>5. ArchiveSound(archive(fstats), tree)
    <3>1. ArchiveSound(opened, tree)
      BY <1>0, <2>1, SetKeepsSound DEF Recording, Observe, AllOps
    <3> QED
      BY <2>1, <3>1, CaptureKeepsSound
  <2> HIDE DEF archive
  <2>6. pending' = [pending EXCEPT ![w] = pending'[w]] /\ pending'[w] = pending[w]
    BY <2>1 DEF FsInv
  <2>7. OneWorker(w)
    BY <2>1, <2>3, <2>5, <2>6, RecordsMore
  <2> QED
    BY <2>1, <2>3, <2>4, <2>6, <2>7, FileRecordsMore
<1>5. ASSUME NEW w \in Workers, NEW p \in Paths, NEW op \in Ops, Call(w, p, op) PROVE FileInv'
  <2> DEFINE archive == Observe(session[w].archive, tree, p, op)
  <2>1. /\ Recording(w) /\ UNCHANGED <<tree, disk, recorded, pending, flush>> /\ tree \in Trees
        /\ op \in AllOps \ {"open"}
    BY <1>5, InputsAssumption DEF Call, FsInv, fileVars
  <2>2. ArchiveComplete(archive, tree) /\ ArchiveSound(archive, tree)
    BY <1>0, <2>1, SetKeepsComplete, SetKeepsSound DEF Recording, Observe
  <2>3. session' = [session EXCEPT ![w].archive = archive]
    BY <1>5 DEF Call, Observe
  <2> HIDE DEF archive
  <2>4. pending' = [pending EXCEPT ![w] = pending'[w]] /\ pending'[w] = pending[w]
    BY <2>1 DEF FsInv
  <2>5. OneWorker(w)
    BY <2>1, <2>2, <2>3, <2>4, RecordsMore
  <2> QED
    BY <2>1, <2>2, <2>3, <2>4, <2>5, FileRecordsMore
<1>6. ASSUME NEW w \in Workers, NEW p \in Paths, NEW op \in Ops, AsyncCall(w, p, op)
      PROVE  FileInv'
  <2>1. /\ pending' = [pending EXCEPT ![w] = pending'[w]]
        /\ pending'[w].op # "open"
        /\ UNCHANGED <<tree, disk, recorded, session, flush>>
    BY <1>6 DEF AsyncCall, AsyncOps, FsInv, fileVars
  <2>2. OneWorker(w) /\ session'[w] = session[w] /\ flush'[w] = flush[w]
    BY <1>0, <2>1 DEF OneWorker, FsInv
  <2> QED
    BY <1>0, <2>1, <2>2, FileSessionStep
<1>7. ASSUME Checkout \/ DeleteArchive PROVE FileInv'
  <2>1. /\ UNCHANGED <<session, pending, flush>>
        /\ \A w \in Workers : session[w].mode = "none" /\ flush[w].at = "none"
    BY <1>0, <1>7 DEF Checkout, DeleteArchive, fileVars, Flushing
  <2>2. disk' = None \/ UNCHANGED <<disk, recorded>>
    BY <1>7 DEF Checkout, DeleteArchive, fileVars
  <2>3. \A w \in Workers :
          /\ session'[w].mode = "none" /\ flush'[w].at = "none"
          /\ pending'[w] # None => pending'[w].op # "open"
    BY <1>0, <2>1
  <2>4. disk' # None => /\ recorded' \in Trees
                        /\ FileSound(disk', recorded') /\ ArchiveComplete(disk', recorded')
    BY <2>2 DEF FileInv
  <2>5. ASSUME NEW v \in Workers
        PROVE  /\ session'[v].mode = "record" =>
                    /\ disk' # None => recorded' = tree'
                    /\ ArchiveComplete(session'[v].archive, tree')
               /\ flush'[v].at # "none" =>
                    FileSound(flush'[v].base, tree') /\ ArchiveComplete(flush'[v].base, tree')
               /\ pending'[v] # None => pending'[v].op # "open"
    BY <2>3
  <2> QED
    BY <2>4, <2>5 DEF FileInv, FileSound, ArchiveComplete, Captured, Informed
<1>8. ASSUME UNCHANGED vars PROVE FileInv'
  <2>1. UNCHANGED <<tree, disk, recorded, session, pending, flush>>
    BY <1>8 DEF vars
  <2>2. disk' # None => /\ recorded' \in Trees
                        /\ FileSound(disk', recorded') /\ ArchiveComplete(disk', recorded')
    BY <2>1 DEF FileInv
  <2>3. ASSUME NEW v \in Workers
        PROVE  /\ session'[v].mode = "record" =>
                    /\ disk' # None => recorded' = tree'
                    /\ ArchiveComplete(session'[v].archive, tree')
               /\ flush'[v].at # "none" =>
                    FileSound(flush'[v].base, tree') /\ ArchiveComplete(flush'[v].base, tree')
               /\ pending'[v] # None => pending'[v].op # "open"
    BY <2>1 DEF FileInv
  <2> QED
    BY <2>2, <2>3 DEF FileInv, FileSound, ArchiveComplete, Captured, Informed
<1>9. ASSUME NEW w \in Workers, Flushes(w) PROVE FileInv'
  BY <1>9, FileFlushStep
<1> QED
  BY <1>1, <1>2, <1>3, <1>4, <1>5, <1>6, <1>7, <1>8, <1>9 DEF Next, Analyses

\* The archive file is sound and complete for the tree it was recorded from, for any
\* number of workers, paths and flushes.
THEOREM FileInvCorrect == Spec => [](FsInv /\ FileInv)
<1>1. Init => FileInv
  BY FileInvInit
<1>2. FsInv /\ FileInv /\ [Next]_vars => FileInv'
  BY FileInvStep
<1> QED
  BY <1>1, <1>2, FsInvCorrect, PTL DEF Spec

\* An archive answers as the tree it was recorded from, whatever checkout is there when
\* it is replayed and however many workers flushed into it, one after the other or through
\* each other's locks; only of a link without a target in its list of missing paths it
\* knows too little.
THEOREM ReplayAnswersTheRecordedTreeCorrect == Spec => []ReplayAnswersTheRecordedTree
<1>1. FileInv => ReplayAnswersTheRecordedTree
  <2> SUFFICES ASSUME FileInv, disk # None, NEW p \in Paths,
                      p \notin disk.missing \/ recorded[p].kind \notin {"dangling", "loop"}
               PROVE  Faithful(disk, p, recorded[p])
    BY DEF ReplayAnswersTheRecordedTree
  <2>1. FileSound(disk, recorded) /\ recorded \in Trees
    BY DEF FileInv
  <2> QED
    BY <2>1, FileIsFaithful, InputsAssumption DEF Faithful
<1> QED
  BY <1>1, FileInvCorrect, PTL

\* A file that a replay opens has its content and, unless fstat failed on it, both its
\* stats in the archive, also when several flushes made its node: the derivation of
\* 'open' asks for them, and who recorded 'open' itself captured them.
THEOREM OpenedFileCanBeReadCorrect == Spec => []OpenedFileCanBeRead
<1>1. FileInv => OpenedFileCanBeRead
  <2> SUFFICES ASSUME FileInv, disk # None, NEW p \in Paths, Lookup(disk, p, "open").ok,
                      NEW op \in {"readFile", "stat", "statBigint"},
                      op = "readFile" \/ recorded[p].kind # "stale"
               PROVE  Lookup(disk, p, op) = Native(recorded[p], op)
    BY DEF OpenedFileCanBeRead
  <2> DEFINE node == disk.nodes[p]
  <2>1. node = None \/ NodeSound(node, recorded[p])
    BY DEF FileInv, FileSound
  <2>2. Captured(disk, p, CapturedOf(recorded[p]))
    BY DEF FileInv, ArchiveComplete
  <2>3. /\ IsOk(Get(disk, p, "open"))
        /\ Get(disk, p, "readFile") # None
    <3>1. ~MissingAnswer("open").ok /\ ~Miss.ok
      BY DEF MissingAnswer, SoftOps, Err, Miss
    <3> QED
      BY <3>1 DEF Lookup, IsOk
  <2>4. node # None
    BY <2>3 DEF Get
  <2>5. \A s \in CapturedOf(recorded[p]) : node.slots[s] # None
    <3>1. Get(disk, p, "open") = GetFromNode(node, "open")
          /\ Get(disk, p, "readFile") = GetFromNode(node, "readFile")
      BY <2>4 DEF Get
    <3>2. CASE node.slots["open"] # None
      <4>1. GetFromNode(node, "open") = node.slots["open"]
        BY <3>2 DEF GetFromNode, SlotOf
      <4> QED
        BY <2>2, <2>3, <2>4, <3>1, <4>1 DEF Captured
    <3>3. CASE node.slots["open"] = None
      <4>1. GetFromNode(node, "open") =
              IF \A s \in {"content", "stat:number", "stat:bigint"} : IsOk(node.slots[s])
              THEN Ok("null") ELSE None
        BY <3>3 DEF GetFromNode, SlotOf
      <4> QED
        BY <2>3, <3>1, <4>1 DEF IsOk, CapturedOf
    <3> QED
      BY <3>2, <3>3
  <2>6. /\ op \in SlotReaders /\ SlotOf(op) \in CapturedOf(recorded[p])
        /\ op \notin {"open", "exists"} /\ Hard(op) = op
    BY DEF SlotReaders, AllOps, SlotOf, CapturedOf, Hard
  <2>7. Get(disk, p, op) = node.slots[SlotOf(op)]
    BY <2>4, <2>5, <2>6 DEF Get, GetFromNode
  <2>8. node.slots[SlotOf(op)] = Native(recorded[p], op)
    BY <2>1, <2>4, <2>5, <2>6 DEF NodeSound, Held
  <2> HIDE DEF node
  <2> QED
    BY <2>5, <2>6, <2>7, <2>8 DEF Lookup
<1> QED
  BY <1>1, FileInvCorrect, PTL

-----------------------------------------------------------------------------
(* What a flush may not forget                                               *)

\* What an archive must know of a path to answer an operation.
NodeKnows(node, op) ==
    IF op = "exists" THEN node.exists # None
    ELSE \/ GetFromNode(node, op) # None
         \/ (IF op \in LinkOps THEN node.linkExists ELSE node.exists) = FALSE

PathKnows(archive, p, op) ==
    IF archive.nodes[p] = None THEN p \in archive.missing ELSE NodeKnows(archive.nodes[p], op)

LEMMA AnswerIsKnown ==
    ASSUME NEW p \in Paths, NEW op \in AllOps, NEW archive,
           Lookup(archive, p, op) \notin {Miss, Refused}
    PROVE  PathKnows(archive, p, op)
<1>1. CASE archive.nodes[p] = None
  BY <1>1 DEF Lookup, Get, KnownMissing, PathKnows
<1>2. CASE archive.nodes[p] # None /\ op = "exists"
  <2>1. Get(archive, p, op) = GetFromNode(archive.nodes[p], op)
    BY <1>2 DEF Get
  <2>2. CASE archive.nodes[p].exists = None
    <3>1. Get(archive, p, op) = Refused
      <4>1. GetFromNode(archive.nodes[p], op) = Refused
        BY <1>2, <2>2, NoneAssumption DEF GetFromNode
      <4> QED
        BY <2>1, <4>1
    <3>3. Get(archive, p, op) = None => ~KnownMissing(archive, p, op)
      BY <1>2, <2>2, NoneAssumption DEF KnownMissing, LinkOps
    <3> QED
      BY <1>2, <3>1, <3>3 DEF Lookup
  <2> QED
    BY <1>2, <2>2 DEF PathKnows, NodeKnows
<1>3. CASE archive.nodes[p] # None /\ op # "exists"
  BY <1>3 DEF Lookup, Get, KnownMissing, PathKnows, NodeKnows
<1> QED
  BY <1>1, <1>2, <1>3

\* In a file that is sound and complete it suffices.
LEMMA KnownIsAnswered ==
    ASSUME NEW t \in Trees, NEW p \in Paths, NEW op \in AllOps,
           NEW archive, FileSound(archive, t), ArchiveComplete(archive, t),
           Plain(t[p]), PathKnows(archive, p, op)
    PROVE  Lookup(archive, p, op) \notin {Miss, Refused}
<1>1. t[p] \in Entries
  BY TreeEntries
<1>2. MissingAnswer(op) \notin {Miss, Refused}
  BY DEF MissingAnswer, Ok, Err, Miss, Refused
<1>3. CASE archive.nodes[p] = None
  BY <1>2, <1>3 DEF PathKnows, Lookup, Get, KnownMissing, IsOk
<1>4. CASE archive.nodes[p] # None
  <2> DEFINE node == archive.nodes[p]
  <2>1. NodeSound(node, t[p]) /\ Captured(archive, p, CapturedOf(t[p]))
    BY <1>4 DEF FileSound, ArchiveComplete
  <2>2. \A any : Get(archive, p, any) = GetFromNode(node, any)
    BY <1>4 DEF Get
  <2>3. Native(t[p], op) \notin {None, Miss, Refused}
    BY <1>1, NativeIsOutcome
  <2>4. GetFromNode(node, op) \in {IF op = "exists" THEN Refused ELSE None, Native(t[p], op)}
    BY <1>1, <2>1, NodeAnswers, PlainIsNative
  <2>5. CASE op = "exists"
    <3>1. GetFromNode(node, op) \in {Ok("present"), Ok("absent")}
      <4>1. node.exists # None
        BY <1>4, <2>5 DEF PathKnows, NodeKnows
      <4> QED
        BY <2>5, <4>1 DEF GetFromNode
    <3>2. ASSUME NEW word \in {"present", "absent"}
          PROVE  Ok(word) \in Outcomes /\ Ok(word) \notin {Miss, Refused}
      BY DEF Ok, Err, Outcomes, Miss, Refused
    <3>3. GetFromNode(node, op) \notin {None, Miss, Refused}
      BY <3>1, <3>2, NoneAssumption
    <3> HIDE DEF node
    <3> QED
      BY <2>2, <2>5, <3>3 DEF Lookup
  <2>6. CASE op # "exists" /\ GetFromNode(node, op) # None
    <3>1. GetFromNode(node, op) = Native(t[p], op)
      BY <2>4, <2>6
    <3>2. op = "open" /\ IsOk(GetFromNode(node, op)) => GetFromNode(node, "readFile") # None
      <4> SUFFICES ASSUME op = "open", IsOk(GetFromNode(node, op))
                   PROVE  node.slots["content"] # None
        BY DEF GetFromNode, SlotOf
      <4>1. CASE node.slots["open"] # None
        <5>1. GetFromNode(node, op) = node.slots["open"]
          BY <4>1 DEF GetFromNode, SlotOf
        <5> QED
          BY <1>4, <2>1, <5>1, CapturedAreSlots DEF Captured
      <4>2. CASE node.slots["open"] = None
        BY <2>6, <4>2 DEF GetFromNode, SlotOf, IsOk
      <4> QED
        BY <4>1, <4>2
    <3> HIDE DEF node
    <3> QED
      BY <2>2, <2>3, <2>6, <3>1, <3>2 DEF Lookup
  <2>7. CASE op # "exists" /\ GetFromNode(node, op) = None
    <3>1. KnownMissing(archive, p, op)
      BY <1>4, <2>7 DEF PathKnows, NodeKnows, KnownMissing
    <3> HIDE DEF node
    <3> QED
      BY <1>2, <2>2, <2>7, <3>1 DEF Lookup, IsOk
  <2> QED
    BY <2>5, <2>6, <2>7
<1> QED
  BY <1>3, <1>4

LEMMA SlotHasReader == \A s \in Slots : \E op \in SlotReaders : SlotOf(op) = s
<1> SUFFICES ASSUME NEW s \in Slots PROVE \E op \in SlotReaders : SlotOf(op) = s
  OBVIOUS
<1> DEFINE reader == CASE s = "content" -> "readFile"
                       [] s = "stat:number" -> "stat"
                       [] s = "stat:bigint" -> "statBigint"
                       [] s = "lstat:number" -> "lstat"
                       [] s = "names" -> "readdir"
                       [] s = "entries" -> "opendir"
                       [] OTHER -> s
<1>1. reader \in SlotReaders /\ SlotOf(reader) = s
  BY DEF Slots, SlotReaders, AllOps, SlotOf
<1> QED
  BY <1>1

\* A sound node is a node, and so not undefined.
LEMMA SoundIsNode ==
    ASSUME NEW entry \in Entries, NEW node, NodeSound(node, entry)
    PROVE  node # None
<1>1. \A s \in Slots : node.slots[s] \in Outcomes \cup {None}
  <2>1. \A op \in SlotReaders : node.slots[SlotOf(op)] \in Outcomes \cup {None}
    <3> SUFFICES ASSUME NEW op \in SlotReaders
                 PROVE  node.slots[SlotOf(op)] \in Outcomes \cup {None}
      OBVIOUS
    <3>1. Hard(op) \in AllOps
      BY DEF Hard, SlotReaders, AllOps
    <3> QED
      BY <3>1, NativeIsOutcome DEF NodeSound, Held
  <2> QED
    BY <2>1, SlotHasReader
<1>2. node.slots \in [Slots -> Outcomes \cup {None}]
  <2>1. node.slots = [s \in Slots |-> node.slots[s]]
    BY DEF NodeSound
  <2> QED
    BY <1>1, <2>1
<1>3. node.exists \in BOOLEAN \cup {None} /\ node.linkExists \in BOOLEAN \cup {None}
  BY SeesIs DEF NodeSound
<1>4. node \in Nodes
  BY <1>2, <1>3 DEF NodeSound, Nodes
<1> QED
  BY <1>4, NoneAssumption

\* One node knows what the other knows.
Grows(node, next) ==
    /\ node.exists # None => next.exists = node.exists
    /\ node.linkExists # None => next.linkExists = node.linkExists
    /\ \A s \in Slots : node.slots[s] # None => next.slots[s] = node.slots[s]

LEMMA GrownKnows ==
    ASSUME NEW op \in AllOps, NEW node, NEW next, Grows(node, next), NodeKnows(node, op)
    PROVE  NodeKnows(next, op)
<1>1. CASE op = "exists"
  BY <1>1 DEF NodeKnows, Grows
<1>2. CASE op # "exists" /\ GetFromNode(node, op) = None
  BY <1>2, NoneAssumption DEF NodeKnows, Grows
<1>3. CASE op # "exists" /\ GetFromNode(node, op) # None
  <2>1. SlotOf(op) \in Slots /\ {"entries", "content", "stat:number", "stat:bigint"} \subseteq Slots
    BY <1>3, SlotIsSlot DEF SlotReaders, Slots
  <2>2. CASE next.slots[SlotOf(op)] # None
    BY <1>3, <2>2 DEF NodeKnows, GetFromNode
  <2>3. CASE next.slots[SlotOf(op)] = None
    <3>1. node.slots[SlotOf(op)] = None
      BY <2>1, <2>3 DEF Grows
    <3>2. CASE op = "open"
      <4>1. \A s \in {"content", "stat:number", "stat:bigint"} : IsOk(node.slots[s])
        BY <1>3, <3>1, <3>2 DEF GetFromNode
      <4>2. \A s \in {"content", "stat:number", "stat:bigint"} : IsOk(next.slots[s])
        BY <2>1, <4>1 DEF Grows, IsOk
      <4>3. GetFromNode(next, op) = Ok("null")
        BY <2>3, <3>2, <4>2 DEF GetFromNode
      <4>4. Ok("null") \in Outcomes
        BY DEF Ok, Outcomes
      <4> QED
        BY <1>3, <4>3, <4>4, NoneAssumption DEF NodeKnows
    <3>3. CASE op = "readdir"
      BY <1>3, <2>1, <2>3, <3>1, <3>3 DEF GetFromNode, Grows, NodeKnows
    <3>4. CASE op \notin {"open", "readdir"}
      BY <1>3, <3>1, <3>4 DEF GetFromNode
    <3> QED
      BY <3>2, <3>3, <3>4
  <2> QED
    BY <2>2, <2>3
<1> QED
  BY <1>1, <1>2, <1>3

\* mergeNodes forgets nothing of two sound nodes of one path.
LEMMA MergeGrows ==
    ASSUME NEW entry \in Entries, NEW base, NodeSound(base, entry),
           NEW own, NodeSound(own, entry)
    PROVE  Grows(base, MergeNodes(base, own)) /\ Grows(own, MergeNodes(base, own))
<1> DEFINE node == MergeNodes(base, own)
<1>1. /\ node.exists = IF own.exists = None THEN base.exists ELSE own.exists
      /\ node.linkExists = IF own.linkExists = None THEN base.linkExists ELSE own.linkExists
      /\ \A s \in Slots : node.slots[s] = IF own.slots[s] = None THEN base.slots[s]
                                                                 ELSE own.slots[s]
  BY DEF MergeNodes
<1>2. ASSUME NEW s \in Slots
      PROVE  base.slots[s] = None \/ own.slots[s] = None \/ base.slots[s] = own.slots[s]
  <2>1. PICK op \in SlotReaders : SlotOf(op) = s
    BY SlotHasReader
  <2> QED
    BY <2>1 DEF NodeSound, Held
<1> HIDE DEF node
<1> QED
  BY <1>1, <1>2 DEF NodeSound, Grows, node

\* Of a path that exists, or is nothing at all, a flush forgets nothing that either
\* archive knew.
LEMMA JoinKnows ==
    ASSUME NEW t \in Trees, NEW p \in Paths, Plain(t[p]), NEW op \in AllOps,
           NEW base, FileSound(base, t),
           NEW own, ArchiveSound(own, t), ArchiveComplete(own, t),
           PathKnows(base, p, op) \/ PathKnows(own, p, op)
    PROVE  PathKnows(Compact(Joined(base, own)), p, op)
<1> DEFINE joined == Joined(base, own)
<1>1. t[p] \in Entries
  BY TreeEntries
<1>2. /\ own.nodes[p] # None => NodeSound(own.nodes[p], t[p])
      /\ base.nodes[p] # None => NodeSound(base.nodes[p], t[p])
      /\ p \notin own.missing
  BY DEF ArchiveSound, FileSound
<1>3. /\ Compact(joined).nodes[p] = IF joined.nodes[p] = OnlyMissing THEN None ELSE joined.nodes[p]
      /\ Compact(joined).missing = joined.missing \cup {q \in Paths : joined.nodes[q] = OnlyMissing}
  BY CompactNode DEF Compact
<1>4. joined.missing = {q \in base.missing : own.nodes[q] = None}
  BY DEF Joined
<1>5. CASE own.nodes[p] = None
  <2>1. joined.nodes[p] = base.nodes[p] /\ PathKnows(base, p, op)
    BY <1>2, <1>5, JoinedNode DEF PathKnows
  <2> HIDE DEF joined
  <2> QED
    BY <1>3, <1>4, <1>5, <2>1 DEF PathKnows, joined
<1>6. CASE own.nodes[p] # None /\ base.nodes[p] = None
  <2>1. joined.nodes[p] = own.nodes[p]
    BY <1>6, JoinedNode
  <2>2. CASE PathKnows(own, p, op)
    <3> HIDE DEF joined
    <3> QED
      BY <1>3, <1>6, <2>1, <2>2 DEF PathKnows, joined
  <2>3. CASE PathKnows(base, p, op)
    <3> DEFINE node == own.nodes[p]
    <3>1. p \in base.missing
      BY <1>6, <2>3 DEF PathKnows
    <3>2. t[p].kind = "missing"
      BY <3>1 DEF FileSound, Exists, Plain
    <3>3. node.exists = FALSE /\ \A s \in Slots : node.slots[s] = None
      BY <1>6, <3>2 DEF ArchiveComplete, Informed
    <3>4. CASE node.linkExists = None
      <4>1. node = OnlyMissing
        <5>1. node.slots = EmptyNode.slots
          BY <1>2, <1>6, <3>3 DEF NodeSound, EmptyNode
        <5>2. \A exists : [EmptyNode EXCEPT !.exists = exists]
                             = [exists |-> exists, linkExists |-> None, slots |-> EmptyNode.slots]
          BY DEF EmptyNode
        <5>3. OnlyMissing = [exists |-> FALSE, linkExists |-> None, slots |-> EmptyNode.slots]
          BY <5>2 DEF OnlyMissing
        <5>4. node = [exists |-> FALSE, linkExists |-> None, slots |-> EmptyNode.slots]
          BY <1>2, <1>6, <3>3, <3>4, <5>1 DEF NodeSound
        <5> QED
          BY <5>3, <5>4
      <4> HIDE DEF joined
      <4> QED
        BY <1>3, <2>1, <4>1 DEF PathKnows, joined
    <3>5. CASE node.linkExists # None
      <4>1. node.linkExists = FALSE
        BY <1>2, <1>6, <3>2, <3>5 DEF NodeSound, LinkExists, Sees
      <4>2. NodeKnows(node, op)
        BY <3>3, <4>1, NoneAssumption DEF NodeKnows
      <4>3. node # OnlyMissing
        BY <3>5 DEF OnlyMissing, EmptyNode
      <4> HIDE DEF joined
      <4> QED
        BY <1>3, <1>6, <2>1, <4>2, <4>3 DEF PathKnows, joined
    <3> QED
      BY <3>4, <3>5
  <2> QED
    BY <2>2, <2>3
<1>7. CASE own.nodes[p] # None /\ base.nodes[p] # None
  <2> DEFINE node == MergeNodes(base.nodes[p], own.nodes[p])
  <2>1. joined.nodes[p] = node
    BY <1>7, JoinedNode
  <2>2. Grows(base.nodes[p], node) /\ Grows(own.nodes[p], node)
    BY <1>1, <1>2, <1>7, MergeGrows
  <2>3. node # None
    <3>1. NodeSound(node, t[p])
      BY <1>1, <1>2, <1>7, MergeKeepsSound
    <3> QED
      BY <1>1, <3>1, SoundIsNode
  <2> HIDE DEF node, joined
  <2>4. NodeKnows(node, op)
    BY <1>7, <2>2, GrownKnows DEF PathKnows
  <2> QED
    BY <1>3, <2>1, <2>3, <2>4 DEF PathKnows, joined
<1> QED
  BY <1>5, <1>6, <1>7

\* What a sound and complete archive answers, another of the same tree that knows as
\* much answers alike: both can only answer what the native filesystem says.
LEMMA KnownAnswersAgree ==
    ASSUME NEW t \in Trees, NEW p \in Paths, Plain(t[p]),
           NEW one, FileSound(one, t),
           NEW other, FileSound(other, t), ArchiveComplete(other, t),
           \A op \in AllOps : PathKnows(one, p, op) => PathKnows(other, p, op)
    PROVE  Answers(one, other, p)
<1> SUFFICES ASSUME NEW op \in Ops, Lookup(one, p, op) \notin {Miss, Refused}
             PROVE  Lookup(other, p, op) = Lookup(one, p, op)
  BY DEF Answers
<1>1. op \in AllOps
  BY InputsAssumption
<1>0. Allowed(t[p], op) = {Native(t[p], op)} /\ t[p].kind \notin {"dangling", "loop"}
  <2>1. t[p].kind \notin {"dangling", "loop"}
    BY DEF Plain, Sees, LinkOps
  <2> QED
    BY <1>1, <2>1, TreeEntries, PlainIsNative
<1>2. Lookup(one, p, op) = Native(t[p], op)
  BY <1>0, <1>1, FileIsFaithful
<1>3. Lookup(other, p, op) \notin {Miss, Refused}
  BY <1>1, AnswerIsKnown, KnownIsAnswered
<1>4. Lookup(other, p, op) = Native(t[p], op)
  BY <1>0, <1>1, <1>3, FileIsFaithful
<1> QED
  BY <1>2, <1>4

LEMMA MergedAnswers ==
    ASSUME NEW t \in Trees, NEW p \in Paths, Plain(t[p]),
           NEW base, FileSound(base, t), ArchiveComplete(base, t),
           NEW own, ArchiveSound(own, t), ArchiveComplete(own, t)
    PROVE  Answers(base, Merged(base, own), p) /\ Answers(own, Merged(base, own), p)
<1>1. FileSound(Merged(base, own), t) /\ ArchiveComplete(Merged(base, own), t)
  BY MergedKeeps
<1>2. Merged(base, own) = Compact(Joined(base, own))
  BY MergedIsCompacted
<1>3. \A op \in AllOps : PathKnows(base, p, op) \/ PathKnows(own, p, op)
                           => PathKnows(Merged(base, own), p, op)
  BY <1>2, JoinKnows
<1>4. FileSound(own, t)
  BY DEF ArchiveSound, FileSound
<1> QED
  BY <1>1, <1>3, <1>4, KnownAnswersAgree

\* Who is inside the lock holds it, and has loaded what the file still is, as long as no
\* lock file was removed under its living maker.
LockInv ==
    ~broken =>
        \A w \in Workers :
            /\ Inside(w) => lock = w
            /\ flush[w].at = "loaded" =>
                 flush[w].base = IF disk = None THEN EmptyArchive ELSE disk

LEMMA LockInvInit == Init => LockInv
BY DEF Init, NoFlush, LockInv, Inside

LEMMA LockInvStep == FsInv /\ LockInv /\ [Next]_vars => LockInv'
<1> SUFFICES ASSUME FsInv, LockInv, [Next]_vars PROVE LockInv'
  OBVIOUS
<1> USE DEF Inside
\* Enough to look at the workers, when nobody broke the lock.
<1>0. ASSUME ~broken' => \A v \in Workers :
                /\ Inside(v)' => lock' = v
                /\ flush'[v].at = "loaded" =>
                     flush'[v].base = IF disk' = None THEN EmptyArchive ELSE disk'
      PROVE  LockInv'
  BY <1>0 DEF LockInv
\* Who is alone inside, by a lock that was free or that it holds.
<1>1. ASSUME NEW w \in Workers, \A v \in Workers \ {w} : flush'[v] = flush[v] /\ ~Inside(v),
             Inside(w)' => lock' = w,
             flush'[w].at = "loaded" => flush'[w].base = IF disk' = None THEN EmptyArchive ELSE disk'
      PROVE  LockInv'
  BY <1>1 DEF LockInv
<1>2. ASSUME UNCHANGED fileVars PROVE LockInv'
  BY <1>2 DEF fileVars, LockInv
<1>3. ASSUME NEW w \in Workers, End(w) \/ JudgeLock(w) \/ Load(w) \/ FlushFails(w) PROVE LockInv'
  <2>1. UNCHANGED <<disk, lock, broken>> /\ \A v \in Workers \ {w} : flush'[v] = flush[v]
    BY <1>3 DEF End, JudgeLock, Load, FlushFails, Waiting, Leaving, FsInv
  <2>2. /\ Inside(w)' => Inside(w)
        /\ flush'[w].at = "loaded" => \/ flush'[w] = flush[w]
                                      \/ flush'[w].base = IF disk = None THEN EmptyArchive ELSE disk
    BY <1>3 DEF End, JudgeLock, Load, FlushFails, Waiting, Leaving, FsInv
  <2> QED
    BY <1>0, <2>1, <2>2 DEF LockInv
<1>4. ASSUME NEW w \in Workers, EndUnwritten(w) PROVE LockInv'
  <2>1. UNCHANGED <<disk, lock>> /\ \A v \in Workers \ {w} : flush'[v] = flush[v]
    BY <1>4 DEF EndUnwritten, FsInv
  <2>2. flush'[w].at = "none"
    BY <1>4 DEF EndUnwritten, NoFlush, FsInv
  <2>3. CASE broken /\ ~broken'
    BY <1>1, <1>4, <2>1, <2>2, <2>3 DEF EndUnwritten
  <2>4. CASE ~broken \/ broken'
    BY <1>0, <2>1, <2>2, <2>4 DEF LockInv
  <2> QED
    BY <2>3, <2>4
<1>5. ASSUME NEW w \in Workers, OpenLock(w) PROVE LockInv'
  <2>1. lock = None /\ lock' = w /\ broken' = broken
    BY <1>5 DEF OpenLock
  <2>2. \A v \in Workers \ {w} : flush'[v] = flush[v]
    BY <1>5 DEF OpenLock, FsInv
  <2>3. flush'[w].at = "locked"
    BY <1>5 DEF OpenLock, FsInv
  <2>4. ~broken => \A v \in Workers : ~Inside(v)
    BY <2>1, NoneAssumption DEF LockInv
  <2> QED
    BY <1>0, <1>1, <2>1, <2>2, <2>3, <2>4
<1>6. ASSUME NEW w \in Workers, BreakLock(w) \/ Unlock(w) PROVE LockInv'
  <2>1. RemoveLock(w) /\ \A v \in Workers \ {w} : flush'[v] = flush[v]
    BY <1>6 DEF BreakLock, Unlock, FsInv
  <2>2. flush'[w].at \in {"opening", "none"}
    BY <1>6 DEF BreakLock, Unlock, NoFlush, FsInv
  <2>3. ~broken' => \A v \in Workers \ {w} : ~Inside(v)
    BY <2>1 DEF RemoveLock, LockInv
  <2> QED
    BY <1>0, <1>1, <2>1, <2>2, <2>3
<1>7. ASSUME NEW w \in Workers, Rename(w) PROVE LockInv'
  <2>1. UNCHANGED <<lock, broken>> /\ Inside(w) /\ \A v \in Workers \ {w} : flush'[v] = flush[v]
    BY <1>7 DEF Rename, FsInv
  <2>2. flush'[w].at = "leaving"
    BY <1>7 DEF Rename, Leaving, FsInv
  <2>3. ~broken => lock = w /\ \A v \in Workers \ {w} : ~Inside(v)
    BY <2>1 DEF LockInv
  <2> QED
    BY <1>0, <1>1, <2>1, <2>2, <2>3
<1>8. ASSUME DeleteArchive PROVE LockInv'
  <2>1. UNCHANGED <<flush, lock, broken>> /\ \A v \in Workers : flush[v].at = "none"
    BY <1>8 DEF DeleteArchive, FsInv, Flushing
  <2> QED
    BY <1>0, <2>1
<1>9. ASSUME NEW w \in Workers, Analyses(w) PROVE LockInv'
  <2>1. CASE End(w) \/ EndUnwritten(w)
    BY <1>3, <1>4, <2>1
  <2>2. CASE ~(End(w) \/ EndUnwritten(w))
    BY <1>2, <1>9, <2>2 DEF Analyses, BeginAnalysis, AsyncResult, Open, Call, AsyncCall
  <2> QED
    BY <2>1, <2>2
<1>10. ASSUME NEW w \in Workers, Flushes(w) PROVE LockInv'
  BY <1>3, <1>5, <1>6, <1>7, <1>10 DEF Flushes
<1> QED
  BY <1>2, <1>8, <1>9, <1>10 DEF Next, Checkout, vars, fileVars

\* A rename leaves a file that answers what its session could answer, for any number of
\* workers that flush into one archive and whatever becomes of their locks, and also what
\* the file answered before, unless a lock file was removed under its living maker; links
\* without a target and paths that cannot be reached apart.
THEOREM FlushKeepsAnswersCorrect == Spec => FlushKeepsAnswers
<1> DEFINE Kept == \A w \in Workers, p \in Paths :
                     Rename(w) /\ Plain(tree[p]) =>
                         /\ Answers(session[w].archive, disk', p)
                         /\ disk # None /\ ~broken => Answers(disk, disk', p)
<1>1. FsInv /\ FileInv /\ LockInv => Kept
  <2> SUFFICES ASSUME FsInv, FileInv, LockInv, NEW w \in Workers, NEW p \in Paths,
                      Rename(w), Plain(tree[p])
               PROVE  /\ Answers(session[w].archive, disk', p)
                      /\ disk # None /\ ~broken => Answers(disk, disk', p)
    OBVIOUS
  <2> DEFINE base == flush[w].base
             own == session[w].archive
  <2>1. flush[w].at = "loaded" /\ disk' = Merged(base, own)
    BY DEF Rename
  <2>2. FileSound(base, tree) /\ ArchiveComplete(base, tree) /\ tree \in Trees
    BY <2>1 DEF FileInv, FsInv
  <2>3. ArchiveSound(own, tree) /\ ArchiveComplete(own, tree)
    BY <2>1 DEF FsInv, FileInv, Flushing
  <2>4. disk # None /\ ~broken => base = disk
    BY <2>1 DEF LockInv
  <2> HIDE DEF base, own
  <2>5. Answers(base, Merged(base, own), p) /\ Answers(own, Merged(base, own), p)
    BY <2>2, <2>3, MergedAnswers
  <2>6. Answers(base, disk', p) /\ Answers(own, disk', p)
    BY <2>1, <2>5
  <2> QED
    BY <2>4, <2>6 DEF own
<1>2. FsInv /\ FileInv /\ LockInv => [Kept]_vars
  BY <1>1
<1>3. Spec => [][Kept]_vars
  BY <1>2, LockInvInit, LockInvStep, FileInvCorrect, PTL DEF Spec
<1> QED
  BY <1>3 DEF FlushKeepsAnswers
=============================================================================
