----------------------------- MODULE SdFatProofs -----------------------------
(***************************************************************************)
(* That every variable keeps its type, that the chains of the files on the *)
(* card are apart and long enough, that the library is CardFile, that a    *)
(* failure costs at most two chains, and that a closed file is on the      *)
(* card: for cards and files of any number and size, any number of calls,  *)
(* losses of power and accesses that fail (the last theorem is about runs  *)
(* without such accesses).  What a chain is, is a recursive function: the  *)
(* proofs step along the FAT instead and meet the function where it is     *)
(* needed.                                                                 *)
(***************************************************************************)
EXTENDS SdFat, FiniteSetTheorems, WellFoundedInduction, TLAPS

(* The cache is a record.                                                   *)
CacheShape(s) == s = [block |-> s.block, value |-> s.value, state |-> s.state]

(* A block that is not dirty is the block of the card.                      *)
CacheInv ==
  cache.state # "dirty" /\ cache.block # BootSector /\ cache.block \in DOMAIN card
    => card[cache.block] = cache.value

Removing == {"free", "clear", "cleared", "erase"}
-----------------------------------------------------------------------------
(* The chains.  Chains are spoken of by what a step along the FAT does, on  *)
(* the card and as seen through the cache; the directory as it is, and as   *)
(* it will be once the open file is closed.                                 *)
FatValues == {Free, EOC} \cup Clusters
Entry == [there : BOOLEAN, size : Units, first : {Free} \cup Clusters]

CardFat == [c \in Clusters |-> FatEntry(card, c)]
SeenFat == [c \in Clusters |-> FatEntry(Seen, c)]
CardDir == card[Dir]
SeenDir == Seen[Dir]

(* The directory as it will be once the open file is closed.                *)
Held ==
  [f \in Files |-> IF f = file.name
                   THEN [there |-> TRUE, size |-> file.size, first |-> file.first]
                   ELSE SeenDir[f]]
-----------------------------------------------------------------------------
(* No cluster points at a free one, no two at the same.                     *)
Linked(F) ==
  /\ \A c \in Clusters : F[c] \in Clusters => F[F[c]] # Free
  /\ \A c, d \in Clusters : F[c] \in Clusters /\ F[c] = F[d] => c = d

(* A chain may begin with c.                                                *)
Heads(F, c) == c \in Clusters /\ F[c] # Free /\ \A d \in Clusters : F[d] # c

(* c is n clusters behind first.                                            *)
Leads(F, first, n, c) ==
  \E p \in [0 .. n -> Clusters] :
    p[0] = first /\ p[n] = c /\ \A i \in 0 .. n - 1 : F[p[i]] = p[i + 1]

Index(size) == (size - 1) \div PerCluster

Stored(F, first, size) == size > 0 => \E c \in Clusters : Leads(F, first, Index(size), c)

Entries(F, D, except) ==
  /\ \A f \in Files \ {except} :
       /\ D[f].first # 0 => Heads(F, D[f].first)
       /\ Stored(F, D[f].first, D[f].size)
  /\ \A f, g \in Files \ {except} :
       f # g /\ D[f].first # 0 => D[f].first # D[g].first

Unlinking == call.at \in {"free", "clear"}

(* The file open and its entry.                                             *)
EntryInv ==
  file.name # NoName =>
    LET e == SeenDir[file.name] IN
    \/ e.first = 0 /\ e.size = 0
    \/ e.first = file.first /\ e.size <= file.size

(* Clusters are freed before their entry only in a remove(); then the       *)
(* entry is what the cache writes next.                                     *)
RemovalInv ==
  gone # NoName =>
    \/ /\ Unlinking /\ gone = call.name
       /\ ~(cache.block = Dir /\ cache.state = "dirty")
    \/ /\ cache.block = Dir /\ cache.state = "dirty"
       /\ SeenDir[gone].first = 0 /\ SeenDir[gone].size = 0
       /\ file.name = gone => file.first = 0 /\ file.size = 0
       /\ ~(call.at = "free" /\ call.name = gone) /\ call.at # "clear"

(* The current cluster is n behind the first: far enough for what is to be  *)
(* written there, or for where the file ends.                               *)
FarEnough(n) ==
  /\ call.at = "data" => n >= file.pos \div PerCluster
  /\ call.at \in {"next", "search", "link"} /\ file.pos > 0 => n >= Index(file.pos)
  /\ file.pos > 0 /\ file.size > 0 /\ Index(file.size) >= Index(file.pos)
       => n >= Index(file.pos)

CursorInv ==
  /\ file.cur # 0 => \E n \in Nat : FarEnough(n) /\ Leads(SeenFat, file.first, n, file.cur)
  /\ file.cur = 0 => file.pos = 0 /\ call.at \notin {"data", "next", "link", "seek"}
  /\ file.pos = 0 \/ file.pos >= file.size
  /\ call.at \in {"next", "search"} => file.pos % PerCluster = 0
  /\ call.at \in {"next", "search", "link", "data"} => file.pos >= file.size
  /\ call.at = "search" /\ file.cur = 0 => file.first = 0
  /\ call.at \in {"search", "link"} /\ file.cur # 0 => SeenFat[file.cur] = EOC

(* A seek is on its way to the end of the file, or past it.                 *)
Seeking(n) ==
  n <= Index(file.size) /\
  \E p \in [0 .. Index(file.size) -> Clusters] :
    /\ p[0] = file.first /\ p[Index(file.size) - n] = file.cur
    /\ \A i \in 0 .. Index(file.size) - 1 : SeenFat[p[i]] = p[i + 1]

SeekInv ==
  call.at = "seek" =>
    /\ file.size > 0
    /\ \/ call.n = 0 /\ \E n \in Nat : n >= Index(file.size)
                                       /\ Leads(SeenFat, file.first, n, file.cur)
       \/ Seeking(call.n)

NewClusterInv ==
  call.at = "link" =>
    Heads(SeenFat, call.c) /\ call.c # file.cur /\ \A f \in Files : Held[f].first # call.c

FreedInv ==
  call.at = "free" =>
    /\ Heads(SeenFat, call.c)
    /\ \A f \in Files \ {call.name} : SeenDir[f].first # call.c
    /\ gone # call.name => SeenDir[call.name].first = call.c

(* A file just made is empty.                                               *)
MadeInv ==
  call.op = "open" /\ call.at = "flush" =>
    SeenDir[call.name].first = 0 /\ SeenDir[call.name].size = 0

WorkInv ==
  /\ call.at \in {"begin", "seek", "next", "search", "link", "data", "entry"} =>
       file.name # NoName
  /\ call.at \in {"lookup", "free", "clear", "cleared", "erase"} => file = NoHandle
  /\ call.at \in {"lookup", "free", "clear", "cleared", "erase"} => call.name \in Files
  /\ call.op \in {"open", "remove"} => call.name \in Files
  /\ file = NoHandle \/ file.name # NoName
  /\ call = NoCall \/ call.at # "idle"
  /\ call.at \in {"search", "free", "link"} => call.c \in Clusters
  /\ call.op = "open" => call.at \in {"lookup", "seek", "flush"}

AmountInv ==
  /\ file.size + call.left <= printed /\ file.pos + call.left <= printed
  /\ \A f \in Files : CardDir[f].size <= printed /\ SeenDir[f].size <= printed

Sound == ~broken \/ call # NoCall

CardChains == Linked(CardFat) /\ Entries(CardFat, CardDir, gone)
SeenChains == /\ Linked(SeenFat)
              /\ Entries(SeenFat, Held, IF Unlinking THEN gone ELSE NoName)

SoundInv == /\ CardChains /\ SeenChains /\ EntryInv /\ RemovalInv
            /\ CursorInv /\ SeekInv /\ NewClusterInv /\ FreedInv /\ MadeInv

ChainInv == WorkInv /\ AmountInv /\ (Sound => SoundInv)
-----------------------------------------------------------------------------
(* Steps along a FAT.                                                       *)
Fats == [Clusters -> FatValues]

LEMMA Marks == /\ Free \notin Clusters /\ EOC \notin Clusters /\ Free # EOC
               /\ Clusters \subseteq Nat
  BY DEF Free, EOC, Clusters

LEMMA LeadsStart ==
  ASSUME NEW F \in Fats, NEW c \in Clusters
  PROVE  Leads(F, c, 0, c)
<1> DEFINE p == [i \in 0 .. 0 |-> c]
<1>1. p \in [0 .. 0 -> Clusters] /\ p[0] = c
  OBVIOUS
<1>2. \A i \in 0 .. 0 - 1 : F[p[i]] = p[i + 1]
  OBVIOUS
<1> QED
  BY <1>1, <1>2 DEF Leads

LEMMA LeadsOn ==
  ASSUME NEW F \in Fats, NEW first, NEW n \in Nat, NEW c, Leads(F, first, n, c),
         F[c] \in Clusters
  PROVE  Leads(F, first, n + 1, F[c])
<1>1. PICK p \in [0 .. n -> Clusters] :
         p[0] = first /\ p[n] = c /\ \A i \in 0 .. n - 1 : F[p[i]] = p[i + 1]
  BY DEF Leads
<1> DEFINE d == F[c]
           q == [i \in 0 .. n + 1 |-> IF i = n + 1 THEN d ELSE p[i]]
<1>2. q \in [0 .. n + 1 -> Clusters]
  <2> SUFFICES ASSUME NEW i \in 0 .. n + 1, i # n + 1 PROVE i \in 0 .. n
    OBVIOUS
  <2> QED
    OBVIOUS
<1>3. q[0] = first /\ q[n] = c /\ q[n + 1] = d
  <2>1. 0 \in 0 .. n + 1 /\ n \in 0 .. n + 1 /\ n + 1 \in 0 .. n + 1
    OBVIOUS
  <2>2. 0 # n + 1 /\ n # n + 1
    OBVIOUS
  <2> QED
    BY <1>1, <2>1, <2>2
<1>4. \A i \in 0 .. (n + 1) - 1 : F[q[i]] = q[i + 1]
  <2> TAKE i \in 0 .. (n + 1) - 1
  <2>0. i \in 0 .. n
    OBVIOUS
  <2>1. CASE i = n
    BY <1>3, <2>1
  <2>2. CASE i # n
    <3>1. i \in 0 .. n - 1 /\ i \in 0 .. n + 1 /\ i + 1 \in 0 .. n + 1 /\ i # n + 1
          /\ i + 1 # n + 1
      BY <2>0, <2>2
    <3>2. q[i] = p[i] /\ q[i + 1] = p[i + 1]
      BY <3>1
    <3> HIDE DEF q
    <3> QED
      BY <1>1, <3>1, <3>2
  <2> QED
    BY <2>1, <2>2
<1> HIDE DEF q
<1> QED
  BY <1>2, <1>3, <1>4 DEF Leads

LEMMA LeadsShort ==
  ASSUME NEW F \in Fats, NEW first, NEW n \in Nat, NEW c, Leads(F, first, n, c),
         NEW m \in Nat, m <= n
  PROVE  \E d \in Clusters : Leads(F, first, m, d)
<1>1. PICK p \in [0 .. n -> Clusters] :
         p[0] = first /\ p[n] = c /\ \A i \in 0 .. n - 1 : F[p[i]] = p[i + 1]
  BY DEF Leads
<1> DEFINE q == [i \in 0 .. m |-> p[i]]
<1>2. 0 \in 0 .. m /\ m \in 0 .. m /\ \A i \in 0 .. m : i \in 0 .. n
  OBVIOUS
<1>3. q \in [0 .. m -> Clusters] /\ q[0] = first /\ q[m] = p[m] /\ p[m] \in Clusters
  BY <1>1, <1>2
<1>4. \A i \in 0 .. m - 1 : F[q[i]] = q[i + 1]
  <2> TAKE i \in 0 .. m - 1
  <2>1. i \in 0 .. n - 1 /\ i \in 0 .. m /\ i + 1 \in 0 .. m
    OBVIOUS
  <2>2. q[i] = p[i] /\ q[i + 1] = p[i + 1]
    BY <2>1
  <2> HIDE DEF q
  <2> QED
    BY <1>1, <2>1, <2>2
<1> HIDE DEF q
<1> QED
  BY <1>3, <1>4 DEF Leads

LEMMA LeadsTo ==
  ASSUME NEW F \in Fats, NEW first, NEW n \in Nat, NEW c, Leads(F, first, n, c)
  PROVE  first \in Clusters /\ c \in Clusters
  BY DEF Leads

(* What does not touch the pointers of a chain keeps it.                    *)
LEMMA LeadsKept ==
  ASSUME NEW F \in Fats, NEW G \in Fats,
         \A d \in Clusters : F[d] \in Clusters => G[d] = F[d],
         NEW first, NEW n \in Nat, NEW c, Leads(F, first, n, c)
  PROVE  Leads(G, first, n, c)
<1>1. PICK p \in [0 .. n -> Clusters] :
         p[0] = first /\ p[n] = c /\ \A i \in 0 .. n - 1 : F[p[i]] = p[i + 1]
  BY DEF Leads
<1>2. \A i \in 0 .. n - 1 : G[p[i]] = p[i + 1]
  <2> TAKE i \in 0 .. n - 1
  <2>1. i \in 0 .. n /\ i + 1 \in 0 .. n
    OBVIOUS
  <2> QED
    BY <1>1, <2>1
<1> QED
  BY <1>1, <1>2 DEF Leads

LEMMA LeadsPast ==
  ASSUME NEW F \in Fats, NEW G \in Fats, NEW x \in Clusters, Heads(F, x),
         \A d \in Clusters : d # x => G[d] = F[d],
         NEW first, first # x, NEW n \in Nat, NEW c, Leads(F, first, n, c)
  PROVE  Leads(G, first, n, c)
<1>1. PICK p \in [0 .. n -> Clusters] :
         p[0] = first /\ p[n] = c /\ \A i \in 0 .. n - 1 : F[p[i]] = p[i + 1]
  BY DEF Leads
<1>2. \A i \in 0 .. n - 1 : G[p[i]] = p[i + 1]
  <2> TAKE i \in 0 .. n - 1
  <2>1. i \in 0 .. n /\ i + 1 \in 0 .. n
    OBVIOUS
  <2>2. p[i] # x
    <3>1. CASE i = 0
      BY <1>1, <3>1
    <3>2. CASE i # 0
      <4>1. PICK j : j = i - 1
        OBVIOUS
      <4>2. j \in 0 .. n - 1 /\ j \in 0 .. n /\ j + 1 = i
        BY <3>2, <4>1
      <4>3. F[p[j]] = p[i] /\ p[j] \in Clusters
        BY <1>1, <4>2
      <4> QED
        BY <4>3 DEF Heads
    <3> QED
      BY <3>1, <3>2
  <2> QED
    BY <1>1, <2>1, <2>2
<1> QED
  BY <1>1, <1>2 DEF Leads
-----------------------------------------------------------------------------
(* The three changes of a FAT: a free cluster becomes the end of a chain, a *)
(* cluster is linked behind the end of one, the head of one is freed.       *)
Marked(F, x, y) == [F EXCEPT ![x] = y]

LEMMA TakeKeeps ==
  ASSUME NEW F \in Fats, NEW G, Linked(F), NEW x \in Clusters, F[x] = Free,
         G = Marked(F, x, EOC)
  PROVE  /\ G \in Fats /\ Linked(G) /\ Heads(G, x) /\ G[x] = EOC
         /\ \A r : Heads(F, r) => Heads(G, r) /\ r # x
         /\ \A d \in Clusters : F[d] \in Clusters => G[d] = F[d]
         /\ \A d \in Clusters : d # x => G[d] = F[d]
<1>1. G \in Fats /\ G[x] = EOC /\ \A d \in Clusters : d # x => G[d] = F[d]
  BY DEF Fats, FatValues, Marked
<1>2. \A d \in Clusters : F[d] # x
  BY Marks DEF Linked
<1>3. Linked(G)
  <2>1. \A c \in Clusters : G[c] \in Clusters => c # x /\ G[c] = F[c] /\ G[c] # x
    BY <1>1, <1>2, Marks
  <2> QED
    BY <1>1, <2>1 DEF Linked
<1>4. Heads(G, x)
  BY <1>1, <1>2, Marks DEF Heads
<1>5. \A r : Heads(F, r) => Heads(G, r) /\ r # x
  BY <1>1, Marks DEF Heads
<1> QED
  BY <1>1, <1>3, <1>4, <1>5, Marks

LEMMA LinkKeeps ==
  ASSUME NEW F \in Fats, NEW G, Linked(F), NEW e \in Clusters, F[e] = EOC,
         NEW x \in Clusters, Heads(F, x), x # e, G = Marked(F, e, x)
  PROVE  /\ G \in Fats /\ Linked(G) /\ G[e] = x
         /\ \A r : Heads(F, r) /\ r # x => Heads(G, r)
         /\ \A d \in Clusters : F[d] \in Clusters => G[d] = F[d]
         /\ \A d \in Clusters : d # e => G[d] = F[d]
<1>1. G \in Fats /\ G[e] = x /\ \A d \in Clusters : d # e => G[d] = F[d]
  BY DEF Fats, FatValues, Marked
<1>2. \A d \in Clusters : F[d] # x
  BY DEF Heads
<1>3. Linked(G)
  <2>1. \A c \in Clusters : F[c] # Free => G[c] # Free
    BY <1>1, Marks
  <2>2. G[x] # Free
    BY <1>1 DEF Heads
  <2>3. \A c \in Clusters : G[c] \in Clusters => G[G[c]] # Free
    BY <1>1, <2>1, <2>2 DEF Linked
  <2>4. \A c, d \in Clusters : G[c] \in Clusters /\ G[c] = G[d] => c = d
    BY <1>1, <1>2 DEF Linked
  <2> QED
    BY <2>3, <2>4 DEF Linked
<1>4. \A r : Heads(F, r) /\ r # x => Heads(G, r)
  BY <1>1, Marks DEF Heads
<1> QED
  BY <1>1, <1>3, <1>4, Marks

LEMMA FreeKeeps ==
  ASSUME NEW F \in Fats, NEW G, Linked(F), NEW x \in Clusters, Heads(F, x),
         G = Marked(F, x, Free)
  PROVE  /\ G \in Fats /\ Linked(G)
         /\ \A r : Heads(F, r) /\ r # x => Heads(G, r)
         /\ \A d \in Clusters : d # x => G[d] = F[d]
         /\ F[x] # EOC => /\ F[x] \in Clusters /\ Heads(G, F[x])
                          /\ \A r : Heads(F, r) => r # F[x]
<1>1. G \in Fats /\ G[x] = Free /\ \A d \in Clusters : d # x => G[d] = F[d]
  BY DEF Fats, FatValues, Marked
<1>2. \A d \in Clusters : F[d] # x
  BY DEF Heads
<1>3. Linked(G)
  <2>1. \A c \in Clusters : G[c] \in Clusters => c # x /\ G[c] = F[c] /\ G[c] # x
    BY <1>1, <1>2, Marks
  <2> QED
    BY <1>1, <2>1 DEF Linked
<1>4. \A r : Heads(F, r) /\ r # x => Heads(G, r)
  <2> TAKE r
  <2> HAVE Heads(F, r) /\ r # x
  <2>1. \A d \in Clusters : G[d] # r
    BY <1>1, Marks DEF Heads
  <2> QED
    BY <1>1, <2>1 DEF Heads
<1>5. ASSUME F[x] # EOC
      PROVE  F[x] \in Clusters /\ Heads(G, F[x]) /\ \A r : Heads(F, r) => r # F[x]
  <2>1. F[x] \in Clusters
    BY <1>5 DEF Fats, FatValues, Heads
  <2>2. G[F[x]] # Free
    BY <1>1, <1>2, <2>1 DEF Linked
  <2>3. \A d \in Clusters : G[d] # F[x]
    BY <1>1, <2>1, Marks DEF Linked
  <2> QED
    BY <2>1, <2>2, <2>3 DEF Heads
<1> QED
  BY <1>1, <1>3, <1>4, <1>5
-----------------------------------------------------------------------------
Blocks == {Dir} \cup FatBlocks \cup DataBlocks \cup {Mirror(b) : b \in FatBlocks}
InFat(c) == {d \in Clusters : FatIndex(d) = FatIndex(c)}

Handles == [name : Files \cup {NoName}, size : Units, first : {Free} \cup Clusters,
            cur : {Free} \cup Clusters, pos : Units, dirty : BOOLEAN]
Places == {"idle", "lookup", "begin", "seek", "next", "search", "link", "data",
           "entry", "flush", "free", "clear", "cleared", "erase"}
CallType == [op : {"none", "open", "print", "close", "remove"}, at : Places,
             name : Files \cup {NoName}, out : Seq(Units), left : Nat, c : Nat, n : Nat]

Typed(S) ==
  S[Dir] \in [Files -> Entry] /\ \A c \in Clusters : S[Fat(c)] \in [InFat(c) -> FatValues]

CardOK == card = [b \in Blocks |-> card[b]]
CacheOK ==
  /\ CacheShape(cache) /\ cache.block \in Blocks \cup {BootSector}
  /\ cache.state \in {"clean", "dirty", "mirror"}
  /\ cache.block = BootSector => cache.state = "clean"
  /\ cache.state = "mirror" => cache.block \in FatBlocks
  /\ CacheInv
StoreOK == CardOK /\ CacheOK /\ Typed(card) /\ Typed(Seen)
CallOK ==
  /\ call \in CallType /\ call.left <= Len(call.out)
  /\ call.op # "print" => call.left = 0
PastOK ==
  /\ start \in 2 .. LastCluster + 1 /\ printed \in Units
  /\ gone \in Files \cup {NoName} /\ ahead \in BOOLEAN /\ broken \in BOOLEAN
  /\ faults \in Nat /\ losses \in Nat /\ faults + losses <= MaxTroubles

TypeInv == StoreOK /\ file \in Handles /\ CallOK /\ PastOK

LEMMA BlocksApart ==
  /\ Dir # BootSector
  /\ \A c \in Clusters : Fat(c) # Dir /\ Fat(c) # BootSector /\ Fat(c) \in Blocks
                         /\ Fat(c) \in FatBlocks
  /\ \A c, d \in Clusters : Fat(c) = Fat(d) => FatIndex(c) = FatIndex(d)
  /\ \A c, d \in Clusters : Mirror(Fat(c)) # Fat(d) /\ Mirror(Fat(c)) # Dir
  /\ \A c, b : Data(c, b) # Dir /\ Data(c, b) # BootSector
  /\ \A c, b, d : Data(c, b) # Fat(d)
  /\ Dir \in Blocks /\ BootSector \notin Blocks
<1>1. \A c, b, d : /\ Fat(c)[1] = "fat" /\ Data(d, b)[1] = "data" /\ Dir[1] = "dir"
                   /\ BootSector[1] = "boot"
  BY DEF Fat, Data, Dir, BootSector
<1>2. \A b : Mirror(b)[1] = "copy"
  BY DEF Mirror
<1>3. \A c : Fat(c)[2] = FatIndex(c)
  BY DEF Fat
<1>4. BootSector \notin Blocks
  BY <1>1, <1>2 DEF Blocks, FatBlocks, DataBlocks
<1> QED
  BY <1>1, <1>2, <1>3, <1>4 DEF Blocks, FatBlocks

LEMMA SeenIsCard ==
  ASSUME CardOK, CacheOK, cache.state # "dirty"
  PROVE  Seen = card
<1>1. CASE cache.block = BootSector
  BY <1>1 DEF Seen
<1>2. CASE cache.block # BootSector
  <2>1. cache.block \in Blocks /\ card[cache.block] = cache.value
    BY <1>2 DEF CacheOK, CacheInv, CardOK
  <2>2. Seen = [card EXCEPT ![cache.block] = cache.value]
    BY <1>2 DEF Seen
  <2> QED
    BY <2>1, <2>2 DEF CardOK
<1> QED
  BY <1>1, <1>2

LEMMA SeenIs ==
  ASSUME CardOK, CacheOK
  PROVE  /\ Seen = [b \in Blocks |-> Seen[b]]
         /\ \A b \in Blocks : Seen[b] = IF b = cache.block THEN cache.value ELSE card[b]
<1>1. CASE cache.block = BootSector
  BY <1>1, BlocksApart DEF Seen, CardOK
<1>2. CASE cache.block # BootSector
  BY <1>2 DEF Seen, CardOK, CacheOK
<1> QED
  BY <1>1, <1>2

LEMMA ValueIs ==
  ASSUME CardOK, CacheOK, Wanted \in Blocks
  PROVE  Value = Seen[Wanted]
  BY SeenIs DEF Value

LEMMA ReadKeeps ==
  ASSUME StoreOK, Read, ~MustFlush, card' = card, Wanted \in Blocks
  PROVE  StoreOK' /\ Seen' = Seen /\ (cache.state = "dirty" => cache' = cache)
<1>1. CASE Wanted = cache.block
  <2>1. cache' = cache
    BY <1>1 DEF Read
  <2>2. Seen' = Seen
    BY <2>1 DEF Seen
  <2> QED
    BY <2>1, <2>2 DEF StoreOK, CardOK, CacheOK, CacheInv, Typed
<1>2. CASE Wanted # cache.block
  <2>1. cache' = [block |-> Wanted, value |-> card[Wanted], state |-> "clean"]
    BY <1>2 DEF Read, Value
  <2>2. cache.state = "clean"
    BY <1>2 DEF MustFlush
  <2>3. cache'.block = Wanted /\ cache'.value = card[Wanted] /\ cache'.state = "clean"
    BY <2>1
  <2>4. CardOK' /\ CacheOK'
    BY <2>1, <2>3, BlocksApart DEF StoreOK, CardOK, CacheOK, CacheInv, CacheShape
  <2>5. Seen = card
    BY <2>2, SeenIsCard DEF StoreOK
  <2>6. Seen' = card
    <3>1. Wanted # BootSector
      BY BlocksApart
    <3>2. Seen' = [card' EXCEPT ![cache'.block] = cache'.value]
      BY <2>3, <3>1 DEF Seen
    <3>3. card = [b \in Blocks |-> card[b]]
      BY DEF StoreOK, CardOK
    <3> QED
      BY <2>3, <3>2, <3>3
  <2> QED
    BY <2>2, <2>4, <2>5, <2>6 DEF StoreOK, Typed
<1> QED
  BY <1>1, <1>2

LEMMA PutStored ==
  ASSUME StoreOK, NEW v, Put(v), ~MustFlush, card' = card, Wanted \in Blocks
  PROVE  /\ CardOK' /\ CacheOK' /\ Typed(card)'
         /\ cache'.block = Wanted /\ cache'.state = "dirty"
         /\ \A b \in Blocks : Seen'[b] = IF b = Wanted THEN v ELSE Seen[b]
<1>1. cache' = [block |-> Wanted, value |-> v, state |-> "dirty"]
  BY DEF Put
<1>2. cache'.block = Wanted /\ cache'.value = v /\ cache'.state = "dirty"
  BY <1>1
<1>3. CardOK' /\ CacheOK' /\ Typed(card)'
  BY <1>1, <1>2, BlocksApart DEF StoreOK, CardOK, CacheOK, CacheInv, CacheShape, Typed
<1>4. \A b \in Blocks : b # Wanted => Seen[b] = card[b]
  <2>1. CASE Wanted = cache.block
    BY <2>1, SeenIs DEF StoreOK
  <2>2. CASE Wanted # cache.block
    <3>1. cache.state = "clean"
      BY <2>2 DEF MustFlush
    <3> QED
      BY <3>1, SeenIsCard DEF StoreOK
  <2> QED
    BY <2>1, <2>2
<1>5. Seen' = [card' EXCEPT ![cache'.block] = cache'.value]
  BY <1>2, BlocksApart DEF Seen
<1>6. \A b \in Blocks : Seen'[b] = IF b = Wanted THEN v ELSE card[b]
  <2>1. card = [b \in Blocks |-> card[b]]
    BY DEF StoreOK, CardOK
  <2> QED
    BY <1>2, <1>5, <2>1
<1> QED
  BY <1>2, <1>3, <1>4, <1>6
-----------------------------------------------------------------------------
(* What the accesses do to the FAT and the directory.                       *)
CardKept == CardFat' = CardFat /\ CardDir' = CardDir
SeenKept == SeenFat' = SeenFat /\ SeenDir' = SeenDir

LEMMA FatIs ==
  ASSUME Typed(card), Typed(Seen)
  PROVE  /\ CardFat \in Fats /\ SeenFat \in Fats
         /\ CardDir \in [Files -> Entry] /\ SeenDir \in [Files -> Entry]
         /\ \A c \in Clusters : SeenFat[c] = Seen[Fat(c)][c]
  BY DEF Typed, CardFat, SeenFat, CardDir, SeenDir, FatEntry, Fats, InFat

LEMMA CardKeeps == card' = card => CardKept
  BY DEF CardKept, CardFat, CardDir, FatEntry

LEMMA SeenKeeps == Seen' = Seen => SeenKept
  BY DEF SeenKept, SeenFat, SeenDir, FatEntry

LEMMA NothingMoves ==
  ASSUME StoreOK, card' = card, cache' = cache
  PROVE  StoreOK' /\ CardKept /\ SeenKept
<1>1. Seen' = Seen
  BY DEF Seen
<1> QED
  BY <1>1, CardKeeps, SeenKeeps DEF StoreOK, CardOK, CacheOK, CacheInv, Typed

LEMMA ReadsOnly ==
  ASSUME StoreOK, Read, ~MustFlush, card' = card, Wanted \in Blocks
  PROVE  /\ StoreOK' /\ CardKept /\ SeenKept
         /\ cache.state = "dirty" => cache' = cache
  BY ReadKeeps, CardKeeps, SeenKeeps

LEMMA FatPut ==
  ASSUME StoreOK, NEW x \in Clusters, NEW y \in FatValues, Wanted = Fat(x),
         Put([Value EXCEPT ![x] = y]), ~MustFlush, card' = card
  PROVE  /\ StoreOK' /\ CardKept
         /\ SeenFat' = Marked(SeenFat, x, y) /\ SeenDir' = SeenDir
         /\ cache'.block # Dir /\ SeenFat[x] = Value[x]
<1> DEFINE v == [Value EXCEPT ![x] = y]
<1>1. Wanted \in Blocks /\ Wanted # Dir
  BY BlocksApart
<1>2. Value = Seen[Fat(x)]
  BY <1>1, ValueIs DEF StoreOK
<1>3. /\ CardOK' /\ CacheOK' /\ Typed(card)' /\ cache'.block = Fat(x)
      /\ \A b \in Blocks : Seen'[b] = IF b = Fat(x) THEN v ELSE Seen[b]
  BY <1>1, PutStored
<1>4. v \in [InFat(x) -> FatValues] /\ v[x] = y
      /\ \A d \in InFat(x) : d # x => v[d] = Seen[Fat(x)][d]
  BY <1>2 DEF StoreOK, Typed, InFat
<1> HIDE DEF v
<1>5. \A c \in Clusters : Seen'[Fat(c)] \in [InFat(c) -> FatValues]
  <2> TAKE c \in Clusters
  <2>1. CASE Fat(c) = Fat(x)
    <3>1. InFat(c) = InFat(x)
      BY <2>1, BlocksApart DEF InFat
    <3> QED
      BY <1>3, <1>4, <2>1, <3>1, BlocksApart
  <2>2. CASE Fat(c) # Fat(x)
    BY <1>3, <2>2, BlocksApart DEF StoreOK, Typed
  <2> QED
    BY <2>1, <2>2
<1>6. Seen'[Dir] = Seen[Dir]
  BY <1>1, <1>3, BlocksApart
<1>7. Typed(Seen)'
  BY <1>5, <1>6 DEF StoreOK, Typed
<1>8. \A c \in Clusters : Seen'[Fat(c)][c] = IF c = x THEN y ELSE Seen[Fat(c)][c]
  <2> TAKE c \in Clusters
  <2>1. CASE Fat(c) = Fat(x)
    <3>1. c \in InFat(x)
      BY <2>1, BlocksApart DEF InFat
    <3> QED
      BY <1>3, <1>4, <2>1, <3>1, BlocksApart
  <2>2. CASE Fat(c) # Fat(x)
    BY <1>3, <2>2, BlocksApart
  <2> QED
    BY <2>1, <2>2
<1>9. SeenFat' = Marked(SeenFat, x, y)
  BY <1>8 DEF SeenFat, FatEntry, Marked
<1>10. SeenFat[x] = Value[x]
  BY <1>2 DEF SeenFat, FatEntry
<1> QED
  BY <1>1, <1>3, <1>6, <1>7, <1>9, <1>10, CardKeeps DEF StoreOK, SeenDir

LEMMA DirPut ==
  ASSUME StoreOK, NEW f \in Files, NEW e \in Entry, NEW v \in [Files -> Entry],
         v[f] = e, \A g \in Files : g # f => v[g] = Value[g],
         Wanted = Dir, Put(v), ~MustFlush, card' = card
  PROVE  /\ StoreOK' /\ CardKept
         /\ SeenFat' = SeenFat /\ SeenDir' = Marked(SeenDir, f, e)
         /\ cache'.block = Dir /\ cache'.state = "dirty"
<1>1. Wanted \in Blocks
  BY BlocksApart
<1>2. Value = Seen[Dir]
  BY <1>1, ValueIs DEF StoreOK
<1>3. /\ CardOK' /\ CacheOK' /\ Typed(card)' /\ cache'.block = Dir /\ cache'.state = "dirty"
      /\ \A b \in Blocks : Seen'[b] = IF b = Dir THEN v ELSE Seen[b]
  BY <1>1, PutStored
<1>4. \A c \in Clusters : Seen'[Fat(c)] = Seen[Fat(c)]
  BY <1>3, BlocksApart
<1>5. Seen'[Dir] = v
  BY <1>3, BlocksApart
<1>6. Typed(Seen)'
  BY <1>4, <1>5 DEF StoreOK, Typed
<1>7. SeenFat' = SeenFat
  BY <1>4 DEF SeenFat, FatEntry
<1>8. SeenDir' = Marked(SeenDir, f, e)
  BY <1>2, <1>5 DEF SeenDir, StoreOK, Typed, Marked
<1> QED
  BY <1>3, <1>6, <1>7, <1>8, CardKeeps DEF StoreOK

LEMMA DataPut ==
  ASSUME StoreOK, NEW c \in Clusters, NEW b, Wanted = Data(c, b), Wanted \in Blocks,
         NEW v, Put(v), ~MustFlush, card' = card
  PROVE  StoreOK' /\ CardKept /\ SeenKept /\ cache'.block # Dir
<1>1. /\ CardOK' /\ CacheOK' /\ Typed(card)' /\ cache'.block = Wanted
      /\ \A d \in Blocks : Seen'[d] = IF d = Wanted THEN v ELSE Seen[d]
  BY PutStored
<1>2. Wanted # Dir /\ \A d \in Clusters : Wanted # Fat(d)
  BY BlocksApart
<1>3. Seen'[Dir] = Seen[Dir] /\ \A d \in Clusters : Seen'[Fat(d)] = Seen[Fat(d)]
  BY <1>1, <1>2, BlocksApart
<1>4. Typed(Seen)'
  BY <1>3 DEF StoreOK, Typed
<1>5. SeenKept
  BY <1>3 DEF SeenKept, SeenFat, SeenDir, FatEntry
<1> QED
  BY <1>1, <1>2, <1>4, <1>5, CardKeeps DEF StoreOK

LEMMA FlushSaves ==
  ASSUME StoreOK, FlushBlock
  PROVE  /\ StoreOK' /\ SeenKept /\ CardFat' = SeenFat /\ CardDir' = SeenDir
         /\ cache'.block = cache.block /\ cache'.state # "dirty" /\ Seen' = Seen /\ card' = Seen
<1>1. /\ card' = [card EXCEPT ![cache.block] = cache.value]
      /\ cache.state = "dirty"
  BY DEF FlushBlock
<1>2. /\ CacheShape(cache') /\ cache'.block = cache.block /\ cache'.value = cache.value
      /\ cache'.state \in {"mirror", "clean"}
      /\ cache'.state = "mirror" => cache.block \in FatBlocks
  <2>1. PICK s \in {"mirror", "clean"} :
          cache' = [cache EXCEPT !.state = s] /\ (s = "mirror" => cache.block \in FatBlocks)
    BY DEF FlushBlock
  <2> QED
    BY <2>1 DEF StoreOK, CacheOK, CacheShape
<1>3. cache.block \in Blocks /\ cache.block # BootSector
  BY <1>1, BlocksApart DEF StoreOK, CacheOK
<1>4. Seen = card'
  BY <1>1, <1>3 DEF Seen
<1>5. CardOK'
  BY <1>1, <1>3 DEF StoreOK, CardOK
<1>6. CacheOK'
  <2>1. card'[cache.block] = cache.value
    BY <1>1, <1>3 DEF StoreOK, CardOK
  <2> QED
    BY <1>2, <1>3, <2>1 DEF CacheOK, CacheInv
<1>7. Seen' = card'
  <2>1. CASE cache'.block = BootSector
    BY <2>1 DEF Seen
  <2>2. CASE cache'.block # BootSector
    <3>1. Seen' = [card' EXCEPT ![cache'.block] = cache'.value]
      BY <2>2 DEF Seen
    <3>2. card'[cache'.block] = cache'.value
      BY <1>1, <1>2, <1>3 DEF StoreOK, CardOK
    <3>3. card' = [b \in Blocks |-> card'[b]]
      BY <1>5 DEF CardOK
    <3> QED
      BY <3>1, <3>2, <3>3
  <2> QED
    BY <2>1, <2>2
<1>8. Typed(card)' /\ Typed(Seen)'
  BY <1>4, <1>7 DEF StoreOK, Typed
<1>9. CardFat' = SeenFat /\ CardDir' = SeenDir
  BY <1>4 DEF CardFat, CardDir, SeenFat, SeenDir, FatEntry
<1>10. Seen' = Seen
  BY <1>4, <1>7
<1> QED
  BY <1>2, <1>4, <1>5, <1>6, <1>8, <1>9, <1>10, SeenKeeps DEF StoreOK

LEMMA MirrorSaves ==
  ASSUME StoreOK, FlushMirror
  PROVE  StoreOK' /\ SeenKept /\ CardKept /\ cache'.block = cache.block
         /\ cache'.state = "clean" /\ cache.state = "mirror" /\ Seen = card /\ Seen' = card'
<1>1. /\ card' = [card EXCEPT ![Mirror(cache.block)] = cache.value]
      /\ cache.state = "mirror" /\ cache' = [cache EXCEPT !.state = "clean"]
  BY DEF FlushMirror
<1>2. /\ CacheShape(cache') /\ cache'.block = cache.block /\ cache'.value = cache.value
      /\ cache'.state = "clean"
  BY <1>1 DEF StoreOK, CacheOK, CacheShape
<1>3. PICK c \in Clusters : cache.block = Fat(c)
  BY <1>1 DEF StoreOK, CacheOK, FatBlocks
<1>4. card = [b \in Blocks |-> card[b]]
  BY DEF StoreOK, CardOK
<1>5. CardOK'
  BY <1>1, <1>4 DEF CardOK
<1>6. \A d \in Clusters : card'[Fat(d)] = card[Fat(d)]
  BY <1>1, <1>3, <1>4, BlocksApart
<1>7. card'[Dir] = card[Dir]
  BY <1>1, <1>3, <1>4, BlocksApart
<1>8. card[cache.block] = cache.value
  BY <1>1, <1>3, <1>4, BlocksApart DEF StoreOK, CacheOK, CacheInv
<1>9. CacheOK'
  BY <1>2, <1>3, <1>6, <1>8, BlocksApart DEF StoreOK, CacheOK, CacheInv
<1>10. Seen = card /\ Seen' = card'
  <2>1. Seen = card
    BY <1>1, SeenIsCard DEF StoreOK
  <2>2. cache'.block # BootSector
    BY <1>2, <1>3, BlocksApart
  <2>3. Seen' = [card' EXCEPT ![cache'.block] = cache'.value]
    BY <2>2 DEF Seen
  <2>4. card'[cache'.block] = cache'.value
    BY <1>2, <1>3, <1>6, <1>8
  <2>5. card' = [b \in Blocks |-> card'[b]]
    BY <1>5 DEF CardOK
  <2> QED
    BY <2>1, <2>3, <2>4, <2>5
<1>11. Typed(card)' /\ Typed(Seen)'
  BY <1>6, <1>7, <1>10 DEF StoreOK, Typed
<1>12. CardKept /\ SeenKept
  BY <1>6, <1>7, <1>10 DEF CardKept, SeenKept, CardFat, SeenFat, CardDir, SeenDir, FatEntry
<1> QED
  BY <1>1, <1>2, <1>5, <1>9, <1>10, <1>11, <1>12 DEF StoreOK
-----------------------------------------------------------------------------
(* Positions and the clusters they are in.                                  *)
LEMMA Geometry ==
  /\ PerBlock \in Nat \ {0} /\ BlocksPerCluster \in Nat \ {0}
  /\ PerCluster \in Nat \ {0} /\ PerCluster = BlocksPerCluster * PerBlock
  /\ LastCluster \in Nat /\ LastCluster >= 2 /\ MaxPrint \in Nat /\ MaxPrint < PerBlock
  /\ MaxUnits \in Nat /\ MaxTroubles \in Nat
<1>1. /\ PerBlock \in Nat \ {0} /\ BlocksPerCluster \in Nat \ {0}
      /\ LastCluster \in Nat /\ LastCluster >= 2 /\ MaxPrint \in Nat /\ MaxPrint < PerBlock
      /\ MaxUnits \in Nat /\ MaxTroubles \in Nat
  BY GeometryAssumption
<1>2. \A a, b \in Nat \ {0} : a * b \in Nat \ {0} /\ a * b = b * a
  OBVIOUS
<1> QED
  BY <1>1, <1>2 DEF PerCluster

LEMMA Division ==
  ASSUME NEW n \in Nat, NEW m \in Nat \ {0}
  PROVE  /\ n = (n \div m) * m + (n % m) /\ n % m \in 0 .. m - 1 /\ n \div m \in Nat
         /\ (n \div m) * m \in Nat
  OBVIOUS

LEMMA Times ==
  ASSUME NEW m \in Nat \ {0}, NEW a \in Nat, NEW b \in Nat, a <= b
  PROVE  a * m <= b * m
<1>1. PICK c \in Nat : b = a + c
  <2>1. b - a \in Nat /\ b = a + (b - a)
    OBVIOUS
  <2> QED
    BY <2>1
<1>2. (a + c) * m = a * m + c * m
  OBVIOUS
<1>3. c * m \in Nat /\ a * m \in Nat
  OBVIOUS
<1> QED
  BY <1>1, <1>2, <1>3

LEMMA DivisionBelow ==
  ASSUME NEW n \in Nat, NEW m \in Nat \ {0}, NEW q \in Nat, n < (q + 1) * m
  PROVE  n \div m <= q
<1> DEFINE k == n \div m
<1>1. k \in Nat /\ k * m <= n
  BY Division
<1>2. ASSUME k >= q + 1 PROVE FALSE
  <2> HIDE DEF k
  <2>1. (q + 1) * m <= k * m
    BY <1>1, <1>2, Times
  <2>2. (q + 1) * m \in Nat /\ k * m \in Nat
    BY <1>1
  <2> QED
    BY <1>1, <2>1, <2>2
<1> HIDE DEF k
<1>3. k <= q
  BY <1>1, <1>2
<1> QED
  BY <1>3 DEF k

LEMMA DivisionAbove ==
  ASSUME NEW n \in Nat, NEW m \in Nat \ {0}, NEW q \in Nat, q * m <= n
  PROVE  q <= n \div m
<1> DEFINE k == n \div m
<1>1. k \in Nat /\ n < (k + 1) * m
  <2>1. n = k * m + (n % m) /\ n % m \in 0 .. m - 1 /\ k \in Nat /\ k * m \in Nat
    BY Division
  <2>2. n % m < m
    BY <2>1
  <2> HIDE DEF k
  <2>3. (k + 1) * m = k * m + m
    BY <2>1
  <2> QED
    BY <2>1, <2>2, <2>3
<1>2. ASSUME q >= k + 1 PROVE FALSE
  <2> HIDE DEF k
  <2>1. (k + 1) * m <= q * m
    BY <1>1, <1>2, Times
  <2>2. (k + 1) * m \in Nat /\ q * m \in Nat
    BY <1>1
  <2> QED
    BY <1>1, <2>1, <2>2
<1> HIDE DEF k
<1>3. q <= k
  BY <1>1, <1>2
<1> QED
  BY <1>3 DEF k

LEMMA DivisionType ==
  ASSUME NEW n \in Nat, NEW m \in Nat \ {0}
  PROVE  n \div m \in Nat /\ (n \div m) * m \in Nat /\ (n \div m) * m <= n
<1> DEFINE k == (n \div m) * m
           r == n % m
<1>1. n = k + r /\ r \in 0 .. m - 1 /\ k \in Nat /\ n \div m \in Nat
  BY Division
<1> HIDE DEF k, r
<1>2. k <= n
  BY <1>1
<1> QED
  BY <1>1, <1>2 DEF k

LEMMA IndexType == \A n \in Nat : n > 0 => Index(n) \in Nat /\ Index(n) * PerCluster < n
<1> TAKE n \in Nat
<1> HAVE n > 0
<1>1. n - 1 \in Nat
  OBVIOUS
<1> DEFINE i == (n - 1) \div PerCluster
           p == i * PerCluster
<1>2. i \in Nat /\ p \in Nat /\ p <= n - 1
  BY <1>1, Geometry, DivisionType
<1> HIDE DEF p
<1>3. p < n
  BY <1>2
<1> QED
  BY <1>2, <1>3 DEF Index, p

LEMMA IndexGrows == \A a, b \in Nat : 0 < a /\ a <= b => Index(a) <= Index(b)
<1> TAKE a, b \in Nat
<1> HAVE 0 < a /\ a <= b
<1> DEFINE m == PerCluster
           i == Index(a)
<1>1. i \in Nat /\ i * m < a /\ i * m \in Nat /\ m \in Nat \ {0} /\ b - 1 \in Nat
  BY IndexType, Geometry
<1> HIDE DEF i, m
<1>2. i * m <= b - 1
  BY <1>1
<1>3. i <= (b - 1) \div m
  BY <1>1, <1>2, DivisionAbove
<1> QED
  BY <1>3 DEF i, m, Index

(* The first position of a cluster, and the others.                         *)
LEMMA IndexAtEnd ==
  ASSUME NEW n \in Nat, n > 0, n % PerCluster = 0
  PROVE  n \div PerCluster <= Index(n) + 1
<1> DEFINE m == PerCluster
           i == Index(n)
           k == n \div m
<1>1. i \in Nat /\ m \in Nat \ {0} /\ n - 1 \in Nat
  BY IndexType, Geometry
<1>2. k \in Nat /\ n = k * m
  <2>1. n = (n \div m) * m + (n % m) /\ n \div m \in Nat
    BY <1>1, Division
  <2>2. n = (n \div m) * m + 0
    BY <2>1
  <2>3. (n \div m) * m \in Nat
    BY <1>1, DivisionType
  <2> QED
    BY <2>1, <2>2, <2>3
<1> HIDE DEF k, m
<1>3. k # 0
  BY <1>1, <1>2
<1>4. k - 1 \in Nat /\ (k - 1) * m = k * m - m
  BY <1>1, <1>2, <1>3
<1>5. (k - 1) * m <= n - 1
  BY <1>1, <1>2, <1>4
<1>6. k - 1 <= (n - 1) \div m
  BY <1>1, <1>4, <1>5, DivisionAbove
<1>7. k - 1 <= i
  BY <1>6 DEF Index, m
<1> HIDE DEF i
<1>8. k <= i + 1
  BY <1>1, <1>2, <1>7
<1> QED
  BY <1>8 DEF i, k, m

LEMMA IndexInside ==
  ASSUME NEW n \in Nat, n % PerCluster # 0
  PROVE  n > 0 /\ n \div PerCluster <= Index(n)
<1> DEFINE m == PerCluster
           k == n \div m
<1>1. m \in Nat \ {0} /\ k \in Nat /\ n = k * m + (n % m) /\ n % m \in 0 .. m - 1
      /\ k * m \in Nat
  BY Geometry, Division
<1>2. n % m > 0
  BY <1>1
<1> DEFINE r == n % m
<1> HIDE DEF k, r
<1>3. n > 0 /\ n - 1 \in Nat /\ k * m <= n - 1
  <2>1. r \in Nat /\ r > 0 /\ n = k * m + r /\ k * m \in Nat
    BY <1>1, <1>2 DEF r
  <2> DEFINE z == k * m
  <2> HIDE DEF z, m
  <2>2. z \in Nat /\ n = z + r
    BY <2>1 DEF z
  <2>3. n > 0 /\ n - 1 \in Nat /\ z <= n - 1
    BY <2>1, <2>2
  <2> QED
    BY <2>3 DEF z
<1>4. k <= (n - 1) \div m
  <2> HIDE DEF m
  <2> QED
    BY <1>1, <1>3, DivisionAbove
<1> QED
  BY <1>3, <1>4 DEF k, m, Index

(* What a print puts into one block stays in one cluster.                   *)
LEMMA IndexInBlock ==
  ASSUME NEW n \in Nat, NEW k \in Nat, (n % PerBlock) + k <= PerBlock, n + k > 0
  PROVE  Index(n + k) <= n \div PerCluster
<1> DEFINE b == PerBlock
           z == BlocksPerCluster
           m == PerCluster
           q == n \div m
           r == n \div b
<1>1. b \in Nat \ {0} /\ z \in Nat \ {0} /\ m \in Nat \ {0} /\ m = z * b
  BY Geometry
<1>2. q \in Nat /\ r \in Nat /\ n = r * b + (n % b) /\ r * b \in Nat
      /\ n < (q + 1) * m
  <2>1. r \in Nat /\ n = r * b + (n % b) /\ r * b \in Nat
    BY <1>1, Division
  <2>2. q \in Nat /\ n = q * m + (n % m) /\ n % m \in 0 .. m - 1 /\ q * m \in Nat
    BY <1>1, Division
  <2> HIDE DEF q, m
  <2>3. (q + 1) * m = q * m + m
    BY <1>1, <2>2
  <2>4. n < (q + 1) * m
    BY <1>1, <2>2, <2>3
  <2> QED
    BY <2>1, <2>2, <2>4
<1>3. n + k <= (r + 1) * b
  <2>1. (r + 1) * b = r * b + b
    <3> HIDE DEF r, b
    <3> QED
      BY <1>1, <1>2
  <2> DEFINE s == r * b
             t == n % b
  <2>2. n = s + t /\ t + k <= b /\ s \in Nat /\ t \in Nat
    BY <1>1, <1>2, Division
  <2> HIDE DEF s, t
  <2>3. n + k <= s + b
    BY <1>1, <2>2
  <2> QED
    BY <2>1, <2>3 DEF s
<1>4. r + 1 <= (q + 1) * z
  <2> HIDE DEF q, r, m, z, b
  <2>1. (q + 1) * m = ((q + 1) * z) * b
    <3>1. q + 1 \in Nat
      BY <1>2
    <3>2. \A x \in Nat : x * (z * b) = (x * z) * b
      BY <1>1
    <3> QED
      BY <1>1, <3>1, <3>2
  <2>2. (q + 1) * z \in Nat
    BY <1>1, <1>2
  <2> DEFINE y == (q + 1) * z
  <2>3. r * b < y * b /\ y \in Nat
    <3>1. n \in Nat /\ r * b <= n
      <4>1. n % b \in Nat
        BY <1>1, Division
      <4> QED
        BY <1>2, <4>1
    <3> DEFINE x == r * b
               w == y * b
    <3>2. n < w /\ x <= n /\ x \in Nat /\ y \in Nat
      BY <1>2, <2>1, <2>2, <3>1
    <3>3. w \in Nat
      BY <1>1, <3>2
    <3> HIDE DEF x, w, y
    <3>4. x < w
      BY <3>2, <3>3
    <3> QED
      BY <3>2, <3>4 DEF x, w
  <2> HIDE DEF y
  <2>4. ASSUME y <= r PROVE FALSE
    <3>1. y * b <= r * b /\ y * b \in Nat
      BY <1>1, <1>2, <2>3, <2>4, Times
    <3> QED
      BY <1>2, <2>3, <3>1
  <2>5. r + 1 <= y
    BY <1>2, <2>3, <2>4
  <2> QED
    BY <2>5 DEF y
<1>5. (r + 1) * b <= (q + 1) * m
  <2> HIDE DEF q, r, m, z, b
  <2>1. (r + 1) * b <= ((q + 1) * z) * b
    <3> DEFINE y == (q + 1) * z
    <3>1. y \in Nat /\ r + 1 \in Nat /\ r + 1 <= y
      BY <1>1, <1>2, <1>4
    <3> HIDE DEF y
    <3>2. (r + 1) * b <= y * b
      BY <1>1, <3>1, Times
    <3> QED
      BY <3>2 DEF y
  <2>2. \A x \in Nat : x * (z * b) = (x * z) * b
    BY <1>1
  <2>3. ((q + 1) * z) * b = (q + 1) * m
    BY <1>1, <1>2, <2>2
  <2> QED
    BY <2>1, <2>3
<1>6. n + k - 1 \in Nat /\ n + k - 1 < (q + 1) * m
  <2> DEFINE y == (q + 1) * m
             x == (r + 1) * b
  <2>1. x \in Nat /\ y \in Nat
    <3> HIDE DEF q, r, m, b
    <3> QED
      BY <1>1, <1>2
  <2>2. n + k <= x /\ x <= y
    BY <1>3, <1>5
  <2> HIDE DEF x, y
  <2>3. n + k - 1 \in Nat /\ n + k - 1 < y
    BY <2>1, <2>2
  <2> QED
    BY <2>3 DEF y
<1>7. (n + k - 1) \div m <= q
  <2> HIDE DEF q, m
  <2> QED
    BY <1>1, <1>2, <1>6, DivisionBelow
<1> QED
  BY <1>7 DEF Index
-----------------------------------------------------------------------------
(* Directories over a FAT.                                                  *)
LEMMA EntriesKept ==
  ASSUME NEW F \in Fats, NEW G \in Fats, NEW D, NEW x, Entries(F, D, x),
         \A f \in Files : D[f].size \in Nat,
         \A f \in Files \ {x} : D[f].first # 0 => Heads(G, D[f].first),
         \A f \in Files \ {x} : \A n \in Nat, c \in Clusters :
           Leads(F, D[f].first, n, c) => Leads(G, D[f].first, n, c)
  PROVE  Entries(G, D, x)
<1>1. ASSUME NEW f \in Files \ {x} PROVE Stored(G, D[f].first, D[f].size)
  <2>1. CASE D[f].size > 0
    <3>1. Index(D[f].size) \in Nat
      BY <2>1, IndexType
    <3>2. PICK c \in Clusters : Leads(F, D[f].first, Index(D[f].size), c)
      BY <2>1 DEF Entries, Stored
    <3> QED
      BY <3>1, <3>2 DEF Stored
  <2>2. CASE ~(D[f].size > 0)
    BY <2>2 DEF Stored
  <2> QED
    BY <2>1, <2>2
<1> QED
  BY <1>1 DEF Entries

LEMMA EntriesSame ==
  ASSUME NEW F, NEW D, NEW E, NEW x, Entries(F, D, x),
         \A f \in Files \ {x} : E[f].first = D[f].first /\ E[f].size = D[f].size
  PROVE  Entries(F, E, x)
  BY DEF Entries

LEMMA EntriesBut ==
  ASSUME NEW F, NEW D, NEW E, NEW x, Entries(F, D, x), NEW h \in Files,
         \A f \in Files \ {x, h} : E[f].first = D[f].first /\ E[f].size = D[f].size,
         E[h].first # 0 => Heads(F, E[h].first),
         E[h].first # 0 => \A f \in Files \ {x, h} : D[f].first # E[h].first,
         Stored(F, E[h].first, E[h].size)
  PROVE  Entries(F, E, x)
<1>1. \A f \in Files \ {x} :
        (E[f].first # 0 => Heads(F, E[f].first)) /\ Stored(F, E[f].first, E[f].size)
  BY DEF Entries
<1>2. ASSUME NEW f \in Files \ {x}, NEW g \in Files \ {x}, f # g, E[f].first # 0
      PROVE  E[f].first # E[g].first
  <2>1. CASE f = h
    BY <1>2, <2>1
  <2>2. CASE g = h
    BY <1>2, <2>2
  <2>3. CASE f # h /\ g # h
    BY <1>2, <2>3 DEF Entries
  <2> QED
    BY <2>1, <2>2, <2>3
<1> QED
  BY <1>1, <1>2 DEF Entries

LEMMA EntriesLess ==
  ASSUME NEW F, NEW D, NEW x, Entries(F, D, NoName)
  PROVE  Entries(F, D, x)
<1>1. NoName \notin Files
  BY GeometryAssumption
<1> QED
  BY <1>1 DEF Entries

LEMMA EntriesAll ==
  ASSUME NEW F, NEW D, NEW x, Entries(F, D, x), x \notin Files \/ (D[x].first = 0 /\ D[x].size = 0)
  PROVE  Entries(F, D, NoName)
<1>1. CASE x \notin Files
  BY <1>1 DEF Entries
<1>2. CASE x \in Files
  <2>1. D[x].first = 0 /\ D[x].size = 0
    BY <1>2
  <2>2. Stored(F, D[x].first, D[x].size)
    BY <2>1 DEF Stored
  <2>3. \A f \in Files :
          (D[f].first # 0 => Heads(F, D[f].first)) /\ Stored(F, D[f].first, D[f].size)
    BY <2>1, <2>2 DEF Entries
  <2>4. \A f, g \in Files : f # g /\ D[f].first # 0 => D[f].first # D[g].first
    BY <2>1 DEF Entries
  <2> QED
    BY <2>3, <2>4 DEF Entries
<1> QED
  BY <1>1, <1>2

LEMMA StoredLess ==
  ASSUME NEW F \in Fats, NEW first, NEW n \in Nat, NEW m \in Nat, m <= n,
         Stored(F, first, n)
  PROVE  Stored(F, first, m)
<1>1. CASE m > 0
  <2>1. Index(m) \in Nat /\ Index(n) \in Nat /\ Index(m) <= Index(n)
    BY <1>1, IndexType, IndexGrows
  <2>2. PICK c \in Clusters : Leads(F, first, Index(n), c)
    BY <1>1 DEF Stored
  <2> QED
    BY <2>1, <2>2, LeadsShort DEF Stored
<1>2. CASE ~(m > 0)
  BY <1>2 DEF Stored
<1> QED
  BY <1>1, <1>2
-----------------------------------------------------------------------------
FatInv == TypeInv /\ ChainInv

LEMMA NoNameIsNone == NoName \notin Files
  BY GeometryAssumption

(* The types of what the steps handle, said once.                           *)
LEMMA TypesAre ==
  ASSUME TypeInv
  PROVE  /\ CardFat \in Fats /\ SeenFat \in Fats
         /\ CardDir \in [Files -> Entry] /\ SeenDir \in [Files -> Entry]
         /\ file.name \in Files \cup {NoName} /\ file.size \in Nat /\ file.pos \in Nat
         /\ file.first \in {Free} \cup Clusters /\ file.cur \in {Free} \cup Clusters
         /\ \A f \in Files : SeenDir[f].size \in Nat /\ CardDir[f].size \in Nat
         /\ Units \subseteq Nat
<1>1. CardFat \in Fats /\ SeenFat \in Fats
      /\ CardDir \in [Files -> Entry] /\ SeenDir \in [Files -> Entry]
  BY FatIs DEF TypeInv, StoreOK
<1>2. Units \subseteq Nat
  BY Geometry DEF Units
<1> QED
  BY <1>1, <1>2 DEF TypeInv, Handles, Entry

LEMMA HeldIs ==
  ASSUME NEW f \in Files
  PROVE  /\ f = file.name => Held[f].first = file.first /\ Held[f].size = file.size
         /\ f # file.name => Held[f] = SeenDir[f]
  BY DEF Held

LEMMA HeldType == TypeInv => \A f \in Files : Held[f].size \in Nat
<1> HAVE TypeInv
<1> TAKE f \in Files
<1> QED
  BY HeldIs, TypesAre

(* The entries as they are hold less than the entries as they will be.      *)
LEMMA SeenEntries ==
  ASSUME TypeInv, EntryInv, NEW x, Entries(SeenFat, Held, x)
  PROVE  Entries(SeenFat, SeenDir, x)
<1>1. CASE file.name \notin Files
  <2>1. \A f \in Files \ {x} : SeenDir[f] = Held[f]
    BY <1>1, HeldIs
  <2> QED
    BY <2>1, EntriesSame
<1>2. CASE file.name \in Files
  <2> DEFINE h == file.name
  <2>1. \A f \in Files \ {x, h} :
          SeenDir[f].first = Held[f].first /\ SeenDir[f].size = Held[f].size
    BY HeldIs
  <2>2. Held[h].first = file.first /\ Held[h].size = file.size
    BY <1>2, HeldIs
  <2>3. \/ SeenDir[h].first = 0 /\ SeenDir[h].size = 0
        \/ SeenDir[h].first = file.first /\ SeenDir[h].size <= file.size
    BY <1>2, NoNameIsNone DEF EntryInv
  <2>4. CASE h = x
    <3>1. \A f \in Files \ {x} :
            SeenDir[f].first = Held[f].first /\ SeenDir[f].size = Held[f].size
      BY <2>1, <2>4
    <3> QED
      BY <3>1, EntriesSame
  <2>5. CASE h # x
    <3>1. Stored(SeenFat, SeenDir[h].first, SeenDir[h].size)
      <4>1. CASE SeenDir[h].size = 0
        BY <4>1 DEF Stored
      <4>2. CASE SeenDir[h].first = file.first /\ SeenDir[h].size <= file.size
        <5>1. Stored(SeenFat, file.first, file.size)
          BY <1>2, <2>2, <2>5 DEF Entries
        <5>2. SeenFat \in Fats /\ file.size \in Nat /\ SeenDir[h].size \in Nat
          BY <1>2, TypesAre
        <5> QED
          BY <4>2, <5>1, <5>2, StoredLess
      <4> QED
        BY <2>3, <4>1, <4>2
    <3>2. SeenDir[h].first # 0 =>
            /\ Heads(SeenFat, SeenDir[h].first)
            /\ \A f \in Files \ {x, h} : Held[f].first # SeenDir[h].first
      <4> HAVE SeenDir[h].first # 0
      <4>1. SeenDir[h].first = Held[h].first
        BY <2>2, <2>3
      <4> QED
        BY <1>2, <2>5, <4>1 DEF Entries
    <3> QED
      BY <1>2, <2>1, <3>1, <3>2, EntriesBut
  <2> QED
    BY <2>4, <2>5
<1> QED
  BY <1>1, <1>2

(* Most steps of a call change neither FAT nor directory nor the file's     *)
(* first cluster and size.                                                  *)
LEMMA StepOn ==
  ASSUME SoundInv, CardKept, SeenKept, gone' = gone, ~Unlinking, ~Unlinking',
         file'.name = file.name, file'.size = file.size, file'.first = file.first,
         cache.state = "dirty" => cache' = cache
  PROVE  CardChains' /\ SeenChains' /\ EntryInv' /\ RemovalInv'
<1>1. Held' = Held
  BY DEF Held, SeenKept
<1>2. CardChains'
  BY DEF SoundInv, CardChains, CardKept
<1>3. SeenChains'
  BY <1>1 DEF SoundInv, SeenChains, SeenKept
<1>4. EntryInv'
  BY DEF SoundInv, EntryInv, SeenKept
<1>5. RemovalInv'
  BY DEF SoundInv, RemovalInv, SeenKept, Unlinking
<1> QED
  BY <1>2, <1>3, <1>4, <1>5
-----------------------------------------------------------------------------
(* The changes of the handle and of the call that the steps make.           *)
LEMMA HandleIs ==
  ASSUME NEW f \in Handles
  PROVE  /\ f.name \in Files \cup {NoName} /\ f.size \in Units /\ f.pos \in Units
         /\ f.first \in {Free} \cup Clusters /\ f.cur \in {Free} \cup Clusters
         /\ f.dirty \in BOOLEAN
  BY DEF Handles

LEMMA AtCluster ==
  ASSUME NEW f \in Handles, NEW c \in {Free} \cup Clusters, NEW g, g = [f EXCEPT !.cur = c]
  PROVE  /\ g \in Handles /\ g.cur = c /\ g.name = f.name /\ g.size = f.size
         /\ g.pos = f.pos /\ g.first = f.first /\ g.dirty = f.dirty
  BY DEF Handles

LEMMA AtPosition ==
  ASSUME NEW f \in Handles, NEW p \in Units, NEW g, g = [f EXCEPT !.pos = p]
  PROVE  /\ g \in Handles /\ g.pos = p /\ g.name = f.name /\ g.size = f.size
         /\ g.cur = f.cur /\ g.first = f.first /\ g.dirty = f.dirty
  BY DEF Handles

OnFirst(f, c) == [f EXCEPT !.cur = c, !.first = c, !.dirty = TRUE]

LEMMA AtFirst ==
  ASSUME NEW f \in Handles, NEW c \in Clusters,
         NEW g, g = OnFirst(f, c)
  PROVE  /\ g \in Handles /\ g.cur = c /\ g.first = c /\ g.name = f.name
         /\ g.size = f.size /\ g.pos = f.pos
<1> DEFINE e == [f EXCEPT !.cur = c]
           d == [e EXCEPT !.first = c]
<1>1. /\ e \in Handles /\ e.cur = c /\ e.name = f.name /\ e.size = f.size
      /\ e.pos = f.pos /\ e.first = f.first /\ e.dirty = f.dirty
  BY AtCluster
<1>2. g = [d EXCEPT !.dirty = TRUE]
  BY DEF OnFirst
<1> HIDE DEF e
<1>3. /\ d \in Handles /\ d.cur = c /\ d.first = c /\ d.name = f.name /\ d.size = f.size
      /\ d.pos = f.pos
  BY <1>1 DEF Handles
<1> HIDE DEF d
<1> QED
  BY <1>2, <1>3 DEF Handles

Ended(f, n) == [f EXCEPT !.size = n, !.dirty = TRUE]

LEMMA AtEnd ==
  ASSUME NEW f \in Handles, NEW n \in Units, NEW g, g = Ended(f, n)
  PROVE  /\ g \in Handles /\ g.size = n /\ g.cur = f.cur /\ g.first = f.first
         /\ g.name = f.name /\ g.pos = f.pos
<1> DEFINE e == [f EXCEPT !.size = n]
<1>1. /\ e \in Handles /\ e.size = n /\ e.cur = f.cur /\ e.first = f.first
      /\ e.name = f.name /\ e.pos = f.pos
  BY DEF Handles
<1>2. g = [e EXCEPT !.dirty = TRUE]
  BY DEF Ended
<1> HIDE DEF e
<1> QED
  BY <1>1, <1>2 DEF Handles

LEMMA NotDirty ==
  ASSUME NEW f \in Handles, NEW g, g = [f EXCEPT !.dirty = FALSE]
  PROVE  /\ g \in Handles /\ g.size = f.size /\ g.cur = f.cur /\ g.first = f.first
         /\ g.name = f.name /\ g.pos = f.pos
  BY DEF Handles

LEMMA NoHandleIs ==
  /\ NoHandle \in Handles /\ NoHandle.name = NoName /\ NoHandle.size = 0
  /\ NoHandle.pos = 0 /\ NoHandle.first = 0 /\ NoHandle.cur = 0
  BY Geometry DEF NoHandle, Handles, Units, Free

LEMMA HandleOf ==
  ASSUME NEW name \in Files, NEW entry, entry.size \in Units,
         entry.first \in {Free} \cup Clusters, NEW g, g = Handle(name, entry)
  PROVE  /\ g \in Handles /\ g.name = name /\ g.size = entry.size /\ g.first = entry.first
         /\ g.cur = 0 /\ g.pos = 0
<1>1. g = [name |-> name, size |-> entry.size, first |-> entry.first, cur |-> 0, pos |-> 0,
           dirty |-> FALSE]
  BY DEF Handle, NoHandle
<1>2. 0 \in Units
  BY Geometry DEF Units
<1> QED
  BY <1>1, <1>2 DEF Handles, Free

LEMMA CallIs ==
  ASSUME CallOK
  PROVE  /\ call.at \in Places /\ call.name \in Files \cup {NoName} /\ call.left \in Nat
         /\ call.c \in Nat /\ call.n \in Nat /\ call.out \in Seq(Units)
         /\ call.op \in {"none", "open", "print", "close", "remove"}
         /\ call.left <= Len(call.out) /\ (call.op # "print" => call.left = 0)
  BY DEF CallOK, CallType

(* A call after a step of it: the operation, the name and what is printed   *)
(* stay.                                                                    *)
Same(d) == d.op = call.op /\ d.name = call.name /\ d.out = call.out

LEMMA GoesTo ==
  ASSUME CallOK, NEW at \in Places, call' = [call EXCEPT !.at = at]
  PROVE  /\ CallOK' /\ Same(call') /\ call'.at = at
         /\ call'.c = call.c /\ call'.n = call.n /\ call'.left = call.left
<1> DEFINE d == call'
<1>1. d \in CallType /\ Same(d) /\ d.at = at /\ d.c = call.c /\ d.n = call.n
      /\ d.left = call.left
  BY DEF CallOK, CallType, Same
<1> QED
  BY <1>1, CallIs DEF CallOK, Same

LEMMA GoesOn ==
  ASSUME CallOK, NEW n \in Nat, call' = [call EXCEPT !.n = n]
  PROVE  /\ CallOK' /\ Same(call') /\ call'.at = call.at
         /\ call'.c = call.c /\ call'.n = n /\ call'.left = call.left
<1> DEFINE d == call'
<1>1. d \in CallType /\ Same(d) /\ d.at = call.at /\ d.c = call.c /\ d.n = n
      /\ d.left = call.left
  BY DEF CallOK, CallType, Same
<1> QED
  BY <1>1, CallIs DEF CallOK, Same

LEMMA GoesAlong ==
  ASSUME CallOK, NEW c \in Nat, call' = [call EXCEPT !.c = c]
  PROVE  /\ CallOK' /\ Same(call') /\ call'.at = call.at
         /\ call'.c = c /\ call'.n = call.n /\ call'.left = call.left
<1> DEFINE d == call'
<1>1. d \in CallType /\ Same(d) /\ d.at = call.at /\ d.c = c /\ d.n = call.n
      /\ d.left = call.left
  BY DEF CallOK, CallType, Same
<1> QED
  BY <1>1, CallIs DEF CallOK, Same

LEMMA GoesSeeking ==
  ASSUME CallOK, NEW at \in Places, NEW n \in Nat, call' = [call EXCEPT !.at = at, !.n = n]
  PROVE  /\ CallOK' /\ Same(call') /\ call'.at = at
         /\ call'.c = call.c /\ call'.n = n /\ call'.left = call.left
<1> DEFINE e == [call EXCEPT !.at = at]
           d == call'
<1>1. e \in CallType /\ Same(e) /\ e.at = at /\ e.c = call.c /\ e.left = call.left
  BY DEF CallOK, CallType, Same
<1>2. d = [e EXCEPT !.n = n]
  OBVIOUS
<1> HIDE DEF e
<1>3. d \in CallType /\ Same(d) /\ d.at = at /\ d.c = call.c /\ d.n = n
      /\ d.left = call.left
  BY <1>1, <1>2 DEF CallType, Same
<1> QED
  BY <1>3, CallIs DEF CallOK, Same

LEMMA GoesFrom ==
  ASSUME CallOK, NEW c \in Nat, NEW n \in Nat, call' = [call EXCEPT !.c = c, !.n = n]
  PROVE  /\ CallOK' /\ Same(call') /\ call'.at = call.at
         /\ call'.c = c /\ call'.n = n /\ call'.left = call.left
<1> DEFINE e == [call EXCEPT !.c = c]
           d == call'
<1>1. e \in CallType /\ Same(e) /\ e.at = call.at /\ e.c = c /\ e.left = call.left
  BY DEF CallOK, CallType, Same
<1>2. d = [e EXCEPT !.n = n]
  OBVIOUS
<1> HIDE DEF e
<1>3. d \in CallType /\ Same(d) /\ d.at = call.at /\ d.c = c /\ d.n = n
      /\ d.left = call.left
  BY <1>1, <1>2 DEF CallType, Same
<1> QED
  BY <1>3, CallIs DEF CallOK, Same

LEMMA GoesSearching ==
  ASSUME CallOK, NEW at \in Places, NEW c \in Nat, NEW n \in Nat,
         call' = [call EXCEPT !.at = at, !.c = c, !.n = n]
  PROVE  /\ CallOK' /\ Same(call') /\ call'.at = at
         /\ call'.c = c /\ call'.n = n /\ call'.left = call.left
<1> DEFINE e == [call EXCEPT !.at = at]
           b == [e EXCEPT !.c = c]
           d == call'
<1>1. e \in CallType /\ Same(e) /\ e.at = at /\ e.left = call.left
  BY DEF CallOK, CallType, Same
<1>2. d = [b EXCEPT !.n = n]
  OBVIOUS
<1> HIDE DEF e
<1>3. b \in CallType /\ Same(b) /\ b.at = at /\ b.left = call.left /\ b.c = c
  BY <1>1 DEF CallType, Same
<1> HIDE DEF b
<1>4. d \in CallType /\ Same(d) /\ d.at = at /\ d.c = c /\ d.n = n
      /\ d.left = call.left
  BY <1>2, <1>3 DEF CallType, Same
<1> QED
  BY <1>4, CallIs DEF CallOK, Same

LEMMA GoesFreeing ==
  ASSUME CallOK, NEW at \in Places, NEW c \in Nat, call' = [call EXCEPT !.at = at, !.c = c]
  PROVE  /\ CallOK' /\ Same(call') /\ call'.at = at
         /\ call'.c = c /\ call'.n = call.n /\ call'.left = call.left
<1> DEFINE e == [call EXCEPT !.at = at]
           d == call'
<1>1. e \in CallType /\ Same(e) /\ e.at = at /\ e.n = call.n /\ e.left = call.left
  BY DEF CallOK, CallType, Same
<1>2. d = [e EXCEPT !.c = c]
  OBVIOUS
<1> HIDE DEF e
<1>3. d \in CallType /\ Same(d) /\ d.at = at /\ d.c = c /\ d.n = call.n
      /\ d.left = call.left
  BY <1>1, <1>2 DEF CallType, Same
<1> QED
  BY <1>3, CallIs DEF CallOK, Same

LEMMA GoesStoring ==
  ASSUME CallOK, NEW at \in Places, NEW k \in Nat, k <= call.left,
         call' = [call EXCEPT !.at = at, !.left = k]
  PROVE  /\ CallOK' /\ Same(call') /\ call'.at = at
         /\ call'.c = call.c /\ call'.n = call.n /\ call'.left = k
<1> DEFINE e == [call EXCEPT !.at = at]
           d == call'
<1>1. e \in CallType /\ Same(e) /\ e.at = at /\ e.n = call.n /\ e.c = call.c
  BY DEF CallOK, CallType, Same
<1>2. d = [e EXCEPT !.left = k]
  OBVIOUS
<1> HIDE DEF e
<1>3. d \in CallType /\ Same(d) /\ d.at = at /\ d.c = call.c /\ d.n = call.n
      /\ d.left = k
  BY <1>1, <1>2 DEF CallType, Same
<1>4. Len(d.out) = Len(call.out) /\ Len(call.out) \in Nat
  BY <1>3, CallIs DEF Same
<1>5. k <= Len(call.out)
  BY <1>4, CallIs
<1> QED
  BY <1>3, <1>4, <1>5 DEF CallOK, Same

LEMMA NoCallIs ==
  /\ NoCall \in CallType /\ NoCall.at = "idle" /\ NoCall.op = "none" /\ NoCall.left = 0
  /\ NoCall.name = NoName /\ Len(NoCall.out) = 0
<1>1. <<>> \in Seq(Units) /\ Len(<<>>) = 0
  OBVIOUS
<1> QED
  BY <1>1 DEF NoCall, CallType, Places

LEMMA CallOver == call' = NoCall => CallOK'
  BY NoCallIs DEF CallOK

(* A call that begins.                                                      *)
Begun(op, at, name, out, k) ==
  [op |-> op, at |-> at, name |-> name, out |-> out, left |-> k, c |-> 0, n |-> 0]

LEMMA CallBegins ==
  ASSUME NEW op \in {"open", "print", "close", "remove"}, NEW at \in Places,
         NEW name \in Files \cup {NoName}, NEW out \in Seq(Units), NEW k \in Nat, k = Len(out),
         op # "print" => k = 0, call' = Begun(op, at, name, out, k)
  PROVE  /\ CallOK' /\ call'.op = op /\ call'.at = at /\ call'.name = name
         /\ call'.left = k /\ call'.out = out /\ call' # NoCall
<1>1. call' = [op |-> op, at |-> at, name |-> name, out |-> out, left |-> k, c |-> 0, n |-> 0]
  BY DEF Begun
<1>2. call' \in CallType
  BY <1>1 DEF CallType
<1> QED
  BY <1>1, <1>2, NoCallIs DEF CallOK
-----------------------------------------------------------------------------
Good == TypeInv /\ WorkInv /\ AmountInv /\ SoundInv
rest == <<printed, gone, broken, faults, losses>>

(* The block a step works on.                                               *)
LEMMA WantedIs ==
  ASSUME Good
  PROVE  /\ call.at \in {"lookup", "entry", "clear", "erase"} => Wanted = Dir
         /\ call.at \in {"seek", "next", "link"} =>
              Wanted = Fat(file.cur) /\ file.cur \in Clusters
         /\ call.at \in {"search", "free"} => Wanted = Fat(call.c) /\ call.c \in Clusters
         /\ call.at = "data" =>
              \E b : Wanted = Data(file.cur, b) /\ Wanted \in Blocks /\ file.cur \in Clusters
<1>1. call.at \in {"seek", "next", "link", "data"} => file.cur \in Clusters
  BY TypesAre DEF Good, SoundInv, CursorInv, Free
<1>2. call.at \in {"search", "free"} => call.c \in Clusters
  BY DEF Good, WorkInv
<1>3. ASSUME call.at = "data"
      PROVE  \E b : Wanted = Data(file.cur, b) /\ Wanted \in Blocks
  <2> DEFINE q == file.pos \div PerBlock
             b == q % BlocksPerCluster
  <2>1. Wanted = Data(file.cur, b)
    BY <1>3 DEF Wanted
  <2>2. q \in Nat /\ BlocksPerCluster \in Nat \ {0}
    BY TypesAre, Geometry, Division DEF Good
  <2>3. b \in 0 .. BlocksPerCluster - 1
    <3> HIDE DEF q
    <3> QED
      BY <2>2, Division
  <2> HIDE DEF b
  <2>4. Data(file.cur, b) \in DataBlocks
    BY <1>1, <1>3, <2>3 DEF DataBlocks
  <2> QED
    BY <2>1, <2>4 DEF Blocks
<1>4. call.at \in {"lookup", "entry", "clear", "erase"} => Wanted = Dir
  BY DEF Wanted
<1>5. call.at \in {"seek", "next", "link"} => Wanted = Fat(file.cur)
  BY DEF Wanted
<1>6. call.at \in {"search", "free"} => Wanted = Fat(call.c)
  BY DEF Wanted
<1> QED
  BY <1>1, <1>2, <1>3, <1>4, <1>5, <1>6

(* While an entry waits to be cleared, no other block is worked on.         *)
LEMMA NothingGone ==
  ASSUME Good, ~MustFlush, call.at \in {"search", "link", "data", "cleared", "flush"}
  PROVE  gone = NoName
<1> SUFFICES ASSUME gone # NoName PROVE FALSE
  OBVIOUS
<1>1. cache.block = Dir /\ cache.state = "dirty"
  BY DEF Good, SoundInv, RemovalInv, Unlinking
<1>2. CASE call.at \in {"cleared", "flush"}
  BY <1>1, <1>2 DEF MustFlush, Flushing
<1>3. CASE call.at \in {"search", "link", "data"}
  <2>1. Wanted # Dir
    BY <1>3, WantedIs, BlocksApart
  <2> QED
    BY <1>1, <2>1 DEF MustFlush
<1> QED
  BY <1>2, <1>3

LEMMA OnlyOneGone ==
  ASSUME Good, ~MustFlush, call.at = "free"
  PROVE  gone \in {NoName, call.name} /\ ~(cache.block = Dir /\ cache.state = "dirty")
<1>1. Wanted # Dir
  BY WantedIs, BlocksApart
<1>2. ~(cache.block = Dir /\ cache.state = "dirty")
  BY <1>1 DEF MustFlush
<1> QED
  BY <1>2 DEF Good, SoundInv, RemovalInv

LEMMA ReadIs ==
  ASSUME Good
  PROVE  /\ call.at \in {"seek", "next", "link"} => Value[file.cur] = SeenFat[file.cur]
         /\ call.at \in {"search", "free"} => Value[call.c] = SeenFat[call.c]
         /\ call.at \in {"lookup", "entry", "clear", "erase"} => Value = SeenDir
<1>1. \A c \in Clusters : Wanted = Fat(c) => Value[c] = SeenFat[c]
  BY ValueIs, BlocksApart DEF Good, TypeInv, StoreOK, SeenFat, FatEntry
<1>2. Wanted = Dir => Value = SeenDir
  BY ValueIs, BlocksApart DEF Good, TypeInv, StoreOK, SeenDir
<1> QED
  BY <1>1, <1>2, WantedIs

(* A step that changes no block.                                            *)
LEMMA ReadsKeep ==
  ASSUME Good, call # NoCall, Read, ~MustFlush, card' = card, call.at \in
           {"lookup", "seek", "next", "search"}
  PROVE  StoreOK' /\ CardKept /\ SeenKept /\ (cache.state = "dirty" => cache' = cache)
<1>1. Wanted \in Blocks
  BY WantedIs, BlocksApart
<1> QED
  BY <1>1, ReadsOnly DEF Good, TypeInv

LEMMA AmountsKept ==
  ASSUME AmountInv, CardKept, SeenKept, printed' = printed,
         file'.size + call'.left <= printed, file'.pos + call'.left <= printed
  PROVE  AmountInv'
  BY DEF AmountInv, CardKept, SeenKept

(* The cluster the program is at after a step that left the FAT alone.      *)
LEMMA CursorOn ==
  ASSUME SeenFat' = SeenFat,
         file'.cur # 0 =>
           \E n \in Nat :
             /\ call'.at = "data" => n >= file'.pos \div PerCluster
             /\ file'.pos > 0 => n >= Index(file'.pos)
             /\ Leads(SeenFat, file'.first, n, file'.cur),
         file'.cur = 0 => /\ file'.pos = 0 /\ call'.at \notin {"data", "next", "link", "seek"}
                          /\ call'.at = "search" => file'.first = 0,
         file'.pos >= file'.size,
         call'.at \in {"next", "search"} => file'.pos % PerCluster = 0,
         call'.at \in {"search", "link"} /\ file'.cur # 0 => SeenFat[file'.cur] = EOC
  PROVE  CursorInv'
<1>1. ASSUME file'.cur # 0
      PROVE  (\E n \in Nat : FarEnough(n) /\ Leads(SeenFat, file.first, n, file.cur))'
  <2>1. PICK n \in Nat :
          /\ call'.at = "data" => n >= file'.pos \div PerCluster
          /\ file'.pos > 0 => n >= Index(file'.pos)
          /\ Leads(SeenFat, file'.first, n, file'.cur)
    BY <1>1
  <2>2. FarEnough(n)'
    BY <2>1 DEF FarEnough
  <2> QED
    BY <2>1, <2>2
<1> QED
  BY <1>1 DEF CursorInv

LEMMA WrapIs == \A c \in 2 .. LastCluster + 1 : Wrap(c) \in Clusters
  BY Geometry DEF Wrap, Clusters

(* Where the next unit goes, from the end of the file.                      *)
LEMMA WriteOnKeeps ==
  ASSUME Good, NEW f \in Handles, WriteOn(f), call.at \in {"begin", "seek"},
         call.op # "open", UNCHANGED <<card, cache, start, rest>>, ahead' \in BOOLEAN,
         f.name = file.name, f.size = file.size, f.first = file.first, f.pos = file.size,
         f.cur # 0 => \E n \in Nat : /\ f.pos > 0 => n >= Index(f.pos)
                                     /\ Leads(SeenFat, f.first, n, f.cur),
         f.cur = 0 => f.pos = 0
  PROVE  Good'
<1> DEFINE g == file'
           d == call'
<1>0. /\ CallOK /\ file \in Handles /\ StoreOK /\ PastOK /\ f.pos \in Nat /\ 0 \in Nat
      /\ f.first \in {Free} \cup Clusters /\ f.cur \in {Free} \cup Clusters
      /\ {"data", "next", "search"} \subseteq Places
      /\ PerCluster \in Nat \ {0} /\ SeenFat \in Fats
  BY TypesAre, HandleIs, Geometry DEF Good, TypeInv, Places, Units
<1>1. /\ g \in Handles /\ g.name = f.name /\ g.size = f.size /\ g.first = f.first
      /\ g.pos = f.pos /\ CallOK' /\ Same(d) /\ d.left = call.left
      /\ d.at \in {"data", "next", "search"} /\ (d.at = "search" => d.c \in Clusters)
      /\ d.at \in {"next", "search"} => g.pos % PerCluster = 0
      /\ g.cur = 0 => g.pos = 0 /\ d.at = "search" /\ g.first = 0
      /\ d.at = "search" => g.cur = 0
      /\ g.cur # 0 => \E n \in Nat : /\ d.at = "data" => n >= g.pos \div PerCluster
                                     /\ g.pos > 0 => n >= Index(g.pos)
                                     /\ Leads(SeenFat, g.first, n, g.cur)
  <2>1. CASE f.pos % PerCluster # 0 /\ g = f /\ Go("data")
    <3>1. f.pos > 0 /\ f.pos \div PerCluster <= Index(f.pos)
      BY <1>0, <2>1, IndexInside
    <3>2. Index(f.pos) \in Nat /\ f.pos \div PerCluster \in Nat
      BY <1>0, <3>1, IndexType, Division
    <3>3. f.cur # 0
      BY <3>1
    <3>4. PICK n \in Nat : n >= Index(f.pos) /\ Leads(SeenFat, f.first, n, f.cur)
      BY <3>1, <3>3
    <3>5. n >= f.pos \div PerCluster
      BY <3>1, <3>2, <3>4
    <3>6. CallOK' /\ Same(d) /\ d.left = call.left /\ d.at = "data"
      BY <1>0, <2>1, GoesTo DEF Go
    <3> QED
      BY <2>1, <3>3, <3>4, <3>5, <3>6
  <2>2. CASE f.pos % PerCluster = 0 /\ f.cur # 0 /\ g = f /\ Go("next")
    <3>1. CallOK' /\ Same(d) /\ d.left = call.left /\ d.at = "next"
      BY <1>0, <2>2, GoesTo DEF Go
    <3>2. PICK n \in Nat : (f.pos > 0 => n >= Index(f.pos)) /\ Leads(SeenFat, f.first, n, f.cur)
      BY <2>2
    <3> QED
      BY <2>2, <3>1, <3>2
  <2>3. CASE /\ f.pos % PerCluster = 0 /\ f.cur = 0 /\ f.first # 0
             /\ g = [f EXCEPT !.cur = f.first] /\ Go("data")
    <3>1. CallOK' /\ Same(d) /\ d.left = call.left /\ d.at = "data"
      BY <1>0, <2>3, GoesTo DEF Go
    <3>2. /\ g \in Handles /\ g.cur = f.first /\ g.name = f.name /\ g.size = f.size
          /\ g.pos = f.pos /\ g.first = f.first
      BY <1>0, <2>3, AtCluster
    <3>3. f.first \in Clusters /\ f.pos = 0
      BY <1>0, <2>3 DEF Free
    <3>4. Leads(SeenFat, f.first, 0, f.first)
      BY <1>0, <3>3, LeadsStart
    <3>5. 0 >= f.pos \div PerCluster
      BY <1>0, <3>3
    <3>6. g.cur # 0
      BY <2>3, <3>2
    <3>7. \E n \in Nat : /\ d.at = "data" => n >= g.pos \div PerCluster
                         /\ g.pos > 0 => n >= Index(g.pos)
                         /\ Leads(SeenFat, g.first, n, g.cur)
      BY <3>2, <3>3, <3>4, <3>5
    <3> QED
      BY <3>1, <3>2, <3>6, <3>7
  <2>4. CASE /\ f.pos % PerCluster = 0 /\ f.cur = 0 /\ f.first = 0 /\ g = f
             /\ call' = [call EXCEPT !.at = "search", !.c = Wrap(start), !.n = 0]
    <3>1. Wrap(start) \in Clusters /\ Wrap(start) \in Nat
      BY <1>0, WrapIs, Marks DEF PastOK
    <3>2. CallOK' /\ Same(d) /\ d.left = call.left /\ d.at = "search" /\ d.c = Wrap(start)
      BY <1>0, <2>4, <3>1, GoesSearching
    <3> QED
      BY <2>4, <3>1, <3>2
  <2> QED
    BY <2>1, <2>2, <2>3, <2>4 DEF WriteOn
<1>2. StoreOK' /\ CardKept /\ SeenKept
  BY <1>0, NothingMoves
<1>3. TypeInv'
  BY <1>0, <1>1, <1>2 DEF TypeInv, PastOK, rest
<1>4. WorkInv'
  <2>1. g # NoHandle => g.name # NoName
    BY <1>1 DEF Good, WorkInv
  <2>2. g.name # NoName
    BY <1>1 DEF Good, WorkInv
  <2>3. call' # NoCall
    BY <1>1, NoCallIs
  <2>4. call.op # "remove" \/ call.name \in Files
    BY DEF Good, WorkInv
  <2> QED
    BY <1>1, <2>2, <2>3, <2>4 DEF WorkInv, Same
<1>5. AmountInv'
  BY <1>1, <1>2, AmountsKept DEF Good, AmountInv, rest
<1>6. CardChains' /\ SeenChains' /\ EntryInv' /\ RemovalInv'
  <2>1. ~Unlinking /\ ~Unlinking'
    BY <1>1 DEF Unlinking
  <2>2. gone' = gone /\ cache' = cache
    BY DEF rest
  <2> QED
    BY <1>1, <1>2, <2>1, <2>2, StepOn DEF Good
<1>7. CursorInv'
  <2>1. SeenFat' = SeenFat
    BY <1>2 DEF SeenKept
  <2>2. file'.pos >= file'.size
    BY <1>0, <1>1
  <2> HIDE DEF g, d
  <2> QED
    BY <1>1, <2>1, <2>2, CursorOn DEF g, d
<1>8. SeekInv' /\ NewClusterInv' /\ FreedInv' /\ MadeInv'
  BY <1>1 DEF SeekInv, NewClusterInv, FreedInv, MadeInv
<1> QED
  BY <1>3, <1>4, <1>5, <1>6, <1>7, <1>8 DEF Good, SoundInv
-----------------------------------------------------------------------------
(* The steps of a print up to the block of data.                            *)
LEMMA SeekStarts ==
  ASSUME Good, NEW f \in Handles, Seek(f), ~Unlinking, f.size > 0, f.pos = 0 \/ f.pos >= f.size,
         f.name # NoName, Stored(SeenFat, f.first, f.size),
         f.cur = 0 => f.pos = 0,
         f.cur # 0 => \E n \in Nat : FarEnough(n) /\ Leads(SeenFat, f.first, n, f.cur),
         f.cur # 0 => f.pos = file.pos /\ f.size = file.size,
         SeenFat' = SeenFat
  PROVE  /\ file' \in Handles /\ file'.name = f.name /\ file'.size = f.size
         /\ file'.first = f.first /\ file'.pos = f.pos
         /\ CallOK' /\ Same(call') /\ call'.left = call.left /\ call'.at = "seek"
         /\ CursorInv' /\ SeekInv'
<1> DEFINE m == Index(f.size)
           k == call'.n
<1>0. /\ CallOK /\ SeenFat \in Fats /\ f.size \in Nat /\ f.pos \in Nat /\ 0 \in Nat
      /\ f.first \in {Free} \cup Clusters /\ f.cur \in {Free} \cup Clusters
      /\ "seek" \in Places
  BY TypesAre, HandleIs DEF Good, TypeInv, Places
<1>1. m \in Nat /\ m = NewIndex(f)
  BY <1>0, IndexType DEF Index, NewIndex
<1>2. PICK c \in Clusters : Leads(SeenFat, f.first, m, c)
  BY DEF Stored
<1>3. f.first \in Clusters
  BY <1>0, <1>1, <1>2, LeadsTo
<1>4. CASE FromFirst(f)
  <2>1. file' = [f EXCEPT !.cur = f.first] /\ call' = [call EXCEPT !.at = "seek", !.n = m]
    BY <1>1, <1>4 DEF Seek
  <2>2. /\ file' \in Handles /\ file'.cur = f.first /\ file'.name = f.name
        /\ file'.size = f.size /\ file'.pos = f.pos /\ file'.first = f.first
    BY <1>3, <2>1, AtCluster
  <2>3. CallOK' /\ Same(call') /\ call'.at = "seek" /\ call'.n = m /\ call'.left = call.left
    BY <1>0, <1>1, <2>1, GoesSeeking
  <2>4. SeekInv'
    <3>1. PICK p \in [0 .. m -> Clusters] :
            p[0] = f.first /\ \A i \in 0 .. m - 1 : SeenFat[p[i]] = p[i + 1]
      BY <1>2 DEF Leads
    <3>2. p[m - m] = f.first /\ m <= m
      BY <1>1, <3>1
    <3>3. Seeking(call.n)'
      <4> HIDE DEF m
      <4>1. Index(file'.size) = m
        BY <2>2 DEF m
      <4> QED
        BY <2>2, <2>3, <3>1, <3>2, <4>1 DEF Seeking
    <3> QED
      BY <2>2, <2>3, <3>3 DEF SeekInv
  <2>5. CursorInv'
    <3>1. file'.cur # 0
      BY <1>3, <2>2, Marks DEF Free
    <3>2. Leads(SeenFat, f.first, 0, f.first)
      BY <1>0, <1>3, LeadsStart
    <3>3. f.pos > 0 => ~(Index(f.size) >= Index(f.pos))
      <4> HAVE f.pos > 0
      <4>1. NewIndex(f) < OldIndex(f)
        BY <1>4 DEF FromFirst
      <4>2. OldIndex(f) = Index(f.pos) /\ Index(f.pos) \in Nat
        BY <1>0, IndexType DEF OldIndex, Index
      <4> QED
        BY <1>1, <4>1, <4>2
    <3>4. FarEnough(0)'
      BY <2>2, <2>3, <3>3 DEF FarEnough
    <3>5. (FarEnough(0) /\ Leads(SeenFat, file.first, 0, file.cur))'
      BY <2>2, <3>2, <3>4
    <3> QED
      BY <2>2, <2>3, <3>1, <3>5 DEF CursorInv
  <2> QED
    BY <2>2, <2>3, <2>4, <2>5
<1>5. CASE ~FromFirst(f)
  <2>1. f.pos > 0 /\ f.pos >= f.size /\ NewIndex(f) >= OldIndex(f) /\ f.cur # 0
    <3>1. OldIndex(f) \in Int /\ NewIndex(f) \in Int
      BY <1>0, <1>1, Geometry DEF OldIndex
    <3> QED
      BY <1>0, <1>5, <3>1 DEF FromFirst
  <2>2. Index(f.pos) \in Nat /\ Index(f.pos) = OldIndex(f) /\ m <= Index(f.pos)
    BY <1>0, <2>1, IndexType, IndexGrows DEF OldIndex, Index
  <2>3. m = Index(f.pos) /\ NewIndex(f) - OldIndex(f) = 0
    BY <1>1, <2>1, <2>2
  <2>4. file' = f /\ call' = [call EXCEPT !.at = "seek", !.n = 0]
    BY <1>5, <2>3 DEF Seek
  <2>5. CallOK' /\ Same(call') /\ call'.at = "seek" /\ call'.n = 0 /\ call'.left = call.left
    BY <1>0, <2>4, GoesSeeking
  <2>6. PICK n \in Nat : FarEnough(n) /\ Leads(SeenFat, f.first, n, f.cur)
    BY <2>1
  <2>7. n >= Index(f.pos)
    <3>1. f.pos = file.pos /\ f.size = file.size /\ f.size > 0
      BY <2>1
    <3>2. file.pos > 0 /\ file.size > 0 /\ Index(file.size) >= Index(file.pos)
      BY <1>1, <2>1, <2>2, <2>3, <3>1
    <3> QED
      BY <2>6, <3>1, <3>2 DEF FarEnough
  <2>8. FarEnough(n)'
    BY <2>4, <2>5, <2>7 DEF FarEnough
  <2>9. CursorInv'
    <3>1. (FarEnough(n) /\ Leads(SeenFat, file.first, n, file.cur))'
      BY <2>4, <2>6, <2>8
    <3> QED
      BY <2>1, <2>4, <2>5, <3>1 DEF CursorInv
  <2>10. SeekInv'
    <3>1. n >= Index(file'.size) /\ Leads(SeenFat', file'.first, n, file'.cur)
      BY <2>3, <2>4, <2>6, <2>7
    <3> QED
      BY <2>4, <2>5, <3>1 DEF SeekInv
  <2> QED
    BY <2>4, <2>5, <2>9, <2>10
<1> QED
  BY <1>4, <1>5

(* A seek neither moves the end of the file nor touches a block.            *)
LEMMA InSeek ==
  ASSUME Good, StoreOK', CardKept, SeenKept, UNCHANGED <<start, rest>>, ahead' \in BOOLEAN,
         cache.state = "dirty" => cache' = cache, ~Unlinking,
         file' \in Handles, file'.name = file.name, file'.size = file.size,
         file'.first = file.first, file'.pos = file.pos, file.name # NoName,
         CallOK', Same(call'), call'.left = call.left,
         call'.at \in {"seek", "search", "next", "data"},
         call'.at = "search" => call'.c \in Clusters,
         call.op = "open" => call'.at = "seek",
         CursorInv', SeekInv'
  PROVE  Good'
<1>1. TypeInv'
  BY DEF Good, TypeInv, PastOK, rest
<1>2. WorkInv'
  <2>1. call' # NoCall
    BY NoCallIs
  <2> QED
    BY <2>1 DEF Good, WorkInv, Same
<1>3. AmountInv'
  BY AmountsKept DEF Good, AmountInv, rest
<1>4. CardChains' /\ SeenChains' /\ EntryInv' /\ RemovalInv'
  <2>1. ~Unlinking'
    BY DEF Unlinking
  <2>2. gone' = gone
    BY DEF rest
  <2> QED
    BY <2>1, <2>2, StepOn DEF Good
<1>5. NewClusterInv' /\ FreedInv' /\ MadeInv'
  BY DEF NewClusterInv, FreedInv, MadeInv
<1> QED
  BY <1>1, <1>2, <1>3, <1>4, <1>5 DEF Good, SoundInv

LEMMA OpenFileStored ==
  ASSUME Good, file.name # NoName
  PROVE  /\ ~Unlinking => Stored(SeenFat, file.first, file.size)
         /\ ~Unlinking /\ file.first # 0 => Heads(SeenFat, file.first)
<1>1. file.name \in Files
  BY TypesAre DEF Good
<1>2. Held[file.name].first = file.first /\ Held[file.name].size = file.size
  BY <1>1, HeldIs
<1> QED
  BY <1>1, <1>2, NoNameIsNone DEF Good, SoundInv, SeenChains, Entries

LEMMA BeginKeeps ==
  ASSUME Good, Begin
  PROVE  Good'
<1>0. /\ call.at = "begin" /\ UNCHANGED <<card, cache, start, rest>> /\ ~Unlinking
      /\ call.op # "open" /\ ahead' \in BOOLEAN
  BY DEF Begin, WriteOn, Unlinking, Good, WorkInv, TypeInv, PastOK, rest
<1>1. /\ file.name # NoName /\ file \in Handles /\ file.pos \in Nat /\ file.size \in Nat
      /\ CursorInv /\ file.size \in Units /\ 0 \in {Free} \cup Clusters
      /\ file.cur \in {Free} \cup Clusters
  BY <1>0, TypesAre, HandleIs DEF Good, WorkInv, SoundInv, TypeInv, Free
<1>2. StoreOK' /\ CardKept /\ SeenKept
  BY <1>0, NothingMoves DEF Good, TypeInv
<1>3. CASE file.pos # file.size /\ file.size # 0
  <2>1. Seek(file)
    BY <1>3 DEF Begin
  <2>2. Stored(SeenFat, file.first, file.size)
    BY <1>0, <1>1, OpenFileStored
  <2>3. /\ file' \in Handles /\ file'.name = file.name /\ file'.size = file.size
        /\ file'.first = file.first /\ file'.pos = file.pos
        /\ CallOK' /\ Same(call') /\ call'.left = call.left /\ call'.at = "seek"
        /\ CursorInv' /\ SeekInv'
    <3>1. SeenFat' = SeenFat
      BY <1>2 DEF SeenKept
    <3>2. file.size > 0
      BY <1>1, <1>3
    <3>3. /\ file.pos = 0 \/ file.pos >= file.size
          /\ file.cur = 0 => file.pos = 0
          /\ file.cur # 0 => \E n \in Nat : FarEnough(n) /\ Leads(SeenFat, file.first, n, file.cur)
      BY <1>1 DEF CursorInv
    <3> QED
      BY <1>0, <1>1, <2>1, <2>2, <3>1, <3>2, <3>3, SeekStarts
  <2> QED
    BY <1>0, <1>1, <1>2, <2>3, InSeek
<1>4. CASE ~(file.pos # file.size /\ file.size # 0)
  <2> DEFINE c == IF file.pos # file.size THEN 0 ELSE file.cur
  <2>0. PICK f : f = [file EXCEPT !.pos = file.size, !.cur = c]
    OBVIOUS
  <2>1. WriteOn(f)
    BY <1>4, <2>0 DEF Begin
  <2>2. c \in {Free} \cup Clusters
    BY <1>1
  <2> HIDE DEF c
  <2>3. /\ f \in Handles /\ f.pos = file.size /\ f.cur = c /\ f.name = file.name
        /\ f.size = file.size /\ f.first = file.first
    BY <1>1, <2>0, <2>2 DEF Handles
  <2>4. c = 0 => file.size = 0
    BY <1>1, <1>4 DEF CursorInv, c
  <2>5. ASSUME c # 0
        PROVE  \E n \in Nat : (file.size > 0 => n >= Index(file.size))
                              /\ Leads(SeenFat, file.first, n, file.cur)
    <3>1. file.cur # 0 /\ file.pos = file.size
      BY <2>5 DEF c
    <3>2. PICK n \in Nat : FarEnough(n) /\ Leads(SeenFat, file.first, n, file.cur)
      BY <1>1, <3>1 DEF CursorInv
    <3>3. file.size > 0 => n >= Index(file.size)
      <4> HAVE file.size > 0
      <4>1. Index(file.size) \in Nat
        BY <1>1, IndexType
      <4> QED
        BY <3>1, <3>2, <4>1 DEF FarEnough
    <3> QED
      BY <3>2, <3>3
  <2>6. c # 0 => c = file.cur
    BY DEF c
  <2> QED
    BY <1>0, <2>1, <2>3, <2>4, <2>5, <2>6, WriteOnKeeps
<1> QED
  BY <1>3, <1>4

LEMMA SeekStepKeeps ==
  ASSUME Good, SeekStep
  PROVE  Good'
<1> DEFINE m == Index(file.size)
           d == SeenFat[file.cur]
<1>0. /\ call.at = "seek" /\ call.n > 0 /\ ~MustFlush /\ Read /\ ~Unlinking
      /\ UNCHANGED <<card, start, rest>> /\ ahead' \in BOOLEAN /\ call # NoCall
      /\ call' = [call EXCEPT !.n = call.n - 1]
      /\ file' = [file EXCEPT !.cur = Value[file.cur]]
  BY NoCallIs DEF SeekStep, Ready, Unlinking, Good, TypeInv, PastOK, past, rest
<1>1. /\ SeekInv /\ CursorInv /\ SeenFat \in Fats /\ file.size \in Nat /\ call.n \in Nat
      /\ file \in Handles /\ CallOK /\ call.left \in Nat /\ file.name # NoName
      /\ file.size > 0 /\ file.cur \in Clusters
  BY <1>0, TypesAre, CallIs, WantedIs DEF Good, SoundInv, TypeInv, WorkInv, SeekInv
<1>2. StoreOK' /\ CardKept /\ SeenKept /\ (cache.state = "dirty" => cache' = cache)
  BY <1>0, ReadsKeep
<1>3. Value[file.cur] = d
  BY <1>0, ReadIs
<1>4. m \in Nat /\ call.n \in Nat /\ call.n > 0
  BY <1>0, <1>1, IndexType
<1>5. PICK p \in [0 .. m -> Clusters] :
        /\ call.n <= m /\ p[0] = file.first /\ p[m - call.n] = file.cur
        /\ \A i \in 0 .. m - 1 : SeenFat[p[i]] = p[i + 1]
  BY <1>0, <1>1, <1>4 DEF SeekInv, Seeking
<1>6. d \in Clusters /\ d = p[m - (call.n - 1)]
  <2>1. PICK i : i = m - call.n
    OBVIOUS
  <2>2. i \in 0 .. m - 1 /\ i + 1 = m - (call.n - 1) /\ i + 1 \in 0 .. m
    BY <1>4, <1>5, <2>1
  <2>3. p[i] = file.cur /\ SeenFat[p[i]] = p[i + 1] /\ p[i + 1] \in Clusters
    BY <1>5, <2>1, <2>2
  <2> QED
    BY <2>2, <2>3
<1> HIDE DEF m, d
<1>7. /\ file' \in Handles /\ file'.cur = d /\ file'.name = file.name
      /\ file'.size = file.size /\ file'.pos = file.pos /\ file'.first = file.first
  BY <1>0, <1>1, <1>3, <1>6, AtCluster
<1>8. /\ CallOK' /\ Same(call') /\ call'.at = "seek" /\ call'.left = call.left
      /\ call'.n = call.n - 1
  <2>1. call.n - 1 \in Nat
    BY <1>4
  <2> QED
    BY <1>0, <1>1, <2>1, GoesOn
<1>9. SeekInv'
  <2>1. Seeking(call.n)'
    <3>1. Index(file'.size) = m /\ call'.n <= m
      BY <1>4, <1>5, <1>7, <1>8 DEF m
    <3>2. p[m - call'.n] = file'.cur /\ SeenFat' = SeenFat
      BY <1>2, <1>6, <1>7, <1>8 DEF SeenKept
    <3> QED
      BY <1>5, <1>7, <3>1, <3>2 DEF Seeking
  <2> QED
    BY <1>1, <1>7, <1>8, <2>1 DEF SeekInv
<1>10. CursorInv'
  <2>1. file.cur # 0
    BY <1>1, Marks DEF Free
  <2>2. PICK n \in Nat : FarEnough(n) /\ Leads(SeenFat, file.first, n, file.cur)
    BY <1>1, <2>1 DEF CursorInv
  <2>3. Leads(SeenFat, file.first, n + 1, d) /\ n + 1 \in Nat
    BY <1>1, <1>6, <2>2, LeadsOn DEF d
  <2>4. FarEnough(n + 1)'
    <3>1. ASSUME file.pos > 0, Index(file.size) >= Index(file.pos)
          PROVE  n + 1 >= Index(file.pos)
      <4>1. Index(file.pos) \in Nat
        BY <1>1, <3>1, IndexType, HandleIs, TypesAre DEF Good
      <4>2. n >= Index(file.pos)
        BY <1>1, <2>2, <3>1 DEF FarEnough
      <4> QED
        BY <4>1, <4>2
    <3> QED
      BY <1>7, <1>8, <3>1 DEF FarEnough
  <2>5. (FarEnough(n + 1) /\ Leads(SeenFat, file.first, n + 1, file.cur))'
    BY <1>2, <1>7, <2>3, <2>4 DEF SeenKept
  <2>6. file'.cur # 0
    BY <1>6, <1>7, Marks DEF Free
  <2>7. file'.pos = 0 \/ file'.pos >= file'.size
    BY <1>1, <1>7 DEF CursorInv
  <2> QED
    BY <1>8, <2>3, <2>5, <2>6, <2>7 DEF CursorInv
<1> QED
  BY <1>0, <1>1, <1>2, <1>7, <1>8, <1>9, <1>10, InSeek
(* A call that ends with the file as it was, but for the place in it.       *)
LEMMA CallEnds ==
  ASSUME Good, StoreOK', CardKept, SeenKept, UNCHANGED <<start, rest>>, ahead' \in BOOLEAN,
         cache.state = "dirty" => cache' = cache, ~Unlinking, call' = NoCall,
         file' \in Handles, file'.name = file.name, file'.size = file.size,
         file'.first = file.first, file.name # NoName, file'.pos <= printed, CursorInv'
  PROVE  Good'
<1>0. call'.at = "idle" /\ call'.left = 0 /\ CallOK' /\ call'.op = "none"
  BY NoCallIs, CallOver
<1>1. TypeInv'
  BY <1>0 DEF Good, TypeInv, PastOK, rest
<1>2. WorkInv'
  BY <1>0 DEF Good, WorkInv
<1>3. AmountInv'
  <2>1. file'.size + call'.left <= printed /\ file'.pos + call'.left <= printed
    <3>1. file.size + call.left <= printed /\ call.left \in Nat /\ file.size \in Nat
          /\ printed \in Nat /\ file'.pos \in Nat
      BY CallIs, TypesAre, HandleIs DEF Good, AmountInv, TypeInv, PastOK
    <3> QED
      BY <1>0, <3>1
  <2> QED
    BY <2>1, AmountsKept DEF Good, rest
<1>4. CardChains' /\ SeenChains' /\ EntryInv' /\ RemovalInv'
  <2>1. ~Unlinking'
    BY <1>0 DEF Unlinking
  <2>2. gone' = gone
    BY DEF rest
  <2> QED
    BY <2>1, <2>2, StepOn DEF Good
<1>5. SeekInv' /\ NewClusterInv' /\ FreedInv' /\ MadeInv'
  BY <1>0 DEF SeekInv, NewClusterInv, FreedInv, MadeInv
<1> QED
  BY <1>1, <1>2, <1>3, <1>4, <1>5 DEF Good, SoundInv

LEMMA SeekEndKeeps ==
  ASSUME Good, SeekEnd
  PROVE  Good'
<1> DEFINE m == Index(file.size)
<1>0. /\ call.at = "seek" /\ call.n = 0 /\ ~Unlinking
      /\ UNCHANGED <<card, cache, start, rest>> /\ ahead' \in BOOLEAN
  BY DEF SeekEnd, WriteOn, Unlinking, Good, TypeInv, PastOK, rest
<1>1. /\ SeekInv /\ SeenFat \in Fats /\ file.size \in Nat /\ file.size \in Units
      /\ file \in Handles /\ CallOK /\ call.left \in Nat /\ file.name # NoName
      /\ file.size > 0 /\ printed \in Nat /\ AmountInv /\ file.cur \in Clusters
  BY <1>0, TypesAre, HandleIs, CallIs, WantedIs
     DEF Good, SoundInv, TypeInv, WorkInv, SeekInv, PastOK
<1>2. StoreOK' /\ CardKept /\ SeenKept
  BY <1>0, NothingMoves DEF Good, TypeInv
<1>3. m \in Nat
  BY <1>1, IndexType
<1>4. PICK n \in Nat : n >= m /\ Leads(SeenFat, file.first, n, file.cur)
  <2>1. CASE Seeking(call.n)
    <3>1. PICK p \in [0 .. m -> Clusters] :
            /\ p[0] = file.first /\ p[m - 0] = file.cur
            /\ \A i \in 0 .. m - 1 : SeenFat[p[i]] = p[i + 1]
      BY <1>0, <2>1 DEF Seeking
    <3>2. p[m] = file.cur /\ m >= m
      BY <1>3, <3>1
    <3>3. Leads(SeenFat, file.first, m, file.cur)
      BY <3>1, <3>2 DEF Leads
    <3> QED
      BY <1>3, <3>2, <3>3
  <2> QED
    BY <1>0, <1>1, <2>1 DEF SeekInv
<1> HIDE DEF m
<1>5. PICK f : f = [file EXCEPT !.pos = file.size]
  OBVIOUS
<1>6. /\ f \in Handles /\ f.pos = file.size /\ f.cur = file.cur /\ f.name = file.name
      /\ f.size = file.size /\ f.first = file.first
  BY <1>1, <1>5, AtPosition
<1>7. f.cur # 0
  BY <1>1, <1>6, Marks DEF Free
<1>8. CASE call.op = "open"
  <2>1. file' = f /\ call' = NoCall
    BY <1>5, <1>8 DEF SeekEnd
  <2>2. CursorInv'
    <3>1. FarEnough(n)'
      BY <1>4, <1>6, <2>1, NoCallIs DEF FarEnough, m
    <3>2. (FarEnough(n) /\ Leads(SeenFat, file.first, n, file.cur))'
      BY <1>2, <1>4, <1>6, <2>1, <3>1 DEF SeenKept
    <3>3. file'.pos >= file'.size /\ file'.cur # 0 /\ call'.at = "idle"
      BY <1>1, <1>6, <1>7, <2>1, NoCallIs
    <3> QED
      BY <1>4, <3>2, <3>3 DEF CursorInv
  <2>3. file'.pos <= printed
    BY <1>1, <1>6, <2>1 DEF AmountInv
  <2> QED
    BY <1>0, <1>1, <1>2, <1>6, <2>1, <2>2, <2>3, CallEnds
<1>9. CASE call.op # "open"
  <2>1. WriteOn(f)
    BY <1>5, <1>9 DEF SeekEnd
  <2>2. (f.pos > 0 => n >= Index(f.pos)) /\ Leads(SeenFat, f.first, n, f.cur)
    BY <1>4, <1>6 DEF m
  <2> QED
    BY <1>0, <1>4, <1>6, <1>7, <1>9, <2>1, <2>2, WriteOnKeeps
<1> QED
  BY <1>8, <1>9

(* No cluster of a chain is free.                                           *)
LEMMA NotFree ==
  ASSUME NEW F \in Fats, Linked(F), NEW first, Heads(F, first), NEW n \in Nat, NEW c,
         Leads(F, first, n, c)
  PROVE  F[c] # Free
<1>1. PICK p \in [0 .. n -> Clusters] :
         p[0] = first /\ p[n] = c /\ \A i \in 0 .. n - 1 : F[p[i]] = p[i + 1]
  BY DEF Leads
<1>2. CASE n = 0
  BY <1>1, <1>2 DEF Heads
<1>3. CASE n # 0
  <2>1. PICK j : j = n - 1
    OBVIOUS
  <2>2. j \in 0 .. n - 1 /\ j \in 0 .. n /\ j + 1 = n /\ n \in 0 .. n
    BY <1>3, <2>1
  <2>3. F[p[j]] = c /\ p[j] \in Clusters /\ c \in Clusters
    BY <1>1, <2>2
  <2> QED
    BY <2>3 DEF Linked
<1> QED
  BY <1>2, <1>3

LEMMA NextClusterKeeps ==
  ASSUME Good, NextCluster
  PROVE  Good'
<1> DEFINE d == SeenFat[file.cur]
<1>0. /\ call.at = "next" /\ ~MustFlush /\ Read /\ ~Unlinking
      /\ UNCHANGED <<card, start, rest>> /\ ahead' \in BOOLEAN /\ call # NoCall
  BY NoCallIs DEF NextCluster, Ready, Unlinking, Good, TypeInv, PastOK, rest
<1>1. /\ CursorInv /\ SeenFat \in Fats /\ file.size \in Nat /\ file.pos \in Nat
      /\ file \in Handles /\ CallOK /\ call.left \in Nat /\ file.name # NoName
      /\ file.cur \in Clusters /\ file.first \in {Free} \cup Clusters
      /\ PerCluster \in Nat \ {0} /\ Linked(SeenFat)
      /\ {"search", "data"} \subseteq Places /\ call.op # "open"
  BY <1>0, TypesAre, HandleIs, CallIs, WantedIs, Geometry
     DEF Good, SoundInv, TypeInv, WorkInv, Places, SeenChains
<1>2. StoreOK' /\ CardKept /\ SeenKept /\ (cache.state = "dirty" => cache' = cache)
  BY <1>0, ReadsKeep
<1>3. Value[file.cur] = d
  BY <1>0, ReadIs
<1>4. file.cur # 0 /\ file.pos >= file.size /\ file.pos % PerCluster = 0
  BY <1>0, <1>1, Marks DEF Free, CursorInv
<1>5. PICK n \in Nat : FarEnough(n) /\ Leads(SeenFat, file.first, n, file.cur)
  BY <1>1, <1>4 DEF CursorInv
<1>6. file.pos > 0 => n >= Index(file.pos)
  BY <1>0, <1>5 DEF FarEnough
<1>7. CASE d = EOC
  <2>1. file' = file /\ call' = [call EXCEPT !.at = "search", !.c = Wrap(file.cur + 1), !.n = 0]
    BY <1>3, <1>7 DEF NextCluster
  <2>2. Wrap(file.cur + 1) \in Clusters /\ Wrap(file.cur + 1) \in Nat
    <3>1. file.cur + 1 \in 2 .. LastCluster + 1
      BY <1>1, Geometry DEF Clusters
    <3> QED
      BY <3>1, WrapIs, Marks
  <2>3. /\ CallOK' /\ Same(call') /\ call'.at = "search" /\ call'.c \in Clusters
        /\ call'.left = call.left
    BY <1>1, <2>1, <2>2, GoesSearching
  <2>4. CursorInv'
    <3>1. SeenFat' = SeenFat
      BY <1>2 DEF SeenKept
    <3> QED
      BY <1>1, <1>4, <1>5, <1>6, <1>7, <2>1, <2>3, <3>1, CursorOn
  <2>5. SeekInv'
    BY <2>3 DEF SeekInv
  <2> QED
    BY <1>0, <1>1, <1>2, <2>1, <2>3, <2>4, <2>5, InSeek
<1>8. CASE d # EOC
  <2>1. file' = [file EXCEPT !.cur = d] /\ call' = [call EXCEPT !.at = "data"]
    BY <1>3, <1>8 DEF NextCluster, Go
  <2>2. d \in Clusters
    <3>1. file.first # 0
      BY <1>1, <1>5, LeadsTo, Marks DEF Free
    <3>2. Heads(SeenFat, file.first)
      BY <1>0, <1>1, <3>1, OpenFileStored
    <3>3. d # Free
      BY <1>1, <1>5, <3>2, NotFree
    <3> QED
      BY <1>1, <1>8, <3>3 DEF Fats, FatValues
  <2> HIDE DEF d
  <2>3. /\ file' \in Handles /\ file'.cur = d /\ file'.name = file.name
        /\ file'.size = file.size /\ file'.pos = file.pos /\ file'.first = file.first
    BY <1>1, <2>1, <2>2, AtCluster
  <2>4. CallOK' /\ Same(call') /\ call'.at = "data" /\ call'.left = call.left
    BY <1>1, <2>1, GoesTo
  <2>5. Leads(SeenFat, file.first, n + 1, d) /\ n + 1 \in Nat
    BY <1>1, <1>5, <2>2, LeadsOn DEF d
  <2>6. n + 1 >= file.pos \div PerCluster /\ (file.pos > 0 => n + 1 >= Index(file.pos))
    <3>1. CASE file.pos = 0
      BY <1>1, <3>1
    <3>2. CASE file.pos # 0
      <4>1. file.pos > 0
        BY <1>1, <3>2
      <4>2. Index(file.pos) \in Nat /\ file.pos \div PerCluster <= Index(file.pos) + 1
            /\ file.pos \div PerCluster \in Nat
        BY <1>1, <1>4, <4>1, IndexType, IndexAtEnd, Division
      <4> QED
        BY <1>6, <4>1, <4>2
    <3> QED
      BY <3>1, <3>2
  <2>7. CursorInv'
    <3>1. SeenFat' = SeenFat /\ file'.cur # 0
      BY <1>2, <2>2, <2>3, Marks DEF SeenKept, Free
    <3> QED
      BY <1>4, <2>3, <2>4, <2>5, <2>6, <3>1, CursorOn
  <2>8. SeekInv'
    BY <2>4 DEF SeekInv
  <2> QED
    BY <1>0, <1>1, <1>2, <2>3, <2>4, <2>7, <2>8, InSeek
<1> QED
  BY <1>7, <1>8

LEMMA SearchOnKeeps ==
  ASSUME Good, SearchOn
  PROVE  Good'
<1>0. /\ call.at = "search" /\ ~MustFlush /\ Read /\ ~Unlinking /\ file' = file
      /\ UNCHANGED <<card, start, rest>> /\ ahead' \in BOOLEAN /\ call # NoCall
      /\ call' = [call EXCEPT !.c = Wrap(call.c + 1), !.n = call.n + 1]
  BY NoCallIs DEF SearchOn, Ready, Unlinking, Good, TypeInv, PastOK, past, rest
<1>1. /\ CursorInv /\ file \in Handles /\ CallOK /\ file.name # NoName
      /\ call.c \in Clusters /\ call.n \in Nat /\ call.op # "open"
  BY <1>0, CallIs DEF Good, SoundInv, TypeInv, WorkInv
<1>2. StoreOK' /\ CardKept /\ SeenKept /\ (cache.state = "dirty" => cache' = cache)
  BY <1>0, ReadsKeep
<1>3. Wrap(call.c + 1) \in Clusters /\ Wrap(call.c + 1) \in Nat
  <2>1. call.c + 1 \in 2 .. LastCluster + 1
    BY <1>1, Geometry DEF Clusters
  <2> QED
    BY <2>1, WrapIs, Marks
<1>4. /\ CallOK' /\ Same(call') /\ call'.at = "search" /\ call'.c \in Clusters
      /\ call'.left = call.left
  <2>1. PICK n \in Nat : n = call.n + 1
    BY <1>1
  <2>2. call' = [call EXCEPT !.c = Wrap(call.c + 1), !.n = n]
    BY <1>0, <2>1
  <2> QED
    BY <1>0, <1>1, <1>3, <2>2, GoesFrom
<1>5. CursorInv'
  BY <1>0, <1>1, <1>2, <1>4 DEF CursorInv, FarEnough, SeenKept
<1>6. SeekInv'
  BY <1>4 DEF SeekInv
<1> QED
  BY <1>0, <1>1, <1>2, <1>4, <1>5, <1>6, InSeek

LEMMA CardFullKeeps ==
  ASSUME Good, CardFull
  PROVE  Good'
<1>0. /\ call.at = "search" /\ ~Unlinking /\ file' = file /\ call' = NoCall
      /\ UNCHANGED <<card, cache, start, rest>> /\ ahead' \in BOOLEAN
  BY DEF CardFull, Unlinking, Good, TypeInv, PastOK, past, rest
<1>1. /\ CursorInv /\ file \in Handles /\ CallOK /\ file.name # NoName /\ call.left \in Nat
      /\ file.pos \in Nat /\ printed \in Nat /\ AmountInv
  BY <1>0, CallIs, TypesAre DEF Good, SoundInv, TypeInv, WorkInv, PastOK
<1>2. StoreOK' /\ CardKept /\ SeenKept
  BY <1>0, NothingMoves DEF Good, TypeInv
<1>3. CursorInv'
  <2>1. \A n \in Nat : FarEnough(n) => FarEnough(n)'
    BY <1>0, NoCallIs DEF FarEnough
  <2> QED
    BY <1>0, <1>1, <1>2, <2>1, NoCallIs DEF CursorInv, SeenKept
<1>4. file'.pos <= printed
  BY <1>0, <1>1 DEF AmountInv
<1> QED
  BY <1>0, <1>1, <1>2, <1>3, <1>4, CallEnds
-----------------------------------------------------------------------------
(* The steps of a print that write.                                         *)
LEMMA ChainsKept ==
  ASSUME NEW F \in Fats, NEW G \in Fats, NEW D, NEW x, Entries(F, D, x),
         \A f \in Files : D[f].size \in Nat,
         \A f \in Files \ {x} : Heads(F, D[f].first) => Heads(G, D[f].first),
         \A d \in Clusters : F[d] \in Clusters => G[d] = F[d]
  PROVE  Entries(G, D, x)
<1>1. \A f \in Files \ {x} : D[f].first # 0 => Heads(G, D[f].first)
  BY DEF Entries
<1>2. ASSUME NEW f \in Files \ {x}, NEW n \in Nat, NEW c \in Clusters,
             Leads(F, D[f].first, n, c)
      PROVE  Leads(G, D[f].first, n, c)
  BY <1>2, LeadsKept
<1> QED
  BY <1>1, <1>2, EntriesKept

LEMMA TakeClusterKeeps ==
  ASSUME Good, TakeCluster
  PROVE  Good'
<1> DEFINE F == SeenFat
           G == SeenFat'
           x == call.c
<1>0. /\ call.at = "search" /\ ~MustFlush /\ ~Unlinking /\ card' = card
      /\ UNCHANGED <<printed, gone, broken, faults, losses>> /\ call # NoCall
      /\ Value[x] = Free /\ Put([Value EXCEPT ![x] = EOC])
  BY NoCallIs DEF TakeCluster, Ready, Unlinking
<1>1. /\ CursorInv /\ F \in Fats /\ file.size \in Nat /\ file.pos \in Nat
      /\ file \in Handles /\ CallOK /\ call.left \in Nat /\ file.name # NoName
      /\ file.name \in Files /\ StoreOK /\ PastOK
      /\ file.cur \in {Free} \cup Clusters /\ file.first \in {Free} \cup Clusters
      /\ x \in Clusters /\ x \in Nat /\ Linked(F) /\ {"link", "data"} \subseteq Places
      /\ call.op # "open" /\ Wanted = Fat(x) /\ EOC \in FatValues /\ EntryInv
  BY <1>0, TypesAre, HandleIs, CallIs, WantedIs, Marks
     DEF Good, SoundInv, TypeInv, WorkInv, Places, SeenChains, FatValues
<1>2. /\ StoreOK' /\ CardKept /\ G = Marked(F, x, EOC) /\ SeenDir' = SeenDir
      /\ cache'.block # Dir /\ F[x] = Free
  BY <1>0, <1>1, FatPut
<1>3. gone = NoName
  BY <1>0, NothingGone
<1> HIDE DEF F, G, x
<1>4. /\ G \in Fats /\ Linked(G) /\ Heads(G, x) /\ G[x] = EOC
      /\ \A r : Heads(F, r) => Heads(G, r) /\ r # x
      /\ \A d \in Clusters : F[d] \in Clusters => G[d] = F[d]
      /\ \A d \in Clusters : d # x => G[d] = F[d]
  BY <1>1, <1>2, TakeKeeps
<1>5. Entries(F, Held, NoName) /\ \A f \in Files : Held[f].size \in Nat
  BY <1>0, HeldType DEF Good, SoundInv, SeenChains, F
<1>6. Entries(G, Held, NoName)
  BY <1>1, <1>4, <1>5, ChainsKept
<1>7. \A f \in Files : Held[f].first # x
  BY <1>1, <1>4, <1>5, NoNameIsNone, Marks DEF Entries, Free
<1>8. CardChains' /\ RemovalInv'
  BY <1>0, <1>2, <1>3 DEF Good, SoundInv, CardChains, CardKept, RemovalInv
<1>9. CASE file.cur = 0
  <2>1. /\ file' = OnFirst(file, x)
        /\ start' = x + 1 /\ ahead' = TRUE /\ call' = [call EXCEPT !.at = "data"]
    BY <1>9 DEF TakeCluster, Go, x, OnFirst
  <2>2. /\ file' \in Handles /\ file'.cur = x /\ file'.first = x /\ file'.name = file.name
        /\ file'.size = file.size /\ file'.pos = file.pos
    BY <1>1, <2>1, AtFirst
  <2>3. CallOK' /\ Same(call') /\ call'.at = "data" /\ call'.left = call.left
    BY <1>1, <2>1, GoesTo
  <2>4. file.pos = 0 /\ file.size = 0 /\ file.first = 0
    BY <1>0, <1>1, <1>9 DEF CursorInv
  <2>5. start' \in 2 .. LastCluster + 1
    BY <1>1, <2>1, Geometry DEF Clusters
  <2>6. TypeInv'
    BY <1>0, <1>1, <1>2, <2>1, <2>2, <2>3, <2>5 DEF TypeInv, PastOK
  <2>7. WorkInv'
    BY <1>0, <1>1, <2>2, <2>3, NoCallIs DEF Good, WorkInv, Same
  <2>8. AmountInv'
    BY <1>0, <1>2, <2>2, <2>3, AmountsKept DEF Good, AmountInv, CardKept
  <2>9. SeenChains'
    <3>1. Held'[file.name].first = x /\ Held'[file.name].size = 0
      BY <1>1, <2>2, <2>4 DEF Held
    <3>2. \A f \in Files \ {NoName, file.name} :
            Held'[f].first = Held[f].first /\ Held'[f].size = Held[f].size
      BY <1>2, <2>2 DEF Held
    <3>3. Stored(G, x, 0)
      BY DEF Stored
    <3>4. Entries(G, Held', NoName)
      BY <1>1, <1>4, <1>6, <1>7, <3>1, <3>2, <3>3, EntriesBut
    <3>5. ~Unlinking'
      BY <2>3 DEF Unlinking
    <3> QED
      BY <1>4, <3>4, <3>5 DEF SeenChains, G
  <2>10. EntryInv'
    <3>1. SeenDir[file.name].first = 0 /\ SeenDir[file.name].size = 0
      <4>1. SeenDir[file.name].size \in Nat
        BY <1>1, TypesAre DEF Good
      <4> QED
        BY <1>1, <2>4, <4>1 DEF EntryInv
    <3> QED
      BY <1>2, <2>2, <3>1 DEF EntryInv
  <2>11. CursorInv'
    <3>1. Leads(G, x, 0, x)
      BY <1>1, <1>4, LeadsStart
    <3>2. FarEnough(0)'
      <4>1. 0 >= 0 \div PerCluster
        BY Geometry
      <4> QED
        BY <2>2, <2>3, <2>4, <4>1 DEF FarEnough
    <3>3. (FarEnough(0) /\ Leads(SeenFat, file.first, 0, file.cur))'
      BY <2>2, <3>1, <3>2 DEF G
    <3>4. file'.cur # 0
      BY <1>1, <2>2, Marks DEF Free
    <3> QED
      BY <2>2, <2>3, <2>4, <3>3, <3>4 DEF CursorInv
  <2>12. SeekInv' /\ NewClusterInv' /\ FreedInv' /\ MadeInv'
    BY <2>3 DEF SeekInv, NewClusterInv, FreedInv, MadeInv
  <2> QED
    BY <1>8, <2>6, <2>7, <2>8, <2>9, <2>10, <2>11, <2>12 DEF Good, SoundInv
<1>10. CASE file.cur # 0
  <2>1. /\ file' = file /\ start' = start /\ ahead' = ahead
        /\ call' = [call EXCEPT !.at = "link"]
    BY <1>10 DEF TakeCluster, Go, x
  <2>2. CallOK' /\ Same(call') /\ call'.at = "link" /\ call'.left = call.left /\ call'.c = x
    BY <1>1, <2>1, GoesTo DEF x
  <2>3. TypeInv'
    BY <1>0, <1>1, <1>2, <2>1, <2>2 DEF TypeInv, PastOK
  <2>4. WorkInv'
    BY <1>0, <1>1, <2>1, <2>2, NoCallIs DEF Good, WorkInv, Same
  <2>5. AmountInv'
    BY <1>0, <1>2, <2>1, <2>2, AmountsKept DEF Good, AmountInv, CardKept
  <2>6. Held' = Held
    BY <1>2, <2>1 DEF Held
  <2>7. SeenChains'
    <3>1. ~Unlinking'
      BY <2>2 DEF Unlinking
    <3> QED
      BY <1>4, <1>6, <2>6, <3>1 DEF SeenChains, G
  <2>8. EntryInv'
    BY <1>1, <1>2, <2>1 DEF EntryInv
  <2>9. file.cur \in Clusters /\ F[file.cur] = EOC /\ file.cur # x /\ G[file.cur] = EOC
    BY <1>0, <1>1, <1>2, <1>4, <1>10, Marks DEF CursorInv, Free, F
  <2>10. CursorInv'
    <3>1. PICK n \in Nat : FarEnough(n) /\ Leads(F, file.first, n, file.cur)
      BY <1>1, <1>10 DEF CursorInv, F
    <3>2. Leads(G, file.first, n, file.cur)
      BY <1>1, <1>4, <3>1, LeadsKept
    <3>3. FarEnough(n)'
      BY <1>0, <2>1, <2>2, <3>1 DEF FarEnough
    <3>4. (FarEnough(n) /\ Leads(SeenFat, file.first, n, file.cur))'
      BY <2>1, <3>2, <3>3 DEF G
    <3>5. file'.pos >= file'.size
      BY <1>0, <1>1, <2>1 DEF CursorInv
    <3> QED
      BY <1>10, <2>1, <2>2, <2>9, <3>4, <3>5 DEF CursorInv, G
  <2>11. NewClusterInv'
    BY <1>4, <1>7, <2>1, <2>2, <2>6, <2>9 DEF NewClusterInv, G, x
  <2>12. SeekInv' /\ FreedInv' /\ MadeInv'
    BY <2>2 DEF SeekInv, FreedInv, MadeInv
  <2> QED
    BY <1>8, <2>3, <2>4, <2>5, <2>7, <2>8, <2>10, <2>11, <2>12 DEF Good, SoundInv
<1> QED
  BY <1>9, <1>10

LEMMA LinkIsKept ==
  ASSUME Good, Link
  PROVE  Good'
<1> DEFINE F == SeenFat
           G == SeenFat'
           x == call.c
           e == file.cur
<1>0. /\ call.at = "link" /\ ~MustFlush /\ ~Unlinking /\ card' = card
      /\ UNCHANGED <<start, printed, gone, broken, faults, losses>> /\ call # NoCall
      /\ Put([Value EXCEPT ![e] = x]) /\ ahead' = TRUE
      /\ file' = [file EXCEPT !.cur = x] /\ call' = [call EXCEPT !.at = "data"]
  BY NoCallIs DEF Link, Ready, Unlinking, Go
<1>1. /\ CursorInv /\ F \in Fats /\ file.size \in Nat /\ file.pos \in Nat
      /\ file \in Handles /\ CallOK /\ call.left \in Nat /\ file.name # NoName
      /\ StoreOK /\ PastOK /\ e \in Clusters /\ e # 0
      /\ x \in Clusters /\ Linked(F) /\ "data" \in Places
      /\ call.op # "open" /\ Wanted = Fat(e) /\ x \in FatValues /\ EntryInv /\ NewClusterInv
  BY <1>0, TypesAre, HandleIs, CallIs, WantedIs, Marks
     DEF Good, SoundInv, TypeInv, WorkInv, Places, SeenChains, FatValues, Free
<1>2. /\ StoreOK' /\ CardKept /\ G = Marked(F, e, x) /\ SeenDir' = SeenDir
      /\ cache'.block # Dir
  BY <1>0, <1>1, FatPut
<1>3. gone = NoName
  BY <1>0, NothingGone
<1>4. Heads(F, x) /\ x # e /\ (\A f \in Files : Held[f].first # x) /\ F[e] = EOC
  BY <1>0, <1>1 DEF NewClusterInv, CursorInv
<1> HIDE DEF F, G, e, x
<1>5. /\ G \in Fats /\ Linked(G) /\ G[e] = x
      /\ \A r : Heads(F, r) /\ r # x => Heads(G, r)
      /\ \A d \in Clusters : F[d] \in Clusters => G[d] = F[d]
  BY <1>1, <1>2, <1>4, LinkKeeps
<1>6. Entries(F, Held, NoName) /\ \A f \in Files : Held[f].size \in Nat
  BY <1>0, HeldType DEF Good, SoundInv, SeenChains, F
<1>7. Entries(G, Held, NoName)
  BY <1>1, <1>4, <1>5, <1>6, ChainsKept
<1>8. CardChains' /\ RemovalInv'
  BY <1>0, <1>2, <1>3 DEF Good, SoundInv, CardChains, CardKept, RemovalInv
<1>9. /\ file' \in Handles /\ file'.cur = x /\ file'.name = file.name
      /\ file'.size = file.size /\ file'.pos = file.pos /\ file'.first = file.first
  BY <1>0, <1>1, AtCluster
<1>10. CallOK' /\ Same(call') /\ call'.at = "data" /\ call'.left = call.left
  BY <1>0, <1>1, GoesTo
<1>11. TypeInv'
  BY <1>0, <1>1, <1>2, <1>9, <1>10 DEF TypeInv, PastOK
<1>12. WorkInv'
  BY <1>0, <1>1, <1>9, <1>10, NoCallIs DEF Good, WorkInv, Same
<1>13. AmountInv'
  BY <1>0, <1>2, <1>9, <1>10, AmountsKept DEF Good, AmountInv, CardKept
<1>14. SeenChains'
  <2>1. Held' = Held
    BY <1>2, <1>9 DEF Held
  <2>2. ~Unlinking'
    BY <1>10 DEF Unlinking
  <2> QED
    BY <1>5, <1>7, <2>1, <2>2 DEF SeenChains, G
<1>15. EntryInv'
  BY <1>1, <1>2, <1>9 DEF EntryInv
<1>16. CursorInv'
  <2>1. PICK n \in Nat : FarEnough(n) /\ Leads(F, file.first, n, e)
    BY <1>1 DEF CursorInv, F, e
  <2>2. Leads(G, file.first, n, e)
    BY <1>1, <1>5, <2>1, LeadsKept
  <2>3. Leads(G, file.first, n + 1, x) /\ n + 1 \in Nat
    BY <1>1, <1>5, <2>2, LeadsOn
  <2>4. n + 1 >= file.pos \div PerCluster /\ (file.pos > 0 => n + 1 >= Index(file.pos))
    <3>1. CASE file.pos = 0
      BY <1>1, <3>1, Geometry
    <3>2. CASE file.pos # 0
      <4>1. file.pos > 0 /\ Index(file.pos) \in Nat /\ file.pos \div PerCluster \in Nat
        BY <1>1, <3>2, IndexType, Division, Geometry
      <4>2. n >= Index(file.pos)
        BY <1>0, <2>1, <4>1 DEF FarEnough
      <4>3. file.pos \div PerCluster <= Index(file.pos) + 1
        <5>1. CASE file.pos % PerCluster = 0
          BY <1>1, <4>1, <5>1, IndexAtEnd
        <5>2. CASE file.pos % PerCluster # 0
          <6>1. file.pos \div PerCluster <= Index(file.pos)
            BY <1>1, <5>2, IndexInside
          <6> QED
            BY <4>1, <6>1
        <5> QED
          BY <5>1, <5>2
      <4> QED
        BY <4>1, <4>2, <4>3
    <3> QED
      BY <3>1, <3>2
  <2>5. FarEnough(n + 1)'
    BY <1>9, <1>10, <2>4 DEF FarEnough
  <2>6. (FarEnough(n + 1) /\ Leads(SeenFat, file.first, n + 1, file.cur))'
    BY <1>9, <2>3, <2>5 DEF G
  <2>7. file'.cur # 0 /\ file'.pos >= file'.size
    BY <1>0, <1>1, <1>9, Marks DEF CursorInv, Free
  <2> QED
    BY <1>10, <2>3, <2>6, <2>7 DEF CursorInv
<1>17. SeekInv' /\ NewClusterInv' /\ FreedInv' /\ MadeInv'
  BY <1>10 DEF SeekInv, NewClusterInv, FreedInv, MadeInv
<1> QED
  BY <1>8, <1>11, <1>12, <1>13, <1>14, <1>15, <1>16, <1>17 DEF Good, SoundInv
LEMMA Least ==
  ASSUME NEW a \in Nat, NEW b \in Nat
  PROVE  Min({a, b}) \in {a, b} /\ Min({a, b}) <= a /\ Min({a, b}) <= b
<1> DEFINE S == {a, b}
<1>1. \E x \in S : \A y \in S : x <= y
  <2>1. CASE a <= b
    BY <2>1
  <2>2. CASE ~(a <= b)
    BY <2>2
  <2> QED
    BY <2>1, <2>2
<1>2. Min(S) \in S /\ \A y \in S : Min(S) <= y
  BY <1>1 DEF Min
<1> QED
  BY <1>2

LEMMA StoreIsKept ==
  ASSUME Good, Store
  PROVE  Good'
<1> DEFINE F == SeenFat
           from == file.pos % PerBlock
           k == Min({PerBlock - from, call.left})
           p == file.pos + k
<1>0. /\ call.at = "data" /\ ~MustFlush /\ ~Unlinking /\ card' = card
      /\ UNCHANGED <<start, printed, gone, broken, faults, losses>> /\ call # NoCall
      /\ (\E v : Put(v)) /\ ahead' = FALSE
  BY NoCallIs DEF Store, Ready, Unlinking
<1>1. /\ CursorInv /\ F \in Fats /\ file.size \in Nat /\ file.pos \in Nat
      /\ file \in Handles /\ CallOK /\ call.left \in Nat /\ file.name # NoName
      /\ file.name \in Files /\ StoreOK /\ PastOK /\ AmountInv /\ printed \in Units
      /\ file.cur \in Clusters /\ {"data", "next"} \subseteq Places
      /\ call.op # "open" /\ EntryInv /\ PerBlock \in Nat \ {0}
      /\ call.op \in {"none", "print", "close", "remove"}
  BY <1>0, TypesAre, HandleIs, CallIs, WantedIs, Geometry
     DEF Good, SoundInv, TypeInv, WorkInv, Places, PastOK
<1>2. StoreOK' /\ CardKept /\ SeenKept
  BY <1>0, <1>1, WantedIs, DataPut
<1>3. gone = NoName
  BY <1>0, NothingGone
<1>4. PerBlock - from \in Nat /\ k \in Nat /\ k <= PerBlock - from /\ k <= call.left
      /\ from \in Nat /\ from < PerBlock
  <2>1. from \in 0 .. PerBlock - 1
    BY <1>1, Division
  <2> HIDE DEF from
  <2>2. PerBlock - from \in Nat
    BY <1>1, <2>1
  <2> QED
    BY <1>1, <2>1, <2>2, Least
<1>5. p \in Nat /\ p >= file.size /\ p >= file.pos /\ p + (call.left - k) <= printed /\ p \in Units
      /\ call.left - k \in Nat /\ call.left - k <= call.left
  <2> HIDE DEF k
  <2>1. file.pos >= file.size /\ file.pos + call.left <= printed /\ printed \in Nat
        /\ printed <= MaxUnits /\ MaxUnits \in Nat
    BY <1>0, <1>1, Geometry DEF CursorInv, AmountInv, Units
  <2> QED
    BY <1>1, <1>4, <2>1 DEF Units
<1>6. PICK n \in Nat : n >= file.pos \div PerCluster /\ Leads(F, file.first, n, file.cur)
  <2>1. file.cur # 0
    BY <1>1, Marks DEF Free
  <2> QED
    BY <1>0, <1>1, <2>1 DEF CursorInv, FarEnough
<1>7. p > 0 => Index(p) \in Nat /\ n >= Index(p)
  <2> HAVE p > 0
  <2>1. from + k <= PerBlock
    <3> HIDE DEF from, k
    <3> QED
      BY <1>1, <1>4
  <2>2. Index(p) <= file.pos \div PerCluster
    <3> HIDE DEF k
    <3> QED
      BY <1>1, <1>4, <2>1, IndexInBlock
  <2>3. Index(p) \in Nat /\ file.pos \div PerCluster \in Nat
    <3> HIDE DEF k
    <3> QED
      BY <1>1, <1>5, IndexType, Division, Geometry
  <2> QED
    BY <1>6, <2>2, <2>3
<1>8. PICK f : f = [file EXCEPT !.pos = p]
  OBVIOUS
<1>9. /\ f \in Handles /\ f.pos = p /\ f.cur = file.cur /\ f.name = file.name
      /\ f.size = file.size /\ f.first = file.first
  BY <1>1, <1>5, <1>8, AtPosition
<1>10. \/ /\ k < call.left /\ file' = f
          /\ \E next \in {"data", "next"} :
               /\ next = IF p % PerCluster = 0 THEN "next" ELSE "data"
               /\ call' = [call EXCEPT !.at = next, !.left = call.left - k]
       \/ /\ ~(k < call.left) /\ file' = [f EXCEPT !.size = p, !.dirty = TRUE]
          /\ call' = NoCall
  BY <1>8, <1>9 DEF Store
<1> HIDE DEF F, k, p, from
<1>11. CardChains' /\ RemovalInv'
  BY <1>0, <1>2, <1>3 DEF Good, SoundInv, CardChains, CardKept, RemovalInv
<1>12. CASE k < call.left
  <2>1. PICK next \in {"data", "next"} :
          /\ file' = f /\ next = IF p % PerCluster = 0 THEN "next" ELSE "data"
          /\ call' = [call EXCEPT !.at = next, !.left = call.left - k]
    BY <1>10, <1>12
  <2>2. CallOK' /\ Same(call') /\ call'.at = next /\ call'.left = call.left - k
    BY <1>1, <1>5, <2>1, GoesStoring
  <2>3. TypeInv'
    BY <1>0, <1>1, <1>2, <1>9, <2>1, <2>2 DEF TypeInv, PastOK
  <2>4. WorkInv'
    BY <1>0, <1>1, <1>9, <2>1, <2>2, NoCallIs DEF Good, WorkInv, Same
  <2>5. AmountInv'
    <3>1. file.size + (call.left - k) <= printed
      <4>1. file.size + call.left <= printed /\ printed \in Nat
        BY <1>1, Geometry DEF AmountInv, Units
      <4> QED
        BY <1>1, <1>4, <4>1
    <3> QED
      BY <1>0, <1>2, <1>1, <1>5, <1>9, <2>1, <2>2, <3>1, AmountsKept
  <2>6. SeenChains' /\ EntryInv'
    <3>1. Held' = Held
      BY <1>2, <1>9, <2>1 DEF Held, SeenKept
    <3>2. ~Unlinking'
      BY <2>2 DEF Unlinking
    <3> QED
      BY <1>0, <1>2, <1>9, <2>1, <3>1, <3>2
         DEF Good, SoundInv, SeenChains, SeenKept, EntryInv
  <2>7. CursorInv'
    <3>1. next = "data" => n >= p \div PerCluster
      <4> HAVE next = "data"
      <4>1. p % PerCluster # 0
        BY <2>1
      <4>2. p > 0 /\ p \div PerCluster <= Index(p) /\ p \div PerCluster \in Nat
        BY <1>5, <4>1, IndexInside, Division, Geometry
      <4> QED
        BY <1>7, <4>2
    <3>2. SeenFat' = SeenFat /\ file'.cur # 0
      BY <1>1, <1>2, <1>9, <2>1, Marks DEF SeenKept, Free
    <3>3. p > 0 => n >= Index(p)
      BY <1>7
    <3>4. p >= file.size /\ (next = "next" => p % PerCluster = 0)
      BY <1>5, <2>1
    <3> QED
      BY <1>6, <1>9, <2>1, <2>2, <3>1, <3>2, <3>3, <3>4, CursorOn DEF F
  <2>8. SeekInv' /\ NewClusterInv' /\ FreedInv' /\ MadeInv'
    BY <2>2 DEF SeekInv, NewClusterInv, FreedInv, MadeInv
  <2> QED
    BY <1>11, <2>3, <2>4, <2>5, <2>6, <2>7, <2>8 DEF Good, SoundInv
<1>13. CASE ~(k < call.left)
  <2>1. file' = Ended(f, p) /\ call' = NoCall
    BY <1>10, <1>13 DEF Ended
  <2>2. /\ file' \in Handles /\ file'.size = p /\ file'.cur = file.cur
        /\ file'.first = file.first /\ file'.name = file.name /\ file'.pos = p
    BY <1>5, <1>9, <2>1, AtEnd
  <2>3. call'.at = "idle" /\ call'.left = 0 /\ CallOK' /\ call'.op = "none"
    BY <2>1, NoCallIs, CallOver
  <2>4. TypeInv'
    BY <1>0, <1>1, <1>2, <2>2, <2>3 DEF TypeInv, PastOK
  <2>5. WorkInv'
    BY <1>1, <2>1, <2>2, <2>3 DEF WorkInv
  <2>6. AmountInv'
    <3>1. p + 0 <= printed
      BY <1>1, <1>5, Geometry DEF Units
    <3> QED
      BY <1>0, <1>1, <1>2, <2>2, <2>3, <3>1, AmountsKept
  <2>7. SeenChains'
    <3>1. Stored(F, file.first, p)
      <4>1. CASE p > 0
        <5>1. \E d \in Clusters : Leads(F, file.first, Index(p), d)
          BY <1>1, <1>6, <1>7, <4>1, LeadsShort
        <5> QED
          BY <5>1 DEF Stored
      <4>2. CASE ~(p > 0)
        BY <4>2 DEF Stored
      <4> QED
        BY <4>1, <4>2
    <3>2. Held'[file.name].first = file.first /\ Held'[file.name].size = p
      BY <1>1, <2>2 DEF Held
    <3>3. \A f_ \in Files \ {NoName, file.name} :
            Held'[f_].first = Held[f_].first /\ Held'[f_].size = Held[f_].size
      BY <1>2, <2>2 DEF Held, SeenKept
    <3>4. Entries(F, Held, NoName) /\ Linked(F)
      BY <1>0 DEF Good, SoundInv, SeenChains, F
    <3>5. Held[file.name].first = file.first
      BY <1>1, HeldIs
    <3>6. /\ Held'[file.name].first # 0 => Heads(F, Held'[file.name].first)
          /\ Held'[file.name].first # 0 =>
               \A f_ \in Files \ {NoName, file.name} : Held[f_].first # Held'[file.name].first
      BY <1>1, <3>2, <3>4, <3>5 DEF Entries
    <3>7. Entries(F, Held', NoName)
      BY <1>1, <3>1, <3>2, <3>3, <3>4, <3>6, EntriesBut
    <3>8. ~Unlinking' /\ SeenFat' = F
      BY <1>2, <2>3 DEF Unlinking, F, SeenKept
    <3> QED
      BY <3>4, <3>7, <3>8 DEF SeenChains
  <2>8. EntryInv'
    <3>1. SeenDir[file.name].size \in Nat
      BY <1>1, TypesAre DEF Good
    <3> QED
      BY <1>1, <1>2, <1>5, <2>2, <3>1 DEF EntryInv, SeenKept
  <2>9. CursorInv'
    <3>1. FarEnough(n)'
      BY <1>7, <2>2, <2>3 DEF FarEnough
    <3>2. (FarEnough(n) /\ Leads(SeenFat, file.first, n, file.cur))'
      BY <1>2, <1>6, <2>2, <3>1 DEF F, SeenKept
    <3>3. file'.cur # 0 /\ file'.pos >= file'.size
      BY <1>1, <1>5, <2>2, Marks DEF Free
    <3> QED
      BY <1>6, <2>3, <3>2, <3>3 DEF CursorInv
  <2>10. SeekInv' /\ NewClusterInv' /\ FreedInv' /\ MadeInv'
    BY <2>3 DEF SeekInv, NewClusterInv, FreedInv, MadeInv
  <2> QED
    BY <1>11, <2>4, <2>5, <2>6, <2>7, <2>8, <2>9, <2>10 DEF Good, SoundInv
<1> QED
  BY <1>12, <1>13
-----------------------------------------------------------------------------
(* The steps of close() and remove(), and the look-ups.                     *)
LEMMA CursorRests ==
  ASSUME CursorInv, SeenFat' = SeenFat, file'.cur = file.cur, file'.pos = file.pos,
         file'.size = file.size, file'.first = file.first,
         call'.at \notin {"seek", "next", "search", "link", "data"}
  PROVE  CursorInv'
<1>1. ASSUME file.cur # 0
      PROVE  (\E n \in Nat : FarEnough(n) /\ Leads(SeenFat, file.first, n, file.cur))'
  <2>1. PICK n \in Nat : FarEnough(n) /\ Leads(SeenFat, file.first, n, file.cur)
    BY <1>1 DEF CursorInv
  <2>2. FarEnough(n)'
    BY <2>1 DEF FarEnough
  <2> QED
    BY <2>1, <2>2
<1>2. file.cur = 0 => file.pos = 0
  BY DEF CursorInv
<1>3. file.pos = 0 \/ file.pos >= file.size
  BY DEF CursorInv
<1> QED
  BY <1>1, <1>2, <1>3 DEF CursorInv

LEMMA CursorNone ==
  ASSUME file'.cur = 0, file'.pos = 0,
         call'.at \notin {"seek", "next", "search", "link", "data"}
  PROVE  CursorInv'
  BY DEF CursorInv

LEMMA NothingElse ==
  ASSUME call'.at \notin {"seek", "link", "free"}, call'.op # "open" \/ call'.at # "flush"
  PROVE  SeekInv' /\ NewClusterInv' /\ FreedInv' /\ MadeInv'
  BY DEF SeekInv, NewClusterInv, FreedInv, MadeInv

(* A handle that is no other than the entry it was made of.                 *)
LEMMA HandleAnew ==
  ASSUME TypeInv, EntryInv, Linked(SeenFat), Entries(SeenFat, Held, NoName), SeenKept,
         file'.name \in Files \cup {NoName}, ~Unlinking', file'.size \in Nat,
         file'.name \in Files => /\ file'.first = SeenDir[file'.name].first
                                 /\ file'.size = SeenDir[file'.name].size
  PROVE  SeenChains' /\ EntryInv'
<1>1. Entries(SeenFat, SeenDir, NoName)
  BY SeenEntries
<1>2. \A f \in Files \ {NoName} :
        Held'[f].first = SeenDir[f].first /\ Held'[f].size = SeenDir[f].size
  BY DEF Held, SeenKept
<1>3. Entries(SeenFat, Held', NoName)
  BY <1>1, <1>2, EntriesSame
<1>4. SeenChains'
  BY <1>3 DEF SeenChains, SeenKept
<1>5. EntryInv'
  BY DEF EntryInv, SeenKept
<1> QED
  BY <1>4, <1>5

(* An entry waiting to be written stays so.                                 *)
LEMMA RemovalOn ==
  ASSUME RemovalInv, ~Unlinking, gone' = gone, SeenDir' = SeenDir,
         cache.state = "dirty" => cache' = cache, call'.at \notin {"free", "clear"},
         \/ file'.name \notin Files
         \/ file'.name = file.name /\ file'.first = file.first /\ file'.size = file.size
         \/ /\ file'.first = SeenDir[file'.name].first
            /\ file'.size = SeenDir[file'.name].size,
         gone \in Files \cup {NoName}
  PROVE  RemovalInv'
<1> SUFFICES ASSUME gone # NoName
             PROVE  /\ cache'.block = Dir /\ cache'.state = "dirty"
                    /\ SeenDir[gone].first = 0 /\ SeenDir[gone].size = 0
                    /\ file'.name = gone => file'.first = 0 /\ file'.size = 0
  BY DEF RemovalInv
<1>1. /\ cache.block = Dir /\ cache.state = "dirty"
      /\ SeenDir[gone].first = 0 /\ SeenDir[gone].size = 0
      /\ file.name = gone => file.first = 0 /\ file.size = 0
  BY DEF RemovalInv
<1> QED
  BY <1>1

Filled(D, h, size, first) == [D EXCEPT ![h].size = size, ![h].first = first]

LEMMA FilledIs ==
  ASSUME NEW D \in [Files -> Entry], NEW h \in Files, NEW size \in Units,
         NEW first \in {Free} \cup Clusters
  PROVE  /\ Filled(D, h, size, first) \in [Files -> Entry]
         /\ Filled(D, h, size, first)[h] = [there |-> D[h].there, size |-> size, first |-> first]
         /\ \A g \in Files : g # h => Filled(D, h, size, first)[g] = D[g]
<1> DEFINE W == [D EXCEPT ![h].size = size]
           V == [W EXCEPT ![h].first = first]
<1>1. W \in [Files -> Entry] /\ W[h] = [D[h] EXCEPT !.size = size]
      /\ \A g \in Files : g # h => W[g] = D[g]
  <2>1. [D[h] EXCEPT !.size = size] \in Entry
    BY DEF Entry
  <2> QED
    BY <2>1
<1>2. W[h].there = D[h].there /\ W[h].size = size
  BY <1>1 DEF Entry
<1> HIDE DEF W
<1>3. V \in [Files -> Entry] /\ V[h] = [W[h] EXCEPT !.first = first]
      /\ \A g \in Files : g # h => V[g] = W[g]
  <2>1. PICK e : e = W[h]
    OBVIOUS
  <2>2. e \in Entry
    BY <1>1, <2>1
  <2>3. [e EXCEPT !.first = first] \in Entry
    BY <2>2 DEF Entry
  <2> QED
    BY <1>1, <2>1, <2>3
<1>4. V[h] = [there |-> D[h].there, size |-> size, first |-> first]
  BY <1>1, <1>2, <1>3 DEF Entry
<1>5. V = Filled(D, h, size, first)
  BY DEF V, W, Filled
<1> QED
  BY <1>1, <1>3, <1>4, <1>5

LEMMA PutEntryKeeps ==
  ASSUME Good, PutEntry
  PROVE  Good'
<1> DEFINE h == file.name
           v == [Value EXCEPT ![h].size = file.size, ![h].first = file.first]
           e == [there |-> SeenDir[h].there, size |-> file.size, first |-> file.first]
<1>0. /\ call.at = "entry" /\ ~MustFlush /\ ~Unlinking /\ card' = card
      /\ UNCHANGED <<start, past>> /\ call # NoCall
      /\ Put(v) /\ file' = [file EXCEPT !.dirty = FALSE] /\ Go("flush")
  BY NoCallIs DEF PutEntry, Ready, Unlinking
<1>1. /\ file \in Handles /\ file.size \in Units /\ file.first \in {Free} \cup Clusters
      /\ CallOK /\ PastOK /\ StoreOK /\ h \in Files /\ h # NoName /\ "flush" \in Places
      /\ Wanted = Dir /\ Value = SeenDir /\ SeenDir \in [Files -> Entry]
      /\ call.op # "open" /\ CursorInv /\ call.left \in Nat /\ printed \in Nat
      /\ file.size \in Nat
  BY <1>0, TypesAre, HandleIs, CallIs, WantedIs, ReadIs
     DEF Good, SoundInv, TypeInv, WorkInv, Places, PastOK
<1>2. e \in Entry /\ v[h] = e /\ v \in [Files -> Entry]
      /\ \A g \in Files : g # h => v[g] = Value[g]
  <2>1. e \in Entry
    BY <1>1 DEF Entry
  <2>2. v[h] = e /\ v \in [Files -> Entry] /\ \A g \in Files : g # h => v[g] = Value[g]
    <3>1. v = Filled(SeenDir, h, file.size, file.first)
      BY <1>1 DEF Filled
    <3> HIDE DEF v
    <3> QED
      BY <1>1, <3>1, FilledIs
  <2> QED
    BY <2>1, <2>2
<1>3. e.size = file.size /\ e.first = file.first
  OBVIOUS
<1> HIDE DEF v, e
<1>4. /\ StoreOK' /\ CardKept /\ SeenFat' = SeenFat /\ SeenDir' = Marked(SeenDir, h, e)
      /\ cache'.block = Dir /\ cache'.state = "dirty"
  BY <1>0, <1>1, <1>2, DirPut
<1>5. SeenDir'[h] = e /\ \A g \in Files : g # h => SeenDir'[g] = SeenDir[g]
  BY <1>1, <1>4 DEF Marked
<1>6. /\ file' \in Handles /\ file'.size = file.size /\ file'.cur = file.cur
      /\ file'.first = file.first /\ file'.name = h /\ file'.pos = file.pos
  BY <1>0, <1>1, NotDirty
<1>7. CallOK' /\ Same(call') /\ call'.at = "flush" /\ call'.left = call.left
  BY <1>0, <1>1, GoesTo DEF Go
<1>8. TypeInv'
  BY <1>0, <1>1, <1>4, <1>6, <1>7 DEF TypeInv, PastOK, past
<1>9. WorkInv'
  BY <1>0, <1>1, <1>6, <1>7, NoCallIs DEF Good, WorkInv, Same
<1>10. AmountInv'
  <2>1. e.size <= printed
    BY <1>1, <1>3 DEF Good, AmountInv
  <2>2. \A f \in Files : SeenDir'[f].size <= printed
    BY <1>5, <2>1 DEF Good, AmountInv
  <2> QED
    BY <1>0, <1>4, <1>6, <1>7, <2>2 DEF Good, AmountInv, CardKept, past
<1>11. SeenChains'
  <2>1. Held' = Held
    BY <1>5, <1>6 DEF Held
  <2>2. ~Unlinking'
    BY <1>7 DEF Unlinking
  <2> QED
    BY <1>0, <1>4, <2>1, <2>2 DEF Good, SoundInv, SeenChains
<1>12. EntryInv'
  BY <1>1, <1>3, <1>5, <1>6 DEF EntryInv
<1>13. CardChains'
  BY <1>0, <1>4 DEF Good, SoundInv, CardChains, CardKept, past
<1>14. RemovalInv'
  <2> SUFFICES ASSUME gone # NoName
               PROVE  /\ SeenDir'[gone].first = 0 /\ SeenDir'[gone].size = 0
                      /\ file'.name = gone => file'.first = 0 /\ file'.size = 0
    BY <1>0, <1>4, <1>7 DEF RemovalInv, past
  <2>1. /\ SeenDir[gone].first = 0 /\ SeenDir[gone].size = 0
        /\ file.name = gone => file.first = 0 /\ file.size = 0
    BY <1>0 DEF Good, SoundInv, RemovalInv
  <2>2. gone \in Files
    BY <1>1 DEF PastOK
  <2> QED
    BY <1>3, <1>5, <1>6, <2>1, <2>2
<1>15. CursorInv'
  BY <1>1, <1>4, <1>6, <1>7, CursorRests
<1>16. SeekInv' /\ NewClusterInv' /\ FreedInv' /\ MadeInv'
  BY <1>1, <1>7, NothingElse DEF Same
<1> QED
  BY <1>8, <1>9, <1>10, <1>11, <1>12, <1>13, <1>14, <1>15, <1>16 DEF Good, SoundInv

LEMMA EmptyIs ==
  /\ EmptyEntry \in Entry /\ EmptyEntry.first = 0 /\ EmptyEntry.size = 0
  /\ Absent \in Entry /\ Absent.first = 0 /\ Absent.size = 0
<1>1. 0 \in Units /\ 0 \in {Free} \cup Clusters
  BY Geometry DEF Units, Free
<1>2. Absent \in Entry /\ Absent.first = 0 /\ Absent.size = 0
  BY <1>1 DEF Absent, Entry
<1>3. [Absent EXCEPT !.there = TRUE] \in Entry
  BY <1>2 DEF Entry
<1>4. EmptyEntry.first = Absent.first /\ EmptyEntry.size = Absent.size
  BY <1>2 DEF EmptyEntry, Entry
<1> QED
  BY <1>2, <1>3, <1>4 DEF EmptyEntry

LEMMA FlushedKeeps ==
  ASSUME Good, Flushed
  PROVE  Good'
<1>0. /\ call.at = "flush" /\ ~MustFlush /\ ~Unlinking /\ card' = card /\ cache' = cache
      /\ UNCHANGED <<start, printed, gone, broken, faults, losses>>
      /\ ahead' = FALSE /\ call' = NoCall
      /\ file' = IF call.op = "open" THEN Handle(call.name, EmptyEntry) ELSE NoHandle
  BY DEF Flushed, Ready, Unlinking
<1>1. /\ StoreOK /\ PastOK /\ EntryInv /\ (call.op = "open" => call.name \in Files)
      /\ printed \in Nat /\ Linked(SeenFat) /\ Entries(SeenFat, Held, NoName)
      /\ RemovalInv /\ gone \in Files \cup {NoName} /\ AmountInv
  BY <1>0, TypesAre DEF Good, TypeInv, WorkInv, SoundInv, PastOK, SeenChains
<1>2. StoreOK' /\ CardKept /\ SeenKept
  BY <1>0, <1>1, NothingMoves
<1>3. /\ file' \in Handles /\ file'.cur = 0 /\ file'.pos = 0 /\ file'.size = 0
      /\ file'.first = 0 /\ file'.name \in Files \cup {NoName} /\ file'.size \in Nat
      /\ file' = NoHandle \/ file'.name # NoName
      /\ file'.name \in Files => call.op = "open" /\ file'.name = call.name
  <2>1. CASE call.op = "open"
    <3>1. EmptyEntry.size \in Units /\ EmptyEntry.first \in {Free} \cup Clusters
      BY EmptyIs DEF Entry
    <3>2. call.name \in Files /\ file' = Handle(call.name, EmptyEntry)
      BY <1>0, <1>1, <2>1
    <3>3. /\ file' \in Handles /\ file'.name = call.name /\ file'.size = EmptyEntry.size
          /\ file'.first = EmptyEntry.first /\ file'.cur = 0 /\ file'.pos = 0
      BY <3>1, <3>2, HandleOf
    <3> QED
      BY <2>1, <3>2, <3>3, EmptyIs, NoNameIsNone
  <2>2. CASE call.op # "open"
    BY <1>0, <2>2, NoHandleIs, NoNameIsNone
  <2> QED
    BY <2>1, <2>2
<1>4. /\ CallOK' /\ call'.at = "idle" /\ call'.op = "none" /\ call'.left = 0 /\ ~Unlinking'
  BY <1>0, NoCallIs, CallOver DEF Unlinking
<1>5. TypeInv'
  BY <1>0, <1>1, <1>2, <1>3, <1>4 DEF TypeInv, PastOK
<1>6. WorkInv'
  BY <1>0, <1>3, <1>4 DEF WorkInv
<1>7. AmountInv'
  BY <1>0, <1>1, <1>2, <1>3, <1>4, AmountsKept
<1>8. file'.name \in Files => /\ file'.first = SeenDir[file'.name].first
                              /\ file'.size = SeenDir[file'.name].size
  BY <1>0, <1>3 DEF Good, SoundInv, MadeInv
<1>9. SeenChains' /\ EntryInv'
  BY <1>1, <1>2, <1>3, <1>4, <1>8, HandleAnew DEF Good
<1>10. CardChains'
  BY <1>0, <1>2 DEF Good, SoundInv, CardChains, CardKept
<1>11. RemovalInv'
  BY <1>0, <1>1, <1>2, <1>3, <1>4, <1>8, RemovalOn DEF SeenKept
<1>12. CursorInv'
  BY <1>3, <1>4, CursorNone
<1>13. SeekInv' /\ NewClusterInv' /\ FreedInv' /\ MadeInv'
  BY <1>4, NothingElse
<1> QED
  BY <1>5, <1>6, <1>7, <1>9, <1>10, <1>11, <1>12, <1>13 DEF Good, SoundInv
-----------------------------------------------------------------------------
(* An entry is made empty, or given up: by open(), and by remove() behind   *)
(* the chain it headed.                                                     *)
LEMMA EmptyPut ==
  ASSUME Good, call.at \in {"lookup", "clear", "erase"}, ~MustFlush, card' = card,
         NEW e \in {EmptyEntry, Absent}, Put([Value EXCEPT ![call.name] = e]),
         UNCHANGED <<start, file, past>>, NEW at \in {"flush", "cleared"}, Go(at),
         call.op = "open" => at = "flush"
  PROVE  Good'
<1> DEFINE h == call.name
           v == [Value EXCEPT ![h] = e]
           x == IF Unlinking THEN gone ELSE NoName
<1>1. /\ CallOK /\ PastOK /\ StoreOK /\ h \in Files /\ at \in Places /\ file = NoHandle
      /\ Wanted = Dir /\ Value = SeenDir /\ SeenDir \in [Files -> Entry]
      /\ CursorInv /\ call.left \in Nat /\ printed \in Nat /\ RemovalInv
      /\ e \in Entry /\ e.first = 0 /\ e.size = 0 /\ file \in Handles
      /\ gone \in Files \cup {NoName}
  BY TypesAre, CallIs, WantedIs, ReadIs, EmptyIs
     DEF Good, SoundInv, TypeInv, WorkInv, Places, PastOK
<1>2. v[h] = e /\ v \in [Files -> Entry] /\ \A g \in Files : g # h => v[g] = Value[g]
  BY <1>1
<1> HIDE DEF v
<1>3. /\ StoreOK' /\ CardKept /\ SeenFat' = SeenFat /\ SeenDir' = Marked(SeenDir, h, e)
      /\ cache'.block = Dir /\ cache'.state = "dirty"
  BY <1>1, <1>2, DirPut DEF v
<1>4. SeenDir'[h] = e /\ \A g \in Files : g # h => SeenDir'[g] = SeenDir[g]
  BY <1>1, <1>3 DEF Marked
<1>5. CallOK' /\ Same(call') /\ call'.at = at /\ call'.left = call.left
  BY <1>1, GoesTo DEF Go
<1>6. TypeInv'
  BY <1>1, <1>3, <1>5 DEF TypeInv, PastOK, past
<1>7. WorkInv'
  BY <1>1, <1>5, NoCallIs DEF Good, WorkInv, Same
<1>8. AmountInv'
  <2>1. e.size <= printed
    BY <1>1
  <2>2. \A f \in Files : SeenDir'[f].size <= printed
    BY <1>4, <2>1 DEF Good, AmountInv
  <2> QED
    BY <1>3, <1>5, <2>2 DEF Good, AmountInv, CardKept, past
<1>9. \A f \in Files : Held[f] = SeenDir[f] /\ Held'[f] = SeenDir'[f]
  BY <1>1, NoHandleIs, NoNameIsNone DEF Held
<1>10. x \notin Files \/ x = h
  BY <1>1, NoNameIsNone DEF RemovalInv, Unlinking, Good, SoundInv
<1>11. Entries(SeenFat, Held, x)
  BY DEF Good, SoundInv, SeenChains
<1> HIDE DEF x
<1>12. Entries(SeenFat, Held', x)
  <2>1. Stored(SeenFat, Held'[h].first, Held'[h].size) /\ Held'[h].first = 0
    BY <1>1, <1>4, <1>9 DEF Stored
  <2>2. \A f \in Files \ {x, h} :
          Held'[f].first = Held[f].first /\ Held'[f].size = Held[f].size
    BY <1>4, <1>9
  <2> QED
    BY <1>1, <1>11, <2>1, <2>2, EntriesBut
<1>13. Entries(SeenFat, Held', NoName)
  <2>1. x \notin Files \/ (Held'[x].first = 0 /\ Held'[x].size = 0)
    BY <1>1, <1>4, <1>9, <1>10
  <2> QED
    BY <1>12, <2>1, EntriesAll
<1>14. SeenChains'
  <2>1. ~Unlinking'
    BY <1>5 DEF Unlinking
  <2> QED
    BY <1>3, <1>13, <2>1 DEF Good, SoundInv, SeenChains
<1>15. EntryInv'
  BY <1>1, NoHandleIs DEF EntryInv
<1>16. CardChains'
  BY <1>3 DEF Good, SoundInv, CardChains, CardKept, past
<1>17. RemovalInv'
  <2> SUFFICES ASSUME gone # NoName
               PROVE  SeenDir'[gone].first = 0 /\ SeenDir'[gone].size = 0
    BY <1>1, <1>3, <1>5, NoHandleIs DEF RemovalInv, past
  <2>1. gone = h \/ (SeenDir[gone].first = 0 /\ SeenDir[gone].size = 0)
    BY <1>1 DEF RemovalInv
  <2> QED
    BY <1>1, <1>4, <2>1
<1>18. CursorInv'
  BY <1>1, <1>5, NoHandleIs, CursorNone
<1>19. SeekInv' /\ NewClusterInv' /\ FreedInv'
  BY <1>5 DEF SeekInv, NewClusterInv, FreedInv
<1>20. MadeInv'
  BY <1>1, <1>4, <1>5 DEF MadeInv, Same
<1> QED
  BY <1>6, <1>7, <1>8, <1>14, <1>15, <1>16, <1>17, <1>18, <1>19, <1>20 DEF Good, SoundInv

LEMMA ClearEntryKeeps ==
  ASSUME Good, ClearEntry
  PROVE  Good'
<1>1. /\ call.at = "clear" /\ ~MustFlush /\ card' = card /\ UNCHANGED <<start, file, past>>
      /\ Put([Value EXCEPT ![call.name] = EmptyEntry]) /\ Go("cleared")
  BY DEF ClearEntry, Ready
<1>2. call.op # "open"
  BY <1>1 DEF Good, WorkInv
<1> QED
  BY <1>1, <1>2, EmptyPut

LEMMA EraseEntryKeeps ==
  ASSUME Good, EraseEntry
  PROVE  Good'
<1>1. /\ call.at = "erase" /\ ~MustFlush /\ card' = card /\ UNCHANGED <<start, file, past>>
      /\ Put([Value EXCEPT ![call.name] = Absent]) /\ Go("flush")
  BY DEF EraseEntry, Ready
<1> QED
  BY <1>1, EmptyPut

LEMMA ClearedKeeps ==
  ASSUME Good, Cleared
  PROVE  Good'
<1>0. /\ call.at = "cleared" /\ ~Unlinking /\ card' = card /\ cache' = cache
      /\ UNCHANGED <<start, file, past>> /\ Go("erase")
  BY DEF Cleared, Ready, Unlinking
<1>1. CallOK /\ PastOK /\ StoreOK /\ "erase" \in Places /\ file \in Handles /\ CursorInv
      /\ AmountInv
  BY DEF Good, TypeInv, SoundInv, Places
<1>2. StoreOK' /\ CardKept /\ SeenKept
  BY <1>0, <1>1, NothingMoves
<1>3. CallOK' /\ Same(call') /\ call'.at = "erase" /\ call'.left = call.left
  BY <1>0, <1>1, GoesTo DEF Go
<1>4. TypeInv'
  BY <1>0, <1>1, <1>2, <1>3 DEF TypeInv, PastOK, past
<1>5. WorkInv'
  BY <1>0, <1>3, NoCallIs DEF Good, WorkInv, Same
<1>6. AmountInv'
  BY <1>0, <1>1, <1>2, <1>3, AmountsKept DEF AmountInv, past
<1>7. CardChains' /\ SeenChains' /\ EntryInv' /\ RemovalInv'
  <2>1. ~Unlinking' /\ gone' = gone
    BY <1>0, <1>3 DEF Unlinking, past
  <2> QED
    BY <1>0, <1>2, <2>1, StepOn DEF Good
<1>8. CursorInv'
  BY <1>0, <1>1, <1>2, <1>3, CursorRests DEF SeenKept
<1>9. SeekInv' /\ NewClusterInv' /\ FreedInv' /\ MadeInv'
  BY <1>3, NothingElse
<1> QED
  BY <1>4, <1>5, <1>6, <1>7, <1>8, <1>9 DEF Good, SoundInv

LEMMA LookupToOpenKeeps ==
  ASSUME Good, LookupToOpen
  PROVE  Good'
<1> DEFINE h == call.name
           entry == SeenDir[h]
<1>0. /\ call.at = "lookup" /\ ~MustFlush /\ ~Unlinking /\ card' = card /\ call # NoCall
      /\ UNCHANGED <<start, past>> /\ call.op = "open"
      /\ \/ /\ Value[h].there /\ Read /\ Value[h].size = 0
            /\ file' = Handle(h, Value[h]) /\ call' = NoCall
         \/ /\ Value[h].there /\ Read /\ Value[h].size # 0 /\ Seek(Handle(h, Value[h]))
         \/ Put([Value EXCEPT ![h] = EmptyEntry]) /\ Go("flush") /\ UNCHANGED file
  BY NoCallIs DEF LookupToOpen, Ready, Unlinking
<1>1. /\ CallOK /\ PastOK /\ StoreOK /\ h \in Files /\ file = NoHandle
      /\ Value = SeenDir /\ SeenDir \in [Files -> Entry] /\ entry \in Entry
      /\ CursorInv /\ EntryInv /\ printed \in Nat /\ RemovalInv
      /\ gone \in Files \cup {NoName} /\ call.left = 0 /\ AmountInv
      /\ Linked(SeenFat) /\ Entries(SeenFat, Held, NoName)
  BY <1>0, TypesAre, CallIs, ReadIs
     DEF Good, SoundInv, TypeInv, WorkInv, PastOK, SeenChains
<1>2. CASE Put([Value EXCEPT ![h] = EmptyEntry]) /\ Go("flush") /\ UNCHANGED file
  BY <1>0, <1>2, EmptyPut
<1>3. ASSUME Read, NEW f, f = Handle(h, entry), file'.name = f.name, file'.size = f.size,
             file'.first = f.first, file'.pos = f.pos, file' \in Handles,
             CallOK', call'.at \in {"idle", "seek"}, call'.left = 0,
             call'.op = "open" => call'.at = "seek", call'.op \in {"open", "none"},
             call'.name = h \/ call'.op = "none", call' = NoCall \/ call'.at # "idle",
             CursorInv', SeekInv'
      PROVE  Good'
  <2>1. StoreOK' /\ CardKept /\ SeenKept /\ (cache.state = "dirty" => cache' = cache)
    BY <1>0, <1>3, ReadsKeep
  <2>2. /\ f.name = h /\ f.size = entry.size /\ f.first = entry.first /\ f.pos = 0
        /\ entry.size \in Nat /\ entry.size <= printed /\ h # NoName
    <3>1. entry.size \in Units /\ entry.first \in {Free} \cup Clusters
      BY <1>1 DEF Entry
    <3> QED
      BY <1>1, <1>3, <3>1, HandleOf, TypesAre, NoNameIsNone DEF AmountInv, Good
  <2>3. TypeInv'
    BY <1>0, <1>1, <1>3, <2>1 DEF TypeInv, PastOK, past
  <2>4. WorkInv'
    BY <1>0, <1>1, <1>3, <2>2 DEF WorkInv
  <2>5. AmountInv'
    BY <1>0, <1>1, <1>3, <2>1, <2>2, AmountsKept DEF past
  <2>6. ~Unlinking'
    BY <1>3 DEF Unlinking
  <2>7. SeenChains' /\ EntryInv'
    BY <1>1, <1>3, <2>1, <2>2, <2>6, HandleAnew DEF Good
  <2>8. CardChains'
    BY <1>0, <2>1 DEF Good, SoundInv, CardChains, CardKept, past
  <2>9. RemovalInv'
    BY <1>0, <1>1, <1>3, <2>1, <2>2, RemovalOn DEF SeenKept, past
  <2>10. NewClusterInv' /\ FreedInv' /\ MadeInv'
    BY <1>3 DEF NewClusterInv, FreedInv, MadeInv
  <2> QED
    BY <1>3, <2>3, <2>4, <2>5, <2>7, <2>8, <2>9, <2>10 DEF Good, SoundInv
<1>4. PICK f : f = Handle(h, entry)
  OBVIOUS
<1>5. /\ f \in Handles /\ f.name = h /\ f.size = entry.size /\ f.first = entry.first
      /\ f.cur = 0 /\ f.pos = 0 /\ entry.size \in Nat
  <2>1. entry.size \in Units /\ entry.first \in {Free} \cup Clusters
    BY <1>1 DEF Entry
  <2> QED
    BY <1>1, <1>4, <2>1, HandleOf, TypesAre DEF Good
<1>6. CASE Read /\ entry.size = 0 /\ file' = f /\ call' = NoCall
  <2>1. /\ CallOK' /\ call'.at = "idle" /\ call'.op = "none" /\ call'.left = 0
    BY <1>6, NoCallIs, CallOver
  <2>2. CursorInv'
    BY <1>5, <1>6, <2>1, CursorNone
  <2>3. SeekInv'
    BY <2>1 DEF SeekInv
  <2> QED
    BY <1>3, <1>4, <1>5, <1>6, <2>1, <2>2, <2>3
<1>7. CASE Read /\ entry.size # 0 /\ Seek(f)
  <2>1. SeenFat' = SeenFat
    BY <1>0, <1>7, ReadsKeep DEF SeenKept
  <2>2. Stored(SeenFat, f.first, f.size)
    <3>1. Held[h] = SeenDir[h]
      BY <1>1, NoHandleIs, NoNameIsNone DEF Held
    <3> QED
      BY <1>1, <1>5, <3>1, NoNameIsNone DEF Entries
  <2>3. f.size > 0 /\ f.name # NoName
    BY <1>1, <1>5, <1>7, NoNameIsNone
  <2>4. /\ file' \in Handles /\ file'.name = f.name /\ file'.size = f.size
        /\ file'.first = f.first /\ file'.pos = f.pos
        /\ CallOK' /\ Same(call') /\ call'.left = call.left /\ call'.at = "seek"
        /\ CursorInv' /\ SeekInv'
    BY <1>0, <1>5, <1>7, <2>1, <2>2, <2>3, SeekStarts
  <2> QED
    BY <1>0, <1>1, <1>3, <1>4, <1>7, <2>4 DEF Same
<1> QED
  BY <1>0, <1>1, <1>2, <1>4, <1>6, <1>7
-----------------------------------------------------------------------------
(* remove() frees the chain of its file from the head on.                   *)
LEMMA LookupToRemoveKeeps ==
  ASSUME Good, LookupToRemove
  PROVE  Good'
<1> DEFINE h == call.name
           entry == SeenDir[h]
           x == entry.first
<1>0. /\ call.at = "lookup" /\ ~MustFlush /\ ~Unlinking /\ card' = card /\ call # NoCall
      /\ UNCHANGED <<file, past>> /\ call.op = "remove" /\ Read
      /\ \/ call' = NoCall /\ UNCHANGED start
         \/ Go("erase") /\ UNCHANGED start
         \/ /\ Value[h].size # 0 /\ start' = 2
            /\ call' = [call EXCEPT !.at = "free", !.c = Value[h].first]
  BY NoCallIs DEF LookupToRemove, Ready, Unlinking
<1>1. /\ CallOK /\ PastOK /\ StoreOK /\ h \in Files /\ file = NoHandle /\ file \in Handles
      /\ Value = SeenDir /\ SeenDir \in [Files -> Entry] /\ entry \in Entry
      /\ CursorInv /\ EntryInv /\ RemovalInv /\ {"erase", "free"} \subseteq Places
      /\ gone \in Files \cup {NoName} /\ AmountInv /\ call.left = 0
      /\ Linked(SeenFat) /\ Entries(SeenFat, Held, NoName) /\ SeenFat \in Fats
  BY <1>0, TypesAre, CallIs, ReadIs
     DEF Good, SoundInv, TypeInv, WorkInv, PastOK, SeenChains, Places
<1>2. StoreOK' /\ CardKept /\ SeenKept /\ (cache.state = "dirty" => cache' = cache)
  BY <1>0, ReadsKeep
<1>3. CASE UNCHANGED start /\ (call' = NoCall \/ Go("erase"))
  <2>1. /\ CallOK' /\ call'.at \in {"idle", "erase"} /\ call'.left = 0
        /\ \/ call' = NoCall /\ call'.op = "none" /\ call'.at = "idle"
           \/ call'.at = "erase" /\ Same(call')
    <3>1. CASE call' = NoCall
      BY <3>1, NoCallIs, CallOver
    <3>2. CASE Go("erase")
      BY <1>1, <3>2, GoesTo DEF Go
    <3> QED
      BY <1>3, <3>1, <3>2
  <2>2. TypeInv'
    BY <1>0, <1>1, <1>2, <1>3, <2>1 DEF TypeInv, PastOK, past
  <2>3. WorkInv'
    BY <1>0, <1>1, <2>1 DEF WorkInv, Same
  <2>4. AmountInv'
    BY <1>0, <1>1, <1>2, <2>1, AmountsKept DEF AmountInv, past
  <2>5. CardChains' /\ SeenChains' /\ EntryInv' /\ RemovalInv'
    <3>1. ~Unlinking' /\ gone' = gone
      BY <1>0, <2>1 DEF Unlinking, past
    <3> QED
      BY <1>0, <1>2, <3>1, StepOn DEF Good
  <2>6. CursorInv'
    BY <1>0, <1>1, <2>1, NoHandleIs, CursorNone
  <2>7. SeekInv' /\ NewClusterInv' /\ FreedInv' /\ MadeInv'
    BY <2>1, NothingElse
  <2> QED
    BY <2>2, <2>3, <2>4, <2>5, <2>6, <2>7 DEF Good, SoundInv
<1>4. CASE entry.size # 0 /\ start' = 2 /\ call' = [call EXCEPT !.at = "free", !.c = x]
  <2>1. \A f \in Files : Held[f] = SeenDir[f]
    BY <1>1, NoHandleIs, NoNameIsNone DEF Held
  <2>2. x \in Clusters /\ x # 0 /\ x \in Nat
    <3>1. entry.size > 0 /\ entry.size \in Nat
      BY <1>1, <1>4, TypesAre DEF Good
    <3>2. Index(entry.size) \in Nat
      BY <3>1, IndexType
    <3>3. Stored(SeenFat, x, entry.size)
      BY <1>1, <2>1, NoNameIsNone DEF Entries
    <3>4. PICK c \in Clusters : Leads(SeenFat, x, Index(entry.size), c)
      BY <3>1, <3>3 DEF Stored
    <3> QED
      BY <1>1, <3>2, <3>4, LeadsTo, Marks DEF Free
  <2>3. Heads(SeenFat, x) /\ \A f \in Files \ {h} : SeenDir[f].first # x
    BY <1>1, <2>1, <2>2, NoNameIsNone DEF Entries
  <2>4. /\ CallOK' /\ Same(call') /\ call'.at = "free" /\ call'.c = x /\ call'.left = call.left
    <3> HIDE DEF x
    <3> QED
      BY <1>1, <1>4, <2>2, GoesFreeing
  <2>5. start' \in 2 .. LastCluster + 1
    BY <1>4, Geometry
  <2>6. TypeInv'
    BY <1>0, <1>1, <1>2, <2>4, <2>5 DEF TypeInv, PastOK, past
  <2>7. WorkInv'
    BY <1>0, <1>1, <2>2, <2>4, NoCallIs DEF WorkInv, Same
  <2>8. AmountInv'
    BY <1>0, <1>1, <1>2, <2>4, AmountsKept DEF AmountInv, past
  <2>9. CardChains'
    BY <1>0, <1>2 DEF Good, SoundInv, CardChains, CardKept, past
  <2>10. SeenChains'
    <3>1. Held' = Held
      BY <1>0, <1>2 DEF Held, SeenKept
    <3>2. Entries(SeenFat, Held, gone)
      BY <1>1, EntriesLess
    <3> QED
      BY <1>0, <1>1, <1>2, <3>1, <3>2, EntriesLess DEF SeenChains, SeenKept, past
  <2>11. EntryInv'
    BY <1>0, <1>1, NoHandleIs DEF EntryInv
  <2>12. RemovalInv'
    <3> SUFFICES ASSUME gone # NoName
                 PROVE  /\ cache'.block = Dir /\ cache'.state = "dirty"
                        /\ SeenDir[gone].first = 0 /\ SeenDir[gone].size = 0
                        /\ gone # h
      BY <1>0, <1>1, <1>2, <2>4, NoHandleIs DEF RemovalInv, SeenKept, past, Same
    <3> QED
      BY <1>0, <1>1, <1>2, <1>4 DEF RemovalInv
  <2>13. FreedInv'
    BY <1>1, <1>2, <2>3, <2>4 DEF FreedInv, SeenKept, Same
  <2>14. CursorInv'
    BY <1>0, <1>1, <2>4, NoHandleIs, CursorNone
  <2>15. SeekInv' /\ NewClusterInv' /\ MadeInv'
    BY <2>4 DEF SeekInv, NewClusterInv, MadeInv
  <2> QED
    BY <2>6, <2>7, <2>8, <2>9, <2>10, <2>11, <2>12, <2>13, <2>14, <2>15 DEF Good, SoundInv
<1> QED
  BY <1>0, <1>1, <1>3, <1>4

LEMMA FreeClusterKeeps ==
  ASSUME Good, FreeCluster
  PROVE  Good'
<1> DEFINE F == SeenFat
           G == SeenFat'
           x == call.c
           h == call.name
<1>0. /\ call.at = "free" /\ ~MustFlush /\ card' = card /\ call # NoCall
      /\ UNCHANGED <<start, file, printed, ahead, broken, faults, losses>>
      /\ Put([Value EXCEPT ![x] = Free]) /\ gone' = h
      /\ \/ Value[x] = EOC /\ call' = [call EXCEPT !.at = "clear"]
         \/ Value[x] # EOC /\ call' = [call EXCEPT !.c = Value[x]]
  BY NoCallIs DEF FreeCluster, Ready, Go
<1>1. /\ CallOK /\ PastOK /\ StoreOK /\ h \in Files /\ h # NoName /\ file = NoHandle
      /\ file \in Handles /\ F \in Fats /\ Wanted = Fat(x) /\ x \in Clusters /\ Free \in FatValues
      /\ "clear" \in Places /\ AmountInv /\ Linked(F) /\ Entries(F, Held, gone)
      /\ Heads(F, x) /\ \A f \in Files \ {h} : SeenDir[f].first # x
  BY <1>0, TypesAre, CallIs, WantedIs, NoNameIsNone
     DEF Good, SoundInv, TypeInv, WorkInv, SeenChains, Places, FreedInv, FatValues, Unlinking
<1>2. /\ StoreOK' /\ CardKept /\ G = Marked(F, x, Free) /\ SeenDir' = SeenDir
      /\ cache'.block # Dir /\ F[x] = Value[x]
  BY <1>0, <1>1, FatPut
<1>3. gone \in {NoName, h}
  BY <1>0, OnlyOneGone
<1>4. \A f \in Files : Held[f] = SeenDir[f] /\ Held'[f] = SeenDir[f]
  BY <1>0, <1>1, <1>2, NoHandleIs, NoNameIsNone DEF Held
<1>5. Held' = Held /\ \A f \in Files : Held[f].size \in Nat
  BY <1>0, <1>2, HeldType DEF Held, Good
<1> HIDE DEF F, G, x, h
<1>6. /\ G \in Fats /\ Linked(G) /\ \A r : Heads(F, r) /\ r # x => Heads(G, r)
      /\ \A d \in Clusters : d # x => G[d] = F[d]
      /\ F[x] # EOC => /\ F[x] \in Clusters /\ Heads(G, F[x])
                       /\ \A r : Heads(F, r) => r # F[x]
  BY <1>1, <1>2, FreeKeeps
<1>7. Entries(F, Held, h)
  BY <1>1, <1>3, EntriesLess
<1>8. Entries(G, Held, h)
  <2>1. \A f \in Files \ {h} : Held[f].first # x
    BY <1>1, <1>4
  <2>2. \A f \in Files \ {h} : Held[f].first # 0 => Heads(G, Held[f].first)
    BY <1>6, <1>7, <2>1 DEF Entries
  <2>3. ASSUME NEW f \in Files \ {h}, NEW n \in Nat, NEW c \in Clusters,
               Leads(F, Held[f].first, n, c)
        PROVE  Leads(G, Held[f].first, n, c)
    BY <1>1, <1>6, <2>1, <2>3, LeadsPast
  <2> QED
    BY <1>1, <1>5, <1>6, <1>7, <2>2, <2>3, EntriesKept
<1>9. /\ CallOK' /\ Same(call') /\ call'.left = call.left /\ call'.at \in {"free", "clear"}
      /\ call'.at = "free" => F[x] # EOC /\ call'.c = F[x]
  <2>1. CASE Value[x] = EOC /\ call' = [call EXCEPT !.at = "clear"]
    BY <1>1, <2>1, GoesTo
  <2>2. CASE Value[x] # EOC /\ call' = [call EXCEPT !.c = Value[x]]
    <3>1. PICK y : y = Value[x]
      OBVIOUS
    <3>2. y \in Nat /\ call' = [call EXCEPT !.c = y]
      BY <1>2, <1>6, <2>2, <3>1, Marks
    <3> QED
      BY <1>0, <1>1, <1>2, <2>2, <3>1, <3>2, GoesAlong
  <2> QED
    BY <1>0, <2>1, <2>2 DEF x
<1>10. TypeInv'
  BY <1>0, <1>1, <1>2, <1>9 DEF TypeInv, PastOK
<1>11. WorkInv'
  BY <1>0, <1>1, <1>6, <1>9, NoCallIs DEF WorkInv, Same, Good, h
<1>12. AmountInv'
  BY <1>0, <1>1, <1>2, <1>9 DEF AmountInv, CardKept
<1>13. CardChains'
  <2>1. Entries(CardFat, CardDir, h) /\ Linked(CardFat)
    BY <1>3, EntriesLess DEF Good, SoundInv, CardChains
  <2> QED
    BY <1>0, <1>2, <2>1 DEF CardChains, CardKept, h
<1>14. Unlinking' /\ gone' = h
  BY <1>0, <1>9 DEF Unlinking, h
<1>15. SeenChains'
  BY <1>5, <1>6, <1>8, <1>14 DEF SeenChains, G
<1>16. EntryInv'
  BY <1>0, <1>1, NoHandleIs DEF EntryInv
<1>17. RemovalInv'
  BY <1>2, <1>9, <1>14 DEF RemovalInv, Same, h
<1>18. FreedInv'
  <2> SUFFICES ASSUME call'.at = "free"
               PROVE  Heads(G, F[x]) /\ \A f \in Files \ {h} : SeenDir[f].first # F[x]
    BY <1>2, <1>9, <1>14 DEF FreedInv, Same, G, h
  <2>1. F[x] # EOC /\ F[x] \in Clusters /\ F[x] # 0
    BY <1>6, <1>9, Marks DEF Free
  <2>2. \A f \in Files \ {h} : SeenDir[f].first # 0 => Heads(F, SeenDir[f].first)
    BY <1>4, <1>7 DEF Entries
  <2> QED
    BY <1>6, <2>1, <2>2
<1>19. CursorInv'
  BY <1>0, <1>1, <1>9, NoHandleIs, CursorNone
<1>20. SeekInv' /\ NewClusterInv' /\ MadeInv'
  BY <1>9 DEF SeekInv, NewClusterInv, MadeInv
<1> QED
  BY <1>10, <1>11, <1>12, <1>13, <1>15, <1>16, <1>17, <1>18, <1>19, <1>20 DEF Good, SoundInv
-----------------------------------------------------------------------------
(* What the cache writes to the card.                                       *)
LEMMA FlushBlockKeeps ==
  ASSUME Good, FlushBlock
  PROVE  Good'
<1> DEFINE x == IF Unlinking THEN gone ELSE NoName
<1>0. /\ cache.state = "dirty" /\ gone' = (IF cache.block = Dir THEN NoName ELSE gone)
      /\ UNCHANGED <<start, file, call, printed, ahead, broken, faults, losses>>
  BY DEF FlushBlock
<1>1. /\ CallOK /\ PastOK /\ StoreOK /\ file \in Handles /\ AmountInv /\ RemovalInv
      /\ EntryInv /\ Linked(SeenFat) /\ Entries(SeenFat, Held, x)
      /\ gone \in Files \cup {NoName} /\ WorkInv
  BY DEF Good, SoundInv, TypeInv, SeenChains, PastOK
<1>2. /\ StoreOK' /\ SeenKept /\ CardFat' = SeenFat /\ CardDir' = SeenDir
      /\ cache'.block = cache.block /\ cache'.state # "dirty"
  BY <1>1, FlushSaves
<1>3. CASE cache.block = Dir
  <2>1. x \notin Files \/ (x = gone /\ SeenDir[gone].first = 0 /\ SeenDir[gone].size = 0
                           /\ (file.name = gone => file.first = 0 /\ file.size = 0)
                           /\ x \in Files)
    BY <1>0, <1>1, <1>3, NoNameIsNone DEF RemovalInv, Unlinking
  <2>2. x \notin Files \/ (Held[x].first = 0 /\ Held[x].size = 0)
    BY <2>1, HeldIs
  <2> HIDE DEF x
  <2>3. Entries(SeenFat, Held, NoName)
    BY <1>1, <2>2, EntriesAll
  <2>4. Entries(SeenFat, SeenDir, NoName)
    BY <1>1, <2>3, SeenEntries DEF Good
  <2>5. gone' = NoName
    BY <1>0, <1>3
  <2>6. CardChains'
    BY <1>1, <1>2, <2>4, <2>5 DEF CardChains
  <2>7. Held' = Held
    BY <1>0, <1>2 DEF Held, SeenKept
  <2>8. SeenChains'
    BY <1>0, <1>1, <1>2, <2>3, <2>5, <2>7 DEF SeenChains, SeenKept
  <2>9. RemovalInv'
    BY <2>5 DEF RemovalInv
  <2>10. FreedInv'
    <3>1. call.at = "free" => gone # call.name
      <4>1. call.at = "free" => call.name \in Files
        BY <1>1 DEF WorkInv
      <4> QED
        BY <1>0, <1>1, <1>3, <4>1, NoNameIsNone DEF RemovalInv
    <3> QED
      BY <1>0, <1>2, <3>1 DEF Good, SoundInv, FreedInv, SeenKept
  <2> QED
    BY <1>0, <1>1, <1>2, <2>6, <2>8, <2>9, <2>10, <2>5
       DEF Good, SoundInv, TypeInv, PastOK, CallOK, WorkInv, AmountInv, SeenKept, EntryInv,
           CursorInv, FarEnough, SeekInv, Seeking, NewClusterInv, Held, MadeInv
<1>4. CASE cache.block # Dir
  <2>1. gone' = gone
    BY <1>0, <1>4
  <2>2. Entries(SeenFat, SeenDir, x)
    BY <1>1, SeenEntries DEF Good
  <2>3. Entries(SeenFat, SeenDir, gone)
    BY <2>2, EntriesLess
  <2>4. CardChains'
    BY <1>1, <1>2, <2>1, <2>3 DEF CardChains
  <2>5. Held' = Held
    BY <1>0, <1>2 DEF Held, SeenKept
  <2>6. SeenChains'
    BY <1>0, <1>1, <1>2, <2>1, <2>5 DEF SeenChains, SeenKept, Unlinking
  <2>7. RemovalInv'
    BY <1>0, <1>1, <1>2, <1>4, <2>1 DEF RemovalInv, Unlinking
  <2>8. FreedInv'
    BY <1>0, <1>2, <2>1 DEF Good, SoundInv, FreedInv, SeenKept
  <2> QED
    BY <1>0, <1>1, <1>2, <2>1, <2>4, <2>6, <2>7, <2>8
       DEF Good, SoundInv, TypeInv, PastOK, CallOK, WorkInv, AmountInv, SeenKept, EntryInv,
           CursorInv, FarEnough, SeekInv, Seeking, NewClusterInv, Held, MadeInv
<1> QED
  BY <1>3, <1>4
LEMMA FlushMirrorKeeps ==
  ASSUME TypeInv, WorkInv, AmountInv, FlushMirror
  PROVE  /\ TypeInv' /\ WorkInv' /\ AmountInv'
         /\ SoundInv => SoundInv'
<1>0. UNCHANGED <<start, file, call, past>>
  BY DEF FlushMirror
<1>1. /\ StoreOK' /\ SeenKept /\ CardKept /\ cache'.block = cache.block
      /\ cache'.state = "clean" /\ cache.state = "mirror"
  BY MirrorSaves DEF TypeInv
<1>2. TypeInv'
  BY <1>0, <1>1 DEF TypeInv, PastOK, CallOK, past
<1>3. WorkInv' /\ AmountInv'
  BY <1>0, <1>1 DEF WorkInv, AmountInv, CardKept, SeenKept, past
<1>4. Held' = Held
  BY <1>0, <1>1 DEF Held, SeenKept
<1>5. ASSUME SoundInv PROVE SoundInv'
  <2>1. CardChains' /\ SeenChains'
    BY <1>0, <1>1, <1>4, <1>5
       DEF SoundInv, CardChains, SeenChains, CardKept, SeenKept, past, Unlinking
  <2>2. EntryInv' /\ RemovalInv'
    BY <1>0, <1>1, <1>5 DEF SoundInv, EntryInv, RemovalInv, SeenKept, past, Unlinking
  <2>3. CursorInv' /\ SeekInv' /\ NewClusterInv' /\ FreedInv' /\ MadeInv'
    BY <1>0, <1>1, <1>4, <1>5
       DEF SoundInv, CursorInv, FarEnough, SeekInv, Seeking, NewClusterInv, FreedInv, MadeInv,
           SeenKept, past
  <2> QED
    BY <2>1, <2>2, <2>3 DEF SoundInv
<1> QED
  BY <1>2, <1>3, <1>5
-----------------------------------------------------------------------------
(* The calls the sketches make.                                             *)
LEMMA BeginsKeep ==
  ASSUME Good, call = NoCall, UNCHANGED <<card, cache, start, file, ahead, gone, faults, losses>>,
         NEW op \in {"open", "print", "close", "remove"}, NEW at \in {"lookup", "begin", "entry",
         "flush"}, NEW name \in Files \cup {NoName}, NEW out \in Seq(Units), NEW k \in Nat,
         k = Len(out), op # "print" => k = 0, CallOK', call'.op = op, call'.at = at,
         call'.name = name, call'.left = k, call' # NoCall,
         at \in {"begin", "entry"} => file # NoHandle,
         at = "lookup" => file = NoHandle /\ name \in Files,
         op \in {"open", "remove"} => name \in Files, op = "open" => at = "lookup",
         printed' = printed + k, printed' \in Units, broken' \in BOOLEAN
  PROVE  Good'
<1>1. /\ PastOK /\ StoreOK /\ file \in Handles /\ AmountInv /\ WorkInv /\ CursorInv
      /\ ~Unlinking /\ printed \in Nat /\ call.left = 0
      /\ file.size \in Nat /\ file.pos \in Nat
      /\ \A f \in Files : SeenDir[f].size \in Nat /\ CardDir[f].size \in Nat
  BY TypesAre, NoCallIs DEF Good, SoundInv, TypeInv, Unlinking, PastOK
<1>2. StoreOK' /\ CardKept /\ SeenKept
  BY <1>1, NothingMoves
<1>3. TypeInv'
  BY <1>1, <1>2 DEF TypeInv, PastOK
<1>4. WorkInv'
  BY <1>1 DEF WorkInv
<1>5. AmountInv'
  <2>1. file.size + k <= printed + k /\ file.pos + k <= printed + k
    BY <1>1 DEF AmountInv
  <2>2. \A f \in Files : SeenDir[f].size <= printed + k /\ CardDir[f].size <= printed + k
    BY <1>1 DEF AmountInv
  <2> QED
    BY <1>2, <2>1, <2>2 DEF AmountInv, CardKept, SeenKept
<1>6. CardChains' /\ SeenChains' /\ EntryInv' /\ RemovalInv'
  <2>1. ~Unlinking'
    BY DEF Unlinking
  <2> QED
    BY <1>1, <1>2, <2>1, StepOn DEF Good
<1>7. CursorInv'
  BY <1>1, <1>2, CursorRests DEF SeenKept
<1>8. SeekInv' /\ NewClusterInv' /\ FreedInv' /\ MadeInv'
  BY NothingElse
<1> QED
  BY <1>3, <1>4, <1>5, <1>6, <1>7, <1>8 DEF Good, SoundInv

LEMMA NoUnits == <<>> \in Seq(Units) /\ Len(<<>>) = 0
  OBVIOUS

LEMMA OpenKeeps ==
  ASSUME Good, NEW f \in Files, Open(f) \/ Remove(f)
  PROVE  Good' /\ call' # NoCall
<1>1. PICK op \in {"open", "remove"} : call' = Begun(op, "lookup", f, <<>>, 0)
  BY DEF Open, Remove, NoCall, Begun
<1>2. /\ call = NoCall /\ file = NoHandle /\ UNCHANGED <<card, cache, start, file, past>>
      /\ "lookup" \in Places
  BY DEF Open, Remove, Places
<1>4. /\ CallOK' /\ call'.op = op /\ call'.at = "lookup" /\ call'.name = f
      /\ call'.left = 0 /\ call'.out = <<>> /\ call' # NoCall
  BY <1>1, <1>2, NoUnits, CallBegins
<1>5. printed' = printed + 0 /\ printed' \in Units /\ broken' \in BOOLEAN
  BY <1>2, Geometry DEF Good, TypeInv, PastOK, past, Units
<1> QED
  BY <1>2, <1>4, <1>5, NoUnits, BeginsKeep DEF past

LEMMA WriteKeeps ==
  ASSUME Good, NEW k \in 1 .. MaxPrint, Write(k)
  PROVE  Good' /\ call' # NoCall
<1> DEFINE out == [i \in 1 .. k |-> printed + i]
<1>1. /\ call = NoCall /\ file # NoHandle
      /\ UNCHANGED <<card, cache, start, file, ahead, gone, faults, losses>>
      /\ printed + k <= MaxUnits /\ printed' = printed + k /\ broken' = ahead
      /\ call' = Begun("print", "begin", NoName, out, k) /\ "begin" \in Places
  BY DEF Write, Places, NoCall, Begun
<1>2. k \in Nat /\ printed \in Nat /\ printed \in Units /\ MaxUnits \in Nat /\ ahead \in BOOLEAN
  BY Geometry, TypesAre DEF Good, TypeInv, PastOK
<1>3. out \in Seq(Units) /\ Len(out) = k
  <2>1. \A i \in 1 .. k : printed + i \in Units
    BY <1>1, <1>2 DEF Units
  <2>2. out \in [1 .. k -> Units]
    BY <2>1
  <2> QED
    BY <1>2, <2>2
<1> HIDE DEF out
<1>5. /\ CallOK' /\ call'.op = "print" /\ call'.at = "begin" /\ call'.name = NoName
      /\ call'.left = k /\ call'.out = out /\ call' # NoCall
  BY <1>1, <1>2, <1>3, CallBegins
<1>6. printed' \in Units
  BY <1>1, <1>2 DEF Units
<1> QED
  BY <1>1, <1>2, <1>3, <1>5, <1>6, BeginsKeep

LEMMA CloseKeeps ==
  ASSUME Good, Close
  PROVE  Good' /\ call' # NoCall
<1>1. PICK at \in {"entry", "flush"} : call' = Begun("close", at, NoName, <<>>, 0)
  BY DEF Close, NoCall, Begun
<1>2. /\ call = NoCall /\ file # NoHandle /\ UNCHANGED <<card, cache, start, file, past>>
      /\ at \in Places
  BY DEF Close, Places
<1>4. /\ CallOK' /\ call'.op = "close" /\ call'.at = at /\ call'.name = NoName
      /\ call'.left = 0 /\ call'.out = <<>> /\ call' # NoCall
  BY <1>1, <1>2, NoUnits, CallBegins
<1>5. printed' = printed + 0 /\ printed' \in Units /\ broken' \in BOOLEAN
  BY <1>2, Geometry DEF Good, TypeInv, PastOK, past, Units
<1> QED
  BY <1>2, <1>4, <1>5, NoUnits, BeginsKeep DEF past
-----------------------------------------------------------------------------
(* An access that fails, and the loss of power.                             *)
Based == TypeInv /\ WorkInv /\ AmountInv

LEMMA FailureKeeps ==
  ASSUME StoreOK, card' = card,
         cache' = [cache EXCEPT !.state = IF cache.state = "mirror" THEN "dirty" ELSE @]
  PROVE  /\ StoreOK' /\ CardKept /\ SeenKept
         /\ cache.state = "dirty" => cache' = cache
<1>1. PICK s \in {"clean", "dirty", "mirror"} :
        /\ s = IF cache.state = "mirror" THEN "dirty" ELSE cache.state
        /\ cache' = [cache EXCEPT !.state = s]
  BY DEF StoreOK, CacheOK
<1>2. /\ CacheShape(cache') /\ cache'.block = cache.block /\ cache'.value = cache.value
      /\ cache'.state = s
  BY <1>1 DEF StoreOK, CacheOK, CacheShape
<1>3. Seen' = Seen
  BY <1>2 DEF Seen
<1>4. CacheOK'
  BY <1>1, <1>2, BlocksApart DEF StoreOK, CacheOK, CacheInv
<1>5. cache.state = "dirty" => cache' = cache
  BY <1>1, <1>2 DEF StoreOK, CacheOK, CacheShape
<1> QED
  BY <1>3, <1>4, <1>5, CardKeeps, SeenKeeps DEF StoreOK, CardOK, Typed

LEMMA CardFailsKeeps ==
  ASSUME Good, CardFails
  PROVE  Based' /\ call' = NoCall /\ (~broken' => SoundInv')
<1>0. /\ card' = card /\ UNCHANGED <<start, printed, gone, losses>> /\ faults' = faults + 1
      /\ faults + losses < MaxTroubles /\ call' = NoCall
      /\ cache' = [cache EXCEPT !.state = IF cache.state = "mirror" THEN "dirty" ELSE @]
      /\ file' = IF call.op = "close" THEN NoHandle ELSE file
      /\ ahead' \in BOOLEAN /\ broken' \in BOOLEAN
      /\ ~broken' => ~(gone # NoName /\ Unlinking)
  BY DEF CardFails, Unlinking
<1>1. /\ PastOK /\ StoreOK /\ file \in Handles /\ AmountInv /\ WorkInv /\ CursorInv
      /\ CallOK /\ call.left \in Nat /\ printed \in Nat /\ EntryInv /\ RemovalInv
      /\ file.size \in Nat /\ file.pos \in Nat /\ Linked(SeenFat)
      /\ faults \in Nat /\ losses \in Nat /\ MaxTroubles \in Nat
      /\ gone \in Files \cup {NoName}
  BY TypesAre, CallIs, Geometry DEF Good, SoundInv, TypeInv, SeenChains, PastOK
<1>2. StoreOK' /\ CardKept /\ SeenKept /\ (cache.state = "dirty" => cache' = cache)
  BY <1>0, <1>1, FailureKeeps
<1>3. CallOK' /\ call'.at = "idle" /\ call'.op = "none" /\ call'.left = 0 /\ ~Unlinking'
  BY <1>0, NoCallIs, CallOver DEF Unlinking
<1>4. /\ file' \in Handles /\ (file' = NoHandle \/ file'.name # NoName)
      /\ file'.size <= printed /\ file'.pos <= printed
      /\ \/ file' = file
         \/ /\ file'.name = NoName /\ file'.size = 0 /\ file'.cur = 0 /\ file'.pos = 0
  <2>1. CASE call.op = "close"
    BY <1>0, <1>1, <2>1, NoHandleIs
  <2>2. CASE call.op # "close"
    <3>1. file.size <= printed /\ file.pos <= printed
      BY <1>1 DEF AmountInv
    <3> QED
      BY <1>0, <1>1, <2>2, <3>1 DEF WorkInv
  <2> QED
    BY <2>1, <2>2
<1>5. TypeInv'
  <2>1. faults' + losses <= MaxTroubles /\ faults' \in Nat
    BY <1>0, <1>1
  <2> QED
    BY <1>0, <1>1, <1>2, <1>3, <1>4, <2>1 DEF TypeInv, PastOK
<1>6. WorkInv'
  BY <1>0, <1>3, <1>4 DEF WorkInv
<1>7. AmountInv'
  <2>1. file'.size + call'.left <= printed /\ file'.pos + call'.left <= printed
    BY <1>1, <1>3, <1>4, TypesAre
  <2> QED
    BY <1>0, <1>1, <1>2, <2>1, AmountsKept
<1>8. ASSUME ~broken' PROVE SoundInv'
  <2>1. Entries(SeenFat, Held, NoName)
    <3>1. Entries(SeenFat, Held, IF Unlinking THEN gone ELSE NoName)
      BY DEF Good, SoundInv, SeenChains
    <3> QED
      BY <1>0, <1>8, <3>1
  <2>2. CardChains'
    BY <1>0, <1>2 DEF Good, SoundInv, CardChains, CardKept
  <2>3. SeenChains' /\ EntryInv'
    <3>1. CASE file' = file
      <4>1. Held' = Held
        BY <1>2, <3>1 DEF Held, SeenKept
      <4> QED
        BY <1>1, <1>2, <1>3, <2>1, <3>1, <4>1 DEF SeenChains, EntryInv, SeenKept
    <3>2. CASE file'.name = NoName /\ file'.size = 0
      <4>1. file'.name \notin Files
        BY <3>2, NoNameIsNone
      <4> QED
        BY <1>1, <1>2, <1>3, <2>1, <3>2, <4>1, HandleAnew DEF Good
    <3> QED
      BY <1>4, <3>1, <3>2
  <2>4. RemovalInv'
    <3> SUFFICES ASSUME gone # NoName
                 PROVE  /\ cache'.block = Dir /\ cache'.state = "dirty"
                        /\ SeenDir[gone].first = 0 /\ SeenDir[gone].size = 0
                        /\ file'.name = gone => file'.first = 0 /\ file'.size = 0
      BY <1>0, <1>2, <1>3 DEF RemovalInv, SeenKept
    <3>1. ~Unlinking
      BY <1>0, <1>8
    <3> QED
      BY <1>1, <1>2, <1>4, <3>1 DEF RemovalInv
  <2>5. CursorInv'
    <3>1. SeenFat' = SeenFat
      BY <1>2 DEF SeenKept
    <3>2. CASE file' = file
      BY <1>1, <1>3, <3>1, <3>2, CursorRests
    <3>3. CASE file'.cur = 0 /\ file'.pos = 0
      BY <1>3, <3>3, CursorNone
    <3> QED
      BY <1>4, <3>2, <3>3
  <2>6. SeekInv' /\ NewClusterInv' /\ FreedInv' /\ MadeInv'
    BY <1>3, NothingElse
  <2> QED
    BY <2>2, <2>3, <2>4, <2>5, <2>6 DEF SoundInv
<1> QED
  BY <1>0, <1>5, <1>6, <1>7, <1>8 DEF Based

LEMMA PowerFailsKeeps ==
  ASSUME Based, PowerFails
  PROVE  /\ Based' /\ call' = NoCall
         /\ SoundInv /\ ~broken' => SoundInv'
<1>0. /\ card' = card /\ UNCHANGED <<printed, gone, faults>> /\ losses' = losses + 1
      /\ faults + losses < MaxTroubles /\ call' = NoCall /\ cache' = Unused /\ start' = 2
      /\ file' = NoHandle /\ ahead' = FALSE /\ broken' = (broken \/ gone # NoName)
  BY DEF PowerFails
<1>1. /\ PastOK /\ StoreOK /\ AmountInv /\ printed \in Nat
      /\ faults \in Nat /\ losses \in Nat /\ MaxTroubles \in Nat
  BY TypesAre, Geometry DEF Based, TypeInv, PastOK
<1>2. /\ StoreOK' /\ CardKept /\ SeenFat' = CardFat /\ SeenDir' = CardDir
  <2>1. cache' = [block |-> BootSector, value |-> <<>>, state |-> "clean"]
    BY <1>0 DEF Unused
  <2>2. CacheOK'
    BY <2>1 DEF CacheOK, CacheShape, CacheInv
  <2>3. Seen' = card
    BY <1>0, <2>1 DEF Seen
  <2> QED
    BY <1>0, <1>1, <2>2, <2>3, CardKeeps
       DEF StoreOK, CardOK, Typed, SeenFat, SeenDir, CardFat, CardDir, FatEntry
<1>3. CallOK' /\ call'.at = "idle" /\ call'.op = "none" /\ call'.left = 0 /\ ~Unlinking'
  BY <1>0, NoCallIs, CallOver DEF Unlinking
<1>4. TypeInv'
  <2>1. losses' \in Nat /\ faults + losses' <= MaxTroubles /\ start' \in 2 .. LastCluster + 1
    BY <1>0, <1>1, Geometry
  <2>2. broken' \in BOOLEAN /\ ahead' \in BOOLEAN
    BY <1>0
  <2> QED
    BY <1>0, <1>1, <1>2, <1>3, <2>1, <2>2, NoHandleIs DEF TypeInv, PastOK
<1>5. WorkInv'
  BY <1>0, <1>3 DEF WorkInv
<1>6. AmountInv'
  BY <1>0, <1>1, <1>2, <1>3, NoHandleIs DEF AmountInv, CardKept
<1>7. ASSUME SoundInv, ~broken' PROVE SoundInv'
  <2>1. gone = NoName /\ Linked(CardFat) /\ Entries(CardFat, CardDir, NoName)
    BY <1>0, <1>7 DEF SoundInv, CardChains
  <2>2. CardChains' /\ RemovalInv'
    BY <1>0, <1>2, <2>1 DEF CardChains, CardKept, RemovalInv
  <2>3. \A f \in Files \ {NoName} :
          Held'[f].first = CardDir[f].first /\ Held'[f].size = CardDir[f].size
    BY <1>0, <1>2, NoHandleIs, NoNameIsNone DEF Held
  <2>4. Entries(CardFat, Held', NoName)
    BY <2>1, <2>3, EntriesSame
  <2>5. SeenChains'
    BY <1>2, <1>3, <2>1, <2>4 DEF SeenChains
  <2>6. EntryInv'
    BY <1>0, NoHandleIs DEF EntryInv
  <2>7. CursorInv'
    BY <1>0, <1>3, NoHandleIs, CursorNone
  <2>8. SeekInv' /\ NewClusterInv' /\ FreedInv' /\ MadeInv'
    BY <1>3, NothingElse
  <2> QED
    BY <2>2, <2>5, <2>6, <2>7, <2>8 DEF SoundInv
<1> QED
  BY <1>0, <1>4, <1>5, <1>6, <1>7 DEF Based
-----------------------------------------------------------------------------
(* Every step of the library and every call of the sketches.                *)
LEMMA InitFat == Init => FatInv
<1> SUFFICES ASSUME Init PROVE FatInv
  OBVIOUS
<1>0. /\ card = [b \in Blocks |-> Blank(b)] /\ cache = Unused /\ start = 2
      /\ file = NoHandle /\ call = NoCall /\ printed = 0 /\ ahead = FALSE
      /\ gone = NoName /\ broken = FALSE /\ faults = 0 /\ losses = 0
  BY DEF Init, Blocks
<1>1. Blank(Dir) = [f \in Files |-> Absent]
  <2>1. Dir \notin DataBlocks
    BY BlocksApart DEF DataBlocks
  <2> QED
    BY <2>1 DEF Blank
<1>2. \A c \in Clusters : Blank(Fat(c)) = [d \in InFat(c) |-> Free]
  <2> TAKE c \in Clusters
  <2>1. Fat(c) # Dir /\ Fat(c) \notin DataBlocks
    BY BlocksApart DEF DataBlocks
  <2>2. Fat(c)[2] = FatIndex(c)
    BY DEF Fat
  <2> QED
    BY <2>1, <2>2 DEF Blank, InFat
<1>3. card[Dir] = [f \in Files |-> Absent]
      /\ \A c \in Clusters : card[Fat(c)] = [d \in InFat(c) |-> Free]
  BY <1>0, <1>1, <1>2, BlocksApart
<1>4. Seen = card
  BY <1>0 DEF Seen, Unused
<1>5. /\ \A f \in Files : CardDir[f] = Absent /\ SeenDir[f] = Absent
      /\ \A c \in Clusters : CardFat[c] = Free /\ SeenFat[c] = Free
  <2>1. \A c \in Clusters : c \in InFat(c)
    BY DEF InFat
  <2> QED
    BY <1>3, <1>4, <2>1 DEF CardDir, SeenDir, CardFat, SeenFat, FatEntry
<1>6. Typed(card)
  BY <1>3, EmptyIs DEF Typed, FatValues
<1>7. StoreOK
  <2>1. cache = [block |-> BootSector, value |-> <<>>, state |-> "clean"]
    BY <1>0 DEF Unused
  <2>2. CacheOK
    BY <2>1 DEF CacheOK, CacheShape, CacheInv
  <2>3. CardOK
    BY <1>0 DEF CardOK
  <2> QED
    BY <1>4, <1>6, <2>2, <2>3 DEF StoreOK
<1>8. CallOK /\ call.at = "idle" /\ call.op = "none" /\ call.left = 0
  BY <1>0, NoCallIs DEF CallOK
<1>9. TypeInv
  <2>1. PastOK
    <3>1. 0 \in Units /\ 2 \in 2 .. LastCluster + 1 /\ faults + losses = 0
      BY <1>0, Geometry DEF Units
    <3>2. faults + losses <= MaxTroubles
      BY <3>1, Geometry
    <3> QED
      BY <1>0, <3>1, <3>2 DEF PastOK
  <2> QED
    BY <1>0, <1>7, <1>8, <2>1, NoHandleIs DEF TypeInv
<1>10. WorkInv /\ AmountInv
  BY <1>0, <1>5, <1>8, NoHandleIs, EmptyIs DEF WorkInv, AmountInv
<1>11. \A F : \A D : (\A c \in Clusters : F[c] = Free) /\ (\A f \in Files : D[f] = Absent)
               => Linked(F) /\ Entries(F, D, NoName)
  BY Marks, EmptyIs DEF Linked, Entries, Stored
<1>12. \A f \in Files : Held[f] = Absent
  BY <1>0, <1>5, NoHandleIs, NoNameIsNone DEF Held
<1>13. CardChains
  BY <1>0, <1>5, <1>11 DEF CardChains
<1>14. SeenChains
  BY <1>0, <1>5, <1>8, <1>11, <1>12 DEF SeenChains, Unlinking
<1>15. EntryInv /\ RemovalInv /\ CursorInv
  BY <1>0, <1>8, NoHandleIs DEF EntryInv, RemovalInv, CursorInv
<1>16. SeekInv /\ NewClusterInv /\ FreedInv /\ MadeInv
  BY <1>8 DEF SeekInv, NewClusterInv, FreedInv, MadeInv
<1> QED
  BY <1>9, <1>10, <1>13, <1>14, <1>15, <1>16 DEF FatInv, ChainInv, SoundInv

(* A step of the library but for the second copy of a FAT block.            *)
LEMMA StepKeeps ==
  ASSUME Good, Step, ~FlushMirror
  PROVE  Good'
<1>1. CASE FlushBlock
  BY <1>1, FlushBlockKeeps
<1>2. CASE LookupToOpen \/ LookupToRemove
  BY <1>2, LookupToOpenKeeps, LookupToRemoveKeeps
<1>3. CASE Begin \/ SeekStep \/ SeekEnd
  BY <1>3, BeginKeeps, SeekStepKeeps, SeekEndKeeps
<1>4. CASE NextCluster \/ SearchOn \/ CardFull
  BY <1>4, NextClusterKeeps, SearchOnKeeps, CardFullKeeps
<1>5. CASE TakeCluster \/ Link \/ Store
  BY <1>5, TakeClusterKeeps, LinkIsKept, StoreIsKept
<1>6. CASE PutEntry \/ Flushed
  BY <1>6, PutEntryKeeps, FlushedKeeps
<1>7. CASE FreeCluster \/ ClearEntry \/ Cleared \/ EraseEntry
  BY <1>7, FreeClusterKeeps, ClearEntryKeeps, ClearedKeeps, EraseEntryKeeps
<1> QED
  BY <1>1, <1>2, <1>3, <1>4, <1>5, <1>6, <1>7 DEF Step

LEMMA WorksInCall == Step /\ ~FlushMirror => call # NoCall
<1> SUFFICES ASSUME call = NoCall, Step, ~FlushMirror PROVE FALSE
  OBVIOUS
<1>1. call.at = "idle"
  BY NoCallIs
<1>2. Wanted = cache.block /\ ~Flushing /\ ~Fresh
  BY <1>1 DEF Wanted, Flushing, Fresh
<1>3. ~MustFlush
  BY <1>2 DEF MustFlush
<1> QED
  BY <1>1, <1>3 DEF Step, FlushBlock, LookupToOpen, LookupToRemove, Begin, SeekStep, SeekEnd,
       NextCluster, SearchOn, CardFull, TakeCluster, Link, Store, PutEntry, Flushed,
       FreeCluster, ClearEntry, Cleared, EraseEntry, Ready

LEMMA FailsInCall == CardFails => call # NoCall
<1> SUFFICES ASSUME call = NoCall, CardFails PROVE FALSE
  OBVIOUS
<1>1. call.at = "idle"
  BY NoCallIs
<1>2. Wanted = cache.block /\ ~Flushing /\ ~Fresh
  BY <1>1 DEF Wanted, Flushing, Fresh
<1> QED
  BY <1>2 DEF CardFails, MustFlush, MustRead

LEMMA NextFat == FatInv /\ [Next]_vars => FatInv'
<1> SUFFICES ASSUME FatInv, [Next]_vars PROVE FatInv'
  OBVIOUS
<1>1. call # NoCall \/ ~broken => Good
  BY DEF FatInv, ChainInv, Sound, Good
<1>2. Based
  BY DEF FatInv, ChainInv, Based
<1>3. CASE FlushMirror
  <2>1. Sound' = Sound
    BY <1>3 DEF FlushMirror, past, Sound
  <2> QED
    BY <1>2, <1>3, <2>1, FlushMirrorKeeps DEF FatInv, ChainInv, Based
<1>4. CASE Step /\ ~FlushMirror
  BY <1>1, <1>4, WorksInCall, StepKeeps DEF FatInv, ChainInv, Good
<1>5. CASE \E f \in Files : Open(f) \/ Remove(f)
  <2>1. PICK f \in Files : Open(f) \/ Remove(f)
    BY <1>5
  <2>2. ~broken
    BY <2>1 DEF Open, Remove
  <2> QED
    BY <1>1, <2>1, <2>2, OpenKeeps DEF FatInv, ChainInv, Good
<1>6. CASE \E k \in 1 .. MaxPrint : Write(k)
  <2>1. PICK k \in 1 .. MaxPrint : Write(k)
    BY <1>6
  <2>2. ~broken
    BY <2>1 DEF Write
  <2> QED
    BY <1>1, <2>1, <2>2, WriteKeeps DEF FatInv, ChainInv, Good
<1>7. CASE Close
  <2>1. ~broken
    BY <1>7 DEF Close
  <2> QED
    BY <1>1, <1>7, <2>1, CloseKeeps DEF FatInv, ChainInv, Good
<1>8. CASE CardFails
  <2>1. Based' /\ call' = NoCall /\ (~broken' => SoundInv')
    BY <1>1, <1>8, FailsInCall, CardFailsKeeps
  <2> QED
    BY <2>1 DEF FatInv, ChainInv, Based, Sound
<1>9. CASE PowerFails
  <2>1. Based' /\ call' = NoCall /\ (SoundInv /\ ~broken' => SoundInv')
    BY <1>2, <1>9, PowerFailsKeeps
  <2>2. ~broken' => ~broken
    BY <1>9 DEF PowerFails
  <2> QED
    BY <1>1, <2>1, <2>2 DEF FatInv, ChainInv, Based, Sound, Good
<1>10. CASE UNCHANGED vars
  <2>1. UNCHANGED <<card, cache, start, file, call, printed, ahead, gone, broken, faults, losses>>
    BY <1>10 DEF vars, ram, past
  <2>2. StoreOK' /\ CardKept /\ SeenKept
    BY <1>2, <2>1, NothingMoves DEF Based, TypeInv
  <2>3. TypeInv'
    BY <1>2, <2>1, <2>2 DEF Based, TypeInv, PastOK, CallOK
  <2>4. WorkInv' /\ AmountInv' /\ Held' = Held
    BY <1>2, <2>1, <2>2 DEF Based, WorkInv, AmountInv, CardKept, SeenKept, Held
  <2>5. ASSUME SoundInv PROVE SoundInv'
    <3>1. CardChains' /\ SeenChains' /\ EntryInv' /\ RemovalInv'
      BY <2>1, <2>2, <2>4, <2>5
         DEF SoundInv, CardChains, SeenChains, CardKept, SeenKept, Unlinking, EntryInv, RemovalInv
    <3>2. CursorInv' /\ SeekInv' /\ NewClusterInv' /\ FreedInv' /\ MadeInv'
      BY <2>1, <2>2, <2>4, <2>5
         DEF SoundInv, CursorInv, FarEnough, SeekInv, Seeking, NewClusterInv, FreedInv, MadeInv,
             SeenKept
    <3> QED
      BY <3>1, <3>2 DEF SoundInv
  <2>6. Sound' = Sound
    BY <2>1 DEF Sound
  <2> QED
    BY <2>3, <2>4, <2>5, <2>6 DEF FatInv, ChainInv
<1> QED
  BY <1>3, <1>4, <1>5, <1>6, <1>7, <1>8, <1>9, <1>10 DEF Next

LEMMA FatAlways == Spec => []FatInv
<1>1. Init => FatInv
  BY InitFat
<1>2. FatInv /\ [Next]_vars => FatInv'
  BY NextFat
<1> QED
  BY <1>1, <1>2, PTL DEF Spec

(* For cards of any geometry, any files, prints and troubles: every         *)
(* variable keeps its type.  allocSearchStart_ is never more than one       *)
(* behind the last cluster; file and call never point outside the clusters, *)
(* for which the chains they follow have to hold.                           *)
THEOREM TypeCorrect == Spec => []TypeOK
<1>1. FatInv => TypeOK
  <2> SUFFICES ASSUME TypeInv PROVE TypeOK
    BY DEF FatInv
  <2>1. DOMAIN card = Blocks
    BY DEF TypeInv, StoreOK, CardOK
  <2>2. cache.block \in Blocks \cup {BootSector} /\ cache.state \in {"clean", "dirty", "mirror"}
    BY DEF TypeInv, StoreOK, CacheOK
  <2>3. /\ file.name \in Files \cup {NoName} /\ file.size \in Units /\ file.pos \in Units
        /\ {file.first, file.cur} \subseteq {Free} \cup Clusters /\ file.dirty \in BOOLEAN
    BY HandleIs DEF TypeInv
  <2>4. call.name \in Files \cup {NoName} /\ call.left \in 0 .. Len(call.out)
    <3>1. call.left \in Nat /\ call.left <= Len(call.out) /\ Len(call.out) \in Nat
          /\ call.name \in Files \cup {NoName}
      BY CallIs DEF TypeInv
    <3> QED
      BY <3>1
  <2>5. faults + losses \in 0 .. MaxTroubles
    BY Geometry DEF TypeInv, PastOK
  <2> QED
    BY <2>1, <2>2, <2>3, <2>4, <2>5 DEF TypeInv, PastOK, TypeOK, Blocks
<1> QED
  BY <1>1, FatAlways, PTL
-----------------------------------------------------------------------------
(* Induction over the naturals, as a fact about sets.                       *)
LEMMA LeastNat ==
  ASSUME NEW T \in SUBSET Nat, T # {}
  PROVE  \E n \in T : \A m \in T : n <= m
<1> DEFINE R == {p \in Nat \X Nat : p[1] < p[2]}
<1>1. IsWellFoundedOn(R, Nat)
  BY NatLessThanWellFounded DEF OpToRel
<1>2. PICK n \in T : \A m \in T : <<m, n>> \notin R
  <2> HIDE DEF R
  <2> QED
    BY <1>1, WFMin
<1>3. \A m \in T : ~(m < n)
  BY <1>2
<1> QED
  BY <1>3

LEMMA Induct ==
  ASSUME NEW S, 0 \in S, \A n \in Nat : n \in S => n + 1 \in S
  PROVE  Nat \subseteq S
<1> DEFINE T == Nat \ S
<1>1. SUFFICES ASSUME T # {} PROVE FALSE
  OBVIOUS
<1>2. PICK n \in T : \A m \in T : n <= m
  BY <1>1, LeastNat
<1>3. n # 0
  OBVIOUS
<1>4. n - 1 \in Nat /\ n - 1 \notin T
  BY <1>2, <1>3
<1> QED
  BY <1>4

(* The first clusters of the chain from c, as Chain finds them.             *)
After(F, x) == IF x \in Clusters THEN F[x] ELSE EOC

Walks(q, F, c, m) ==
  /\ q \in [0 .. m -> FatValues] /\ q[0] = c
  /\ \A n \in 1 .. m : q[n] = After(F, q[n - 1])

LEMMA AfterType == \A F \in Fats : \A x : After(F, x) \in FatValues
  BY DEF After, Fats, FatValues

LEMMA WalkExists ==
  ASSUME NEW F \in Fats, NEW c \in FatValues, NEW N \in Nat
  PROVE  \E q : Walks(q, F, c, N)
<1> DEFINE T == {m \in Nat : \E q : Walks(q, F, c, m)}
<1>1. 0 \in T
  <2>1. Walks([n \in 0 .. 0 |-> c], F, c, 0)
    BY DEF Walks
  <2> QED
    BY <2>1
<1>2. ASSUME NEW m \in Nat, m \in T PROVE m + 1 \in T
  <2>1. PICK q : Walks(q, F, c, m)
    BY <1>2
  <2> DEFINE d == After(F, q[m])
             r == [i \in 0 .. m + 1 |-> IF i = m + 1 THEN d ELSE q[i]]
  <2>2. q \in [0 .. m -> FatValues] /\ q[0] = c /\ d \in FatValues
    BY <2>1, AfterType DEF Walks
  <2>3. r \in [0 .. m + 1 -> FatValues] /\ r[0] = c
    <3> HIDE DEF d
    <3>1. \A i \in 0 .. m + 1 : i = m + 1 \/ i \in 0 .. m
      OBVIOUS
    <3>2. 0 \in 0 .. m + 1 /\ 0 # m + 1
      OBVIOUS
    <3> QED
      BY <2>2, <3>1, <3>2
  <2>4. ASSUME NEW i \in 1 .. m + 1 PROVE r[i] = After(F, r[i - 1])
    <3>1. CASE i = m + 1
      <4>1. i \in 0 .. m + 1 /\ i - 1 \in 0 .. m + 1 /\ i - 1 = m /\ i - 1 # m + 1
        BY <3>1
      <4>2. r[i] = d /\ r[i - 1] = q[m]
        <5> HIDE DEF d
        <5> QED
          BY <3>1, <4>1
      <4> HIDE DEF r
      <4> QED
        BY <4>2
    <3>2. CASE i # m + 1
      <4>1. /\ i \in 1 .. m /\ i \in 0 .. m + 1
            /\ i - 1 \in 0 .. m + 1 /\ i - 1 # m + 1
        BY <3>2
      <4>2. r[i] = q[i] /\ r[i - 1] = q[i - 1]
        <5> HIDE DEF d
        <5> QED
          BY <3>2, <4>1
      <4> HIDE DEF r
      <4> QED
        BY <2>1, <4>1, <4>2 DEF Walks
    <3> QED
      BY <3>1, <3>2
  <2> HIDE DEF r
  <2> QED
    BY <2>3, <2>4 DEF Walks
<1>3. Nat \subseteq T
  <2> HIDE DEF T
  <2> QED
    BY <1>1, <1>2, Induct
<1> QED
  BY <1>3

Longest == Cardinality(Clusters)

LEMMA ClustersFinite == IsFiniteSet(Clusters) /\ Longest \in Nat
<1>1. 2 \in Int /\ LastCluster \in Int
  BY Geometry
<1>2. IsFiniteSet(2 .. LastCluster)
  BY <1>1, FS_Interval
<1> QED
  BY <1>2, FS_CardinalityType DEF Clusters, Longest

LEMMA ChainWalks ==
  ASSUME TypeInv, NEW c \in {Free} \cup Clusters
  PROVE  Walks(Chain(card, c), CardFat, c, Longest)
<1> DEFINE N == Longest
           F == CardFat
           IsChain(q) ==
             q = [n \in 0 .. N |-> IF n = 0 THEN c
                                   ELSE IF q[n - 1] \in Clusters THEN FatEntry(card, q[n - 1])
                                   ELSE EOC]
           nth == Chain(card, c)
<1>1. N \in Nat /\ F \in Fats /\ c \in FatValues
  BY ClustersFinite, TypesAre DEF FatValues
<1>2. \A x : After(F, x) = IF x \in Clusters THEN FatEntry(card, x) ELSE EOC
  BY DEF After, CardFat
<1>3. PICK q : Walks(q, F, c, N)
  <2> HIDE DEF N, F
  <2> QED
    BY <1>1, WalkExists
<1>4. IsChain(q)
  <2> HIDE DEF N, F
  <2>1. q \in [0 .. N -> FatValues] /\ q[0] = c
    BY <1>3 DEF Walks
  <2>2. \A n \in 0 .. N : n = 0 \/ n \in 1 .. N
    BY <1>1
  <2>3. \A n \in 0 .. N : n # 0 =>
          q[n] = IF q[n - 1] \in Clusters THEN FatEntry(card, q[n - 1]) ELSE EOC
    BY <1>2, <1>3, <2>2 DEF Walks
  <2>4. q = [n \in 0 .. N |-> q[n]]
    BY <2>1
  <2> QED
    BY <2>1, <2>3, <2>4
<1>5. nth = CHOOSE s : IsChain(s)
  BY DEF Chain, Longest
<1>6. IsChain(nth)
  <2> HIDE DEF IsChain, nth
  <2> QED
    BY <1>4, <1>5
<1>7. nth[0] = c /\ \A n \in 1 .. N : nth[n] = After(F, nth[n - 1])
  <2>1. 0 \in 0 .. N /\ \A n \in 1 .. N : n \in 0 .. N /\ n # 0
    BY <1>1
  <2> HIDE DEF nth, N, F
  <2> QED
    BY <1>2, <1>6, <2>1
<1>8. nth \in [0 .. N -> FatValues]
  <2>1. \A n \in 0 .. N : n = 0 \/ n \in 1 .. N
    BY <1>1
  <2>2. \A n \in 0 .. N : nth[n] \in FatValues
    <3> HIDE DEF nth, N, F
    <3> QED
      BY <1>1, <1>7, <2>1, AfterType
  <2>3. nth = [n \in 0 .. N |-> nth[n]]
    <3> HIDE DEF nth, N, F
    <3> QED
      BY <1>6
  <2> HIDE DEF nth, N, F
  <2> QED
    BY <2>2, <2>3
<1> QED
  BY <1>7, <1>8 DEF Walks
-----------------------------------------------------------------------------
(* A chain that starts at a head: none of its clusters is free, it meets no *)
(* other such chain and never itself.                                       *)
LEMMA WalkStep ==
  ASSUME NEW F, NEW q, NEW c, NEW N \in Nat, Walks(q, F, c, N), NEW n \in Nat, n + 1 <= N,
         q[n + 1] \in Clusters
  PROVE  q[n] \in Clusters /\ q[n + 1] = F[q[n]]
<1>1. n + 1 \in 1 .. N /\ (n + 1) - 1 = n
  OBVIOUS
<1>2. q[n + 1] = After(F, q[n])
  BY <1>1 DEF Walks
<1> QED
  BY <1>2, Marks DEF After

LEMMA NoneFree ==
  ASSUME NEW F \in Fats, Linked(F), NEW c, Heads(F, c), NEW N \in Nat, NEW q,
         Walks(q, F, c, N), NEW n \in 0 .. N
  PROVE  q[n] # Free
<1> DEFINE Fine(x) == x = EOC \/ (x \in Clusters /\ F[x] # Free)
           T == {m \in Nat : m <= N => Fine(q[m])}
<1>1. 0 \in T
  BY DEF Walks, Heads
<1>2. ASSUME NEW m \in Nat, m \in T PROVE m + 1 \in T
  <2> SUFFICES ASSUME m + 1 <= N PROVE Fine(q[m + 1])
    OBVIOUS
  <2>1. Fine(q[m])
    BY <1>2
  <2>2. q[m + 1] = After(F, q[m])
    <3>1. m + 1 \in 1 .. N /\ (m + 1) - 1 = m
      OBVIOUS
    <3> QED
      BY <3>1 DEF Walks
  <2>3. CASE q[m] = EOC
    BY <2>2, <2>3, Marks DEF After
  <2>4. CASE q[m] \in Clusters /\ F[q[m]] # Free
    <3>1. q[m + 1] = F[q[m]] /\ F[q[m]] \in FatValues
      BY <2>2, <2>4 DEF After, Fats
    <3>2. CASE F[q[m]] = EOC
      BY <3>1, <3>2
    <3>3. CASE F[q[m]] \in Clusters
      BY <2>4, <3>1, <3>3 DEF Linked
    <3> QED
      BY <2>4, <3>1, <3>2, <3>3 DEF FatValues
  <2> QED
    BY <2>1, <2>3, <2>4
<1>3. Nat \subseteq T
  <2> HIDE DEF T
  <2> QED
    BY <1>1, <1>2, Induct
<1>4. n \in T /\ n <= N
  BY <1>3
<1> QED
  BY <1>4, Marks

LEMMA NeverMeet ==
  ASSUME NEW F \in Fats, Linked(F), NEW b, Heads(F, b), NEW c, Heads(F, c), b # c,
         NEW N \in Nat, NEW q, Walks(q, F, b, N), NEW r, Walks(r, F, c, N),
         NEW i \in 0 .. N, NEW j \in 0 .. N, q[i] = r[j], q[i] \in Clusters
  PROVE  FALSE
<1> DEFINE Apart(m) == \A n \in 0 .. N : q[m] = r[n] => q[m] \notin Clusters
           T == {m \in Nat : m <= N => Apart(m)}
<1>0. q[0] = b /\ r[0] = c
  BY DEF Walks
<1>1. 0 \in T
  <2> SUFFICES ASSUME NEW n \in 0 .. N, q[0] = r[n], q[0] \in Clusters PROVE FALSE
    OBVIOUS
  <2>1. n # 0
    BY <1>0
  <2>2. PICK k \in Nat : n = k + 1
    <3>1. n - 1 \in Nat /\ n = (n - 1) + 1
      BY <2>1
    <3> QED
      BY <3>1
  <2>3. r[k] \in Clusters /\ r[n] = F[r[k]]
    BY <2>2, WalkStep
  <2> QED
    BY <1>0, <2>3 DEF Heads
<1>2. ASSUME NEW m \in Nat, m \in T PROVE m + 1 \in T
  <2> SUFFICES ASSUME m + 1 <= N, NEW n \in 0 .. N, q[m + 1] = r[n], q[m + 1] \in Clusters
               PROVE  FALSE
    OBVIOUS
  <2>1. q[m] \in Clusters /\ q[m + 1] = F[q[m]]
    BY WalkStep
  <2>2. CASE n = 0
    BY <1>0, <2>1, <2>2 DEF Heads
  <2>3. CASE n # 0
    <3>1. PICK k \in Nat : n = k + 1
      <4>1. n - 1 \in Nat /\ n = (n - 1) + 1
        BY <2>3
      <4> QED
        BY <4>1
    <3>2. r[k] \in Clusters /\ r[n] = F[r[k]] /\ k \in 0 .. N
      BY <3>1, WalkStep
    <3>3. q[m] = r[k]
      BY <2>1, <3>2 DEF Linked
    <3>4. m <= N
      OBVIOUS
    <3> QED
      BY <1>2, <2>1, <3>2, <3>3, <3>4
  <2> QED
    BY <2>2, <2>3
<1>3. Nat \subseteq T
  <2> HIDE DEF T
  <2> QED
    BY <1>1, <1>2, Induct
<1>4. i \in T /\ i <= N
  BY <1>3
<1> QED
  BY <1>4

LEMMA NoClusterAfterNone ==
  ASSUME NEW F, NEW c, c \notin Clusters, NEW N \in Nat, NEW q, Walks(q, F, c, N),
         NEW i \in 0 .. N
  PROVE  q[i] \notin Clusters
<1> DEFINE T == {m \in Nat : m <= N => q[m] \notin Clusters}
<1>1. 0 \in T
  BY DEF Walks
<1>2. ASSUME NEW m \in Nat, m \in T PROVE m + 1 \in T
  <2> SUFFICES ASSUME m + 1 <= N, q[m + 1] \in Clusters PROVE FALSE
    OBVIOUS
  <2>1. q[m] \in Clusters
    BY WalkStep
  <2> QED
    BY <1>2, <2>1
<1>3. Nat \subseteq T
  <2> HIDE DEF T
  <2> QED
    BY <1>1, <1>2, Induct
<1>4. i \in T /\ i <= N
  BY <1>3
<1> QED
  BY <1>4

(* A path from a head passes no cluster twice.                              *)
LEMMA NoLoop ==
  ASSUME NEW F \in Fats, Linked(F), NEW n \in Nat, NEW p \in [0 .. n -> Clusters],
         Heads(F, p[0]), \A i \in 0 .. n - 1 : F[p[i]] = p[i + 1],
         NEW a \in 0 .. n, NEW b \in 0 .. n, a < b
  PROVE  p[a] # p[b]
<1> DEFINE T == {m \in Nat : m <= n => \A k \in 0 .. n : m < k => p[m] # p[k]}
<1>0. ASSUME NEW k \in 0 .. n, k # 0
      PROVE  \E l \in 0 .. n : k = l + 1 /\ l \in Nat /\ F[p[l]] = p[k] /\ p[l] \in Clusters
  <2>1. PICK l : l = k - 1
    OBVIOUS
  <2>2. l \in 0 .. n - 1 /\ l \in 0 .. n /\ k = l + 1 /\ l \in Nat
    BY <1>0, <2>1
  <2> QED
    BY <2>2
<1>1. 0 \in T
  <2> SUFFICES ASSUME NEW k \in 0 .. n, 0 < k, p[0] = p[k] PROVE FALSE
    OBVIOUS
  <2>1. PICK l \in 0 .. n : F[p[l]] = p[k] /\ p[l] \in Clusters
    BY <1>0
  <2> QED
    BY <2>1 DEF Heads
<1>2. ASSUME NEW m \in Nat, m \in T PROVE m + 1 \in T
  <2> SUFFICES ASSUME m + 1 <= n, NEW k \in 0 .. n, m + 1 < k, p[m + 1] = p[k] PROVE FALSE
    OBVIOUS
  <2>1. PICK l \in 0 .. n : k = l + 1 /\ l \in Nat /\ F[p[l]] = p[k] /\ p[l] \in Clusters
    BY <1>0
  <2>2. m \in 0 .. n - 1 /\ m \in 0 .. n /\ m + 1 \in 0 .. n /\ m < l
    BY <2>1
  <2>3. F[p[m]] = p[m + 1] /\ p[m] \in Clusters /\ p[m + 1] \in Clusters
    BY <2>2
  <2>4. p[m] = p[l]
    BY <2>1, <2>3 DEF Linked
  <2> QED
    BY <1>2, <2>2, <2>4
<1>3. Nat \subseteq T
  <2> HIDE DEF T
  <2> QED
    BY <1>1, <1>2, Induct
<1>4. a \in T /\ a <= n
  BY <1>3
<1> QED
  BY <1>4

(* A chain that leads n clusters on has n + 1 clusters, all of which Chain  *)
(* finds.                                                                   *)
LEMMA LongEnough ==
  ASSUME NEW F \in Fats, Linked(F), NEW first, Heads(F, first), NEW n \in Nat, NEW c,
         Leads(F, first, n, c), NEW q, Walks(q, F, first, Longest)
  PROVE  n + 1 <= Cardinality({q[i] : i \in 0 .. Longest} \cap Clusters)
<1> DEFINE N == Longest
           R == {q[i] : i \in 0 .. N} \cap Clusters
<1>1. PICK p \in [0 .. n -> Clusters] :
         p[0] = first /\ p[n] = c /\ \A i \in 0 .. n - 1 : F[p[i]] = p[i + 1]
  BY DEF Leads
<1>2. \A a, b \in 0 .. n : p[a] = p[b] => a = b
  <2> TAKE a, b \in 0 .. n
  <2>1. a < b => p[a] # p[b]
    BY <1>1, NoLoop
  <2>2. b < a => p[b] # p[a]
    BY <1>1, NoLoop
  <2>3. a < b \/ b < a \/ a = b
    OBVIOUS
  <2> QED
    BY <2>1, <2>2, <2>3
<1>3. Cardinality(0 .. n) = n + 1
  BY FS_Interval
<1>4. ASSUME NEW S, IsFiniteSet(S), p \in [0 .. n -> S] PROVE n + 1 <= Cardinality(S)
  <2>1. p \in Injection(0 .. n, S)
    BY <1>2, <1>4 DEF Injection, IsInjective
  <2> QED
    BY <1>3, <1>4, <2>1, FS_Injection
<1>5. n + 1 <= N /\ N \in Nat
  BY <1>4, ClustersFinite DEF Longest
<1> HIDE DEF N
<1> DEFINE T == {m \in Nat : m <= n => q[m] = p[m]}
<1>6. 0 \in T
  BY <1>1 DEF Walks
<1>7. ASSUME NEW m \in Nat, m \in T PROVE m + 1 \in T
  <2> SUFFICES ASSUME m + 1 <= n PROVE q[m + 1] = p[m + 1]
    OBVIOUS
  <2>1. m \in 0 .. n - 1 /\ m \in 0 .. n /\ m + 1 \in 1 .. N /\ (m + 1) - 1 = m
    BY <1>5
  <2>2. q[m + 1] = After(F, q[m]) /\ q[m] = p[m] /\ p[m] \in Clusters
    BY <1>7, <2>1 DEF Walks, N
  <2> QED
    BY <1>1, <2>1, <2>2 DEF After
<1>8. Nat \subseteq T
  <2> HIDE DEF T
  <2> QED
    BY <1>6, <1>7, Induct
<1>9. \A m \in 0 .. n : q[m] = p[m] /\ m \in 0 .. N
  BY <1>5, <1>8
<1>10. p \in [0 .. n -> R]
  BY <1>9
<1>11. IsFiniteSet(R)
  BY ClustersFinite, FS_Subset
<1> QED
  BY <1>4, <1>10, <1>11 DEF N

LEMMA SizeFits ==
  ASSUME NEW size \in Nat, size > 0, NEW k \in Nat, Index(size) + 1 <= k
  PROVE  size <= PerCluster * k
<1> DEFINE m == PerCluster
           i == Index(size)
<1>1. m \in Nat \ {0} /\ i \in Nat /\ size - 1 \in Nat /\ i + 1 \in Nat
  BY Geometry, IndexType
<1>2. (i + 1) * m <= k * m
  BY <1>1, Times
<1>3. ASSUME size > (i + 1) * m PROVE FALSE
  <2>1. (i + 1) * m <= size - 1
    <3>1. (i + 1) * m \in Nat
      BY <1>1
    <3> HIDE DEF i, m
    <3> QED
      BY <1>3, <3>1
  <2>2. i + 1 <= (size - 1) \div m
    <3> HIDE DEF i, m
    <3> QED
      BY <1>1, <2>1, DivisionAbove
  <2>3. (size - 1) \div m = i
    BY DEF Index
  <2> HIDE DEF i, m
  <2> QED
    BY <1>1, <2>2, <2>3
<1>4. m * k = k * m /\ k * m \in Nat /\ (i + 1) * m \in Nat
  BY <1>1
<1> HIDE DEF i, m
<1> QED
  BY <1>2, <1>3, <1>4 DEF m

(* For cards of any geometry, any files, prints and troubles: on the card   *)
(* the chain of a file has no free cluster, is as long as the entry says    *)
(* and has no cluster in common with the chain of another file, between any *)
(* two writes the library makes.  Nothing is said once a remove() was cut   *)
(* short, nor once a print was made on a handle that an earlier print,      *)
(* failing behind a step to another cluster, had left ahead (broken).       *)
THEOREM FilesApart == Spec => []ChainsApart
<1>1. FatInv => ChainsApart
  <2> SUFFICES ASSUME FatInv, ~broken, gone = NoName
               PROVE  /\ \A f \in Files :
                           /\ CardDir[f].first # 0 => Free \notin Reach(card, CardDir[f].first)
                           /\ CardDir[f].size
                                <= PerCluster
                                   * Cardinality(Reach(card, CardDir[f].first) \cap Clusters)
                      /\ \A f, g \in Files :
                           f # g => Reach(card, CardDir[f].first)
                                      \cap Reach(card, CardDir[g].first) \cap Clusters = {}
    BY DEF ChainsApart, CardDir
  <2> DEFINE F == CardFat
             D == CardDir
             first(f) == D[f].first
             q(f) == Chain(card, first(f))
  <2>1. TypeInv /\ Linked(F) /\ Entries(F, D, NoName)
    BY DEF FatInv, ChainInv, Sound, SoundInv, CardChains
  <2>2. F \in Fats /\ D \in [Files -> Entry] /\ \A f \in Files : D[f].size \in Nat
    BY <2>1, TypesAre
  <2>3. \A f \in Files : first(f) \in {Free} \cup Clusters
    BY <2>2 DEF Entry
  <2>4. \A f \in Files : Walks(q(f), F, first(f), Longest)
    BY <2>1, <2>3, ChainWalks
  <2>5. \A f \in Files : first(f) # 0 => Heads(F, first(f))
    BY <2>1, NoNameIsNone DEF Entries
  <2>6. \A f \in Files : Reach(card, first(f)) = {q(f)[n] : n \in 0 .. Longest}
    BY DEF Reach, Longest
  <2>7. Longest \in Nat
    BY ClustersFinite
  <2> HIDE DEF F, q
  <2>8. ASSUME NEW f \in Files, first(f) # 0 PROVE Free \notin Reach(card, first(f))
    BY <2>1, <2>2, <2>4, <2>5, <2>6, <2>7, <2>8, NoneFree
  <2>9. ASSUME NEW f \in Files
        PROVE  D[f].size <= PerCluster * Cardinality(Reach(card, first(f)) \cap Clusters)
    <3> DEFINE k == Cardinality(Reach(card, first(f)) \cap Clusters)
    <3>1. k \in Nat
      <4>1. IsFiniteSet(Reach(card, first(f)) \cap Clusters)
        BY ClustersFinite, FS_Subset
      <4> QED
        BY <4>1, FS_CardinalityType
    <3>2. CASE D[f].size = 0
      <4> HIDE DEF k
      <4>1. PerCluster * k \in Nat
        BY <3>1, Geometry
      <4> QED
        BY <3>2, <4>1 DEF k
    <3>3. CASE D[f].size # 0
      <4>1. D[f].size > 0 /\ Index(D[f].size) \in Nat
        BY <2>2, <3>3, IndexType
      <4>2. PICK c \in Clusters : Leads(F, first(f), Index(D[f].size), c)
        BY <2>1, <4>1, NoNameIsNone DEF Entries, Stored
      <4>3. first(f) \in Clusters
        BY <2>2, <4>1, <4>2, LeadsTo
      <4>4. Heads(F, first(f))
        BY <2>5, <4>3, Marks DEF Free
      <4>5. Walks(q(f), F, first(f), Longest)
        BY <2>4
      <4>6. Index(D[f].size) + 1 <= Cardinality({q(f)[i] : i \in 0 .. Longest} \cap Clusters)
        BY <2>1, <2>2, <4>1, <4>2, <4>4, <4>5, LongEnough
      <4>7. Index(D[f].size) + 1 <= k
        BY <2>6, <4>6
      <4> HIDE DEF k
      <4>8. D[f].size \in Nat
        BY <2>2
      <4> QED
        BY <3>1, <4>1, <4>7, <4>8, SizeFits DEF k
    <3> QED
      BY <3>2, <3>3
  <2>10. ASSUME NEW f \in Files, NEW g \in Files, f # g
         PROVE  Reach(card, first(f)) \cap Reach(card, first(g)) \cap Clusters = {}
    <3> SUFFICES ASSUME NEW i \in 0 .. Longest, NEW j \in 0 .. Longest,
                        q(f)[i] = q(g)[j], q(f)[i] \in Clusters
                 PROVE  FALSE
      BY <2>6
    <3>1. Walks(q(f), F, first(f), Longest) /\ Walks(q(g), F, first(g), Longest)
      BY <2>4
    <3>2. first(f) \in Clusters
      BY <2>7, <3>1, NoClusterAfterNone
    <3>3. first(g) \in Clusters
      BY <2>7, <3>1, NoClusterAfterNone
    <3>4. first(f) # 0 /\ first(g) # 0
      BY <3>2, <3>3, Marks DEF Free
    <3>5. Heads(F, first(f)) /\ Heads(F, first(g))
      BY <2>5, <3>4
    <3>6. first(f) # first(g)
      BY <2>1, <2>10, <3>4, NoNameIsNone DEF Entries
    <3> QED
      BY <2>1, <2>2, <2>7, <3>1, <3>5, <3>6, NeverMeet
  <2> QED
    BY <2>8, <2>9, <2>10
<1> QED
  BY <1>1, FatAlways, PTL
-----------------------------------------------------------------------------
(* Steps along a FAT, taken back: a cluster is so far behind a head and     *)
(* behind no other.                                                         *)
LEMMA LeadsNone ==
  ASSUME NEW F, NEW first, NEW c, Leads(F, first, 0, c)
  PROVE  c = first
  BY DEF Leads

LEMMA LeadsBack ==
  ASSUME NEW F, NEW first, NEW n \in Nat, NEW c, Leads(F, first, n + 1, c)
  PROVE  \E d \in Clusters : Leads(F, first, n, d) /\ F[d] = c
<1>1. PICK p \in [0 .. n + 1 -> Clusters] :
        p[0] = first /\ p[n + 1] = c /\ \A i \in 0 .. (n + 1) - 1 : F[p[i]] = p[i + 1]
  BY DEF Leads
<1> DEFINE r == [i \in 0 .. n |-> p[i]]
<1>2. n \in 0 .. n + 1 /\ 0 \in 0 .. n /\ n \in 0 .. n /\ n \in 0 .. (n + 1) - 1
  OBVIOUS
<1>3. r \in [0 .. n -> Clusters] /\ r[0] = first /\ r[n] = p[n]
  BY <1>1, <1>2
<1>4. \A i \in 0 .. n - 1 : F[r[i]] = r[i + 1]
  <2> TAKE i \in 0 .. n - 1
  <2>1. i \in 0 .. n /\ i + 1 \in 0 .. n /\ i \in 0 .. (n + 1) - 1
    OBVIOUS
  <2> QED
    BY <1>1, <2>1
<1>5. Leads(F, first, n, p[n])
  <2> HIDE DEF r
  <2> QED
    BY <1>3, <1>4 DEF Leads
<1>6. p[n] \in Clusters /\ F[p[n]] = c
  BY <1>1, <1>2
<1> QED
  BY <1>5, <1>6

LEMMA LeadsOne ==
  ASSUME NEW F, NEW first, NEW n \in Nat, NEW c, NEW d,
         Leads(F, first, n, c), Leads(F, first, n, d)
  PROVE  c = d
<1> DEFINE T == {m \in Nat : \A x, y : Leads(F, first, m, x) /\ Leads(F, first, m, y) => x = y}
<1>1. 0 \in T
  BY LeadsNone
<1>2. ASSUME NEW m \in Nat, m \in T PROVE m + 1 \in T
  <2> SUFFICES ASSUME NEW x, NEW y, Leads(F, first, m + 1, x), Leads(F, first, m + 1, y)
               PROVE  x = y
    OBVIOUS
  <2>1. PICK v \in Clusters : Leads(F, first, m, v) /\ F[v] = x
    BY LeadsBack
  <2>2. PICK w \in Clusters : Leads(F, first, m, w) /\ F[w] = y
    BY LeadsBack
  <2> QED
    BY <1>2, <2>1, <2>2
<1>3. Nat \subseteq T
  <2> HIDE DEF T
  <2> QED
    BY <1>1, <1>2, Induct
<1> QED
  BY <1>3

LEMMA LeadsApart ==
  ASSUME NEW F, Linked(F), NEW a, Heads(F, a), NEW b, Heads(F, b), NEW n \in Nat,
         NEW m \in Nat, NEW c \in Clusters, Leads(F, a, n, c), Leads(F, b, m, c)
  PROVE  a = b /\ n = m
<1> DEFINE T == {i \in Nat : \A j \in Nat, x \in Clusters :
                   Leads(F, a, i, x) /\ Leads(F, b, j, x) => a = b /\ i = j}
<1>0. ASSUME NEW j \in Nat, j # 0 PROVE \E k \in Nat : j = k + 1
  <2>1. j - 1 \in Nat /\ j = (j - 1) + 1
    BY <1>0
  <2> QED
    BY <2>1
<1>1. 0 \in T
  <2> SUFFICES ASSUME NEW j \in Nat, NEW x \in Clusters, Leads(F, a, 0, x), Leads(F, b, j, x)
               PROVE  a = b /\ j = 0
    OBVIOUS
  <2>1. x = a
    BY LeadsNone
  <2>2. CASE j = 0
    BY <2>1, <2>2, LeadsNone
  <2>3. CASE j # 0
    <3>1. PICK k \in Nat : j = k + 1
      BY <1>0, <2>3
    <3>2. PICK d \in Clusters : F[d] = x
      BY <3>1, LeadsBack
    <3> QED
      BY <2>1, <3>2 DEF Heads
  <2> QED
    BY <2>2, <2>3
<1>2. ASSUME NEW i \in Nat, i \in T PROVE i + 1 \in T
  <2> SUFFICES ASSUME NEW j \in Nat, NEW x \in Clusters, Leads(F, a, i + 1, x), Leads(F, b, j, x)
               PROVE  a = b /\ i + 1 = j
    OBVIOUS
  <2>1. PICK d \in Clusters : Leads(F, a, i, d) /\ F[d] = x
    BY LeadsBack
  <2>2. CASE j = 0
    <3>1. x = b
      BY <2>2, LeadsNone
    <3> QED
      BY <2>1, <3>1 DEF Heads
  <2>3. CASE j # 0
    <3>1. PICK k \in Nat : j = k + 1
      BY <1>0, <2>3
    <3>2. PICK e \in Clusters : Leads(F, b, k, e) /\ F[e] = x
      BY <3>1, LeadsBack
    <3>3. d = e
      BY <2>1, <3>2 DEF Linked
    <3>4. a = b /\ i = k
      BY <1>2, <2>1, <3>2, <3>3
    <3> QED
      BY <3>1, <3>4
  <2> QED
    BY <2>2, <2>3
<1>3. Nat \subseteq T
  <2> HIDE DEF T
  <2> QED
    BY <1>1, <1>2, Induct
<1> QED
  BY <1>3

(* Chain finds what is so far behind.                                       *)
LEMMA WalkLeads ==
  ASSUME NEW F, NEW first, NEW N \in Nat, NEW q, Walks(q, F, first, N), NEW n \in Nat, n <= N,
         NEW c, Leads(F, first, n, c)
  PROVE  q[n] = c
<1> DEFINE T == {m \in Nat : m <= N => \A x : Leads(F, first, m, x) => q[m] = x}
<1>1. 0 \in T
  BY LeadsNone DEF Walks
<1>2. ASSUME NEW m \in Nat, m \in T PROVE m + 1 \in T
  <2> SUFFICES ASSUME m + 1 <= N, NEW x, Leads(F, first, m + 1, x) PROVE q[m + 1] = x
    OBVIOUS
  <2>1. PICK d \in Clusters : Leads(F, first, m, d) /\ F[d] = x
    BY LeadsBack
  <2>2. q[m] = d
    BY <1>2, <2>1
  <2>3. q[m + 1] = After(F, q[m])
    <3>1. m + 1 \in 1 .. N /\ (m + 1) - 1 = m
      OBVIOUS
    <3> QED
      BY <3>1 DEF Walks
  <2> QED
    BY <2>1, <2>2, <2>3 DEF After
<1>3. Nat \subseteq T
  <2> HIDE DEF T
  <2> QED
    BY <1>1, <1>2, Induct
<1> QED
  BY <1>3

LEMMA LeadsWithin ==
  ASSUME NEW F \in Fats, Linked(F), NEW first, Heads(F, first), NEW n \in Nat, NEW c,
         Leads(F, first, n, c)
  PROVE  n + 1 <= Longest
<1>1. first \in FatValues
  BY DEF Heads, FatValues
<1>2. PICK q : Walks(q, F, first, Longest)
  BY <1>1, ClustersFinite, WalkExists
<1> DEFINE R == {q[i] : i \in 0 .. Longest} \cap Clusters
<1>3. n + 1 <= Cardinality(R)
  BY <1>2, LongEnough
<1>4. Cardinality(R) <= Longest /\ Cardinality(R) \in Nat
  <2>1. R \subseteq Clusters
    OBVIOUS
  <2> HIDE DEF R
  <2>2. IsFiniteSet(R) /\ Cardinality(R) <= Cardinality(Clusters)
    BY <2>1, ClustersFinite, FS_Subset
  <2> QED
    BY <2>2, FS_CardinalityType DEF Longest
<1> HIDE DEF R
<1> QED
  BY <1>3, <1>4, ClustersFinite

(* Two walks from one cluster are the same.                                 *)
LEMMA WalksOne ==
  ASSUME NEW F, NEW c, NEW N \in Nat, NEW q, NEW r, Walks(q, F, c, N), Walks(r, F, c, N)
  PROVE  q = r
<1> DEFINE T == {m \in Nat : m <= N => q[m] = r[m]}
<1>1. 0 \in T
  BY DEF Walks
<1>2. ASSUME NEW m \in Nat, m \in T PROVE m + 1 \in T
  <2> SUFFICES ASSUME m + 1 <= N PROVE q[m + 1] = r[m + 1]
    OBVIOUS
  <2>1. m + 1 \in 1 .. N /\ (m + 1) - 1 = m
    OBVIOUS
  <2> QED
    BY <1>2, <2>1 DEF Walks
<1>3. Nat \subseteq T
  <2> HIDE DEF T
  <2> QED
    BY <1>1, <1>2, Induct
<1>4. \A m \in 0 .. N : q[m] = r[m]
  BY <1>3
<1> QED
  BY <1>4 DEF Walks
-----------------------------------------------------------------------------
(* The place of a unit: cluster k of the chain, block l of the cluster and  *)
(* unit r of the block.                                                     *)
LEMMA DivisionIs ==
  ASSUME NEW q \in Nat, NEW m \in Nat \ {0}, NEW r \in 0 .. m - 1
  PROVE  (q * m + r) \div m = q /\ (q * m + r) % m = r
<1> DEFINE n == q * m + r
<1>0. n = q * m + r
  OBVIOUS
<1> HIDE DEF n
<1>1. q * m \in Nat /\ n \in Nat /\ (q + 1) * m = q * m + m
  BY <1>0
<1> DEFINE qm == q * m
<1>2. q <= n \div m
  <2>1. qm <= n
    <3> HIDE DEF qm
    <3>1. n = qm + r /\ qm \in Nat
      BY <1>0, <1>1 DEF qm
    <3> QED
      BY <3>1
  <2> QED
    BY <1>1, <2>1, DivisionAbove
<1>3. n \div m <= q
  <2>1. n < (q + 1) * m
    <3> HIDE DEF qm
    <3>1. n = qm + r /\ qm \in Nat /\ (q + 1) * m = qm + m
      BY <1>0, <1>1 DEF qm
    <3> QED
      BY <3>1
  <2> QED
    BY <1>1, <2>1, DivisionBelow
<1>4. n \div m \in Nat
  BY <1>1, DivisionType
<1>5. n \div m = q
  BY <1>2, <1>3, <1>4
<1>6. n = (n \div m) * m + (n % m) /\ n % m \in 0 .. m - 1
  BY <1>1, Division
<1>7. n = qm + (n % m)
  BY <1>5, <1>6
<1>8. n % m = r
  <2> DEFINE s == n % m
  <2> HIDE DEF qm, s
  <2>1. n = qm + s /\ s \in 0 .. m - 1 /\ n = qm + r /\ qm \in Nat
    BY <1>0, <1>1, <1>6, <1>7 DEF qm, s
  <2>2. s = r
    BY <2>1
  <2> QED
    BY <2>2 DEF s
<1> QED
  BY <1>0, <1>5, <1>8

Placed(i, k, l, r) ==
  /\ k \in Nat /\ l \in 0 .. BlocksPerCluster - 1 /\ r \in 0 .. PerBlock - 1
  /\ i = k * PerCluster + (l * PerBlock + r)

LEMMA PlaceIs ==
  ASSUME NEW i, NEW k, NEW l, NEW r, Placed(i, k, l, r)
  PROVE  /\ i \in Nat /\ i \div PerCluster = k /\ (i % PerCluster) \div PerBlock = l
         /\ i % PerBlock = r /\ (i \div PerBlock) % BlocksPerCluster = l
         /\ i % PerCluster = l * PerBlock + r
<1> DEFINE B == PerBlock
           M == BlocksPerCluster
           C == PerCluster
           o == l * B + r
<1>1. /\ B \in Nat \ {0} /\ M \in Nat \ {0} /\ C \in Nat \ {0} /\ C = M * B
      /\ k \in Nat /\ l \in 0 .. M - 1 /\ r \in 0 .. B - 1
      /\ i = k * C + o
  BY Geometry DEF Placed
<1> HIDE DEF B, M, C, o
<1>2. o \in 0 .. C - 1
  <2>1. (l + 1) * B <= M * B
    <3>1. l + 1 \in Nat /\ l + 1 <= M /\ M \in Nat
      BY <1>1
    <3> QED
      BY <1>1, <3>1, Times
  <2>2. (l + 1) * B = l * B + B /\ l * B \in Nat
    BY <1>1
  <2> DEFINE lB == l * B
  <2>3. o = lB + r /\ lB \in Nat /\ lB + B <= C
    BY <1>1, <2>1, <2>2 DEF o
  <2> HIDE DEF lB
  <2> QED
    BY <1>1, <2>3
<1>3. i \div C = k /\ i % C = o
  <2>1. C \in Nat \ {0} /\ k \in Nat /\ o \in 0 .. C - 1 /\ i = k * C + o
    BY <1>1, <1>2
  <2>2. (k * C + o) \div C = k /\ (k * C + o) % C = o
    BY <2>1, DivisionIs
  <2> QED
    BY <2>1, <2>2
<1>4. o \div B = l
  <2>1. l \in Nat /\ o = l * B + r
    BY <1>1 DEF o
  <2>2. (l * B + r) \div B = l
    BY <1>1, <2>1, DivisionIs
  <2> QED
    BY <2>1, <2>2
<1>5. k * M + l \in Nat /\ i = (k * M + l) * B + r
  <2>1. k * M \in Nat /\ l \in Nat /\ k * M + l \in Nat
    BY <1>1
  <2>2. k * C = (k * M) * B
    BY <1>1
  <2>3. ((k * M) + l) * B = (k * M) * B + l * B
    BY <1>1, <2>1
  <2>4. (k * M) * B \in Nat /\ l * B \in Nat
    BY <1>1, <2>1
  <2> DEFINE x == (k * M) * B
             y == l * B
  <2>5. i = x + (y + r) /\ x \in Nat /\ y \in Nat /\ r \in Nat
    BY <1>1, <2>2, <2>4 DEF o
  <2>6. i = (x + y) + r
    <3> HIDE DEF x, y
    <3> QED
      BY <2>5
  <2> QED
    BY <2>1, <2>3, <2>6
<1>6. i \div B = k * M + l /\ i % B = r
  <2> DEFINE q == k * M + l
  <2>1. B \in Nat \ {0} /\ q \in Nat /\ r \in 0 .. B - 1 /\ i = q * B + r
    BY <1>1, <1>5
  <2> HIDE DEF q
  <2>2. (q * B + r) \div B = q /\ (q * B + r) % B = r
    BY <2>1, DivisionIs
  <2>3. i \div B = q /\ i % B = r
    BY <2>1, <2>2
  <2> QED
    BY <2>3 DEF q
<1>7. (k * M + l) % M = l
  <2>1. M \in Nat \ {0} /\ k \in Nat /\ l \in 0 .. M - 1
    BY <1>1
  <2> QED
    BY <2>1, DivisionIs
<1>8. i \in Nat
  <2>1. k * C \in Nat
    BY <1>1
  <2> DEFINE x == k * C
  <2> HIDE DEF x
  <2>2. x \in Nat /\ o \in Nat /\ i = x + o
    BY <1>1, <1>2, <2>1 DEF x
  <2> QED
    BY <2>2
<1> QED
  BY <1>3, <1>4, <1>6, <1>7, <1>8 DEF B, M, C, o

LEMMA PlaceExists ==
  ASSUME NEW i \in Nat
  PROVE  Placed(i, i \div PerCluster, (i % PerCluster) \div PerBlock, i % PerBlock)
<1> DEFINE B == PerBlock
           M == BlocksPerCluster
           C == PerCluster
           k == i \div C
           o == i % C
           l == o \div B
           r == o % B
<1>1. B \in Nat \ {0} /\ M \in Nat \ {0} /\ C \in Nat \ {0} /\ C = M * B
  BY Geometry
<1>2. k \in Nat /\ o \in 0 .. C - 1 /\ i = k * C + o
  <2> HIDE DEF C
  <2> QED
    BY <1>1, Division
<1>3. l \in Nat /\ r \in 0 .. B - 1 /\ o = l * B + r
  <2>1. o \in Nat
    BY <1>2
  <2> HIDE DEF B, o
  <2> QED
    BY <1>1, <2>1, Division
<1>4. l <= M - 1
  <2>1. o < M * B /\ o \in Nat
    BY <1>1, <1>2
  <2>2. M - 1 \in Nat /\ (M - 1) + 1 = M
    BY <1>1
  <2> HIDE DEF B, M, C, o
  <2>3. o < ((M - 1) + 1) * B
    BY <2>1, <2>2
  <2> QED
    BY <1>1, <2>1, <2>2, <2>3, DivisionBelow
<1>5. Placed(i, k, l, r)
  <2>1. l \in 0 .. M - 1
    BY <1>1, <1>3, <1>4
  <2> HIDE DEF k, l, r, o
  <2>2. i = k * C + (l * B + r)
    BY <1>2, <1>3
  <2> QED
    BY <1>2, <1>3, <2>1, <2>2 DEF Placed
<1>6. i % PerBlock = r
  <2> HIDE DEF k, l, r
  <2> QED
    BY <1>5, PlaceIs
<1> QED
  BY <1>5, <1>6

(* Units of one block.                                                      *)
LEMMA SamePlace ==
  ASSUME NEW i \in Nat, NEW j \in Nat, (i % PerBlock) + j < PerBlock
  PROVE  /\ (i + j) \div PerCluster = i \div PerCluster
         /\ ((i + j) % PerCluster) \div PerBlock = (i % PerCluster) \div PerBlock
         /\ (i + j) % PerBlock = (i % PerBlock) + j
<1> DEFINE k == i \div PerCluster
           l == (i % PerCluster) \div PerBlock
           r == i % PerBlock
<1>1. Placed(i, k, l, r) /\ r + j < PerBlock
  BY PlaceExists
<1> HIDE DEF k, l, r
<1>2. Placed(i + j, k, l, r + j)
  <2> DEFINE x == k * PerCluster
             y == l * PerBlock
  <2>1. x \in Nat /\ y \in Nat
    BY <1>1, Geometry DEF Placed
  <2> HIDE DEF x, y
  <2>2. i = x + (y + r) /\ r \in Nat
    BY <1>1, Geometry DEF Placed, x, y
  <2>3. i + j = x + (y + (r + j)) /\ r + j \in 0 .. PerBlock - 1
    BY <1>1, <2>1, <2>2, Geometry
  <2> QED
    BY <1>1, <2>3 DEF Placed, x, y
<1> QED
  BY <1>2, PlaceIs DEF k, l, r

(* Of two units in the same block of the same cluster of a chain, the later *)
(* one is further on in the block.                                          *)
LEMMA LaterPlace ==
  ASSUME NEW i \in Nat, NEW j \in Nat, i \div PerCluster = j \div PerCluster,
         (i % PerCluster) \div PerBlock = (j % PerCluster) \div PerBlock
  PROVE  i - j = (i % PerBlock) - (j % PerBlock)
<1> DEFINE k == i \div PerCluster
           l == (i % PerCluster) \div PerBlock
           r == i % PerBlock
           s == j % PerBlock
<1>1. Placed(i, k, l, r) /\ Placed(j, k, l, s)
  BY PlaceExists
<1> HIDE DEF k, l, r, s
<1>2. i - j = r - s
  <2> DEFINE x == k * PerCluster
             y == l * PerBlock
  <2>1. x \in Nat /\ y \in Nat /\ r \in Nat /\ s \in Nat
    BY <1>1, Geometry DEF Placed
  <2>2. i = x + (y + r) /\ j = x + (y + s)
    BY <1>1 DEF Placed
  <2> HIDE DEF x, y
  <2> QED
    BY <2>1, <2>2
<1> QED
  BY <1>2 DEF r, s

LEMMA PlaceIn ==
  ASSUME NEW i \in Nat
  PROVE  /\ (i % PerCluster) \div PerBlock \in 0 .. BlocksPerCluster - 1
         /\ i % PerBlock \in 0 .. PerBlock - 1 /\ (i % PerBlock) + 1 \in 1 .. PerBlock
         /\ i \div PerCluster \in Nat
         /\ (i \div PerBlock) % BlocksPerCluster = (i % PerCluster) \div PerBlock
<1>1. Placed(i, i \div PerCluster, (i % PerCluster) \div PerBlock, i % PerBlock)
  BY PlaceExists
<1>2. i % PerBlock \in 0 .. PerBlock - 1
  BY <1>1 DEF Placed
<1>3. (i % PerBlock) + 1 \in 1 .. PerBlock
  <2> DEFINE r == i % PerBlock
  <2>1. r \in 0 .. PerBlock - 1
    BY <1>2
  <2> HIDE DEF r
  <2>2. r + 1 \in 1 .. PerBlock
    BY <2>1, Geometry
  <2> QED
    BY <2>2 DEF r
<1>4. (i \div PerBlock) % BlocksPerCluster = (i % PerCluster) \div PerBlock
  BY <1>1, PlaceIs
<1> QED
  BY <1>1, <1>2, <1>3, <1>4 DEF Placed

(* The cluster of a unit is the one its number has behind the first.        *)
LEMMA IndexIs == \A i \in Nat : Index(i + 1) = i \div PerCluster
<1> TAKE i \in Nat
<1>1. (i + 1) - 1 = i
  OBVIOUS
<1> QED
  BY <1>1 DEF Index

LEMMA IndexIsInside ==
  ASSUME NEW n \in Nat, n % PerCluster # 0
  PROVE  n > 0 /\ n \div PerCluster = Index(n)
<1>1. n > 0 /\ n \div PerCluster <= Index(n)
  BY IndexInside
<1>2. n - 1 \in Nat /\ Index(n) \in Nat /\ Index(n) * PerCluster < n
  BY <1>1, IndexType
<1>3. Index(n) <= n \div PerCluster
  <2>1. Index(n) * PerCluster \in Nat
    BY <1>2, Geometry
  <2>2. Index(n) * PerCluster <= n
    BY <1>2, <2>1
  <2> QED
    BY <1>2, <2>2, Geometry, DivisionAbove
<1>4. n \div PerCluster \in Nat
  BY Geometry, DivisionType
<1> QED
  BY <1>1, <1>2, <1>3, <1>4

LEMMA IndexIsAtEnd ==
  ASSUME NEW n \in Nat, n > 0, n % PerCluster = 0
  PROVE  n \div PerCluster = Index(n) + 1
<1>1. n \div PerCluster <= Index(n) + 1
  BY IndexAtEnd
<1>2. n - 1 \in Nat /\ Index(n) \in Nat /\ Index(n) * PerCluster < n
  BY IndexType
<1>0. n \div PerCluster \in Nat
  BY Geometry, DivisionType
<1>3. ASSUME n \div PerCluster <= Index(n) PROVE FALSE
  <2> DEFINE k == n \div PerCluster
             i == Index(n)
             C == PerCluster
  <2>1. n = k * C
    <3>1. n = k * C + (n % C)
      BY Geometry, Division
    <3>2. k * C \in Nat
      BY <1>0, Geometry
    <3> QED
      BY <3>1, <3>2
  <2>2. k \in Nat /\ i \in Nat /\ C \in Nat \ {0} /\ k <= i
    BY <1>0, <1>2, <1>3, Geometry
  <2>3. i * C < n
    BY <1>2
  <2> HIDE DEF k, i, C
  <2>4. k * C <= i * C
    BY <2>2, Times
  <2>5. i * C \in Nat
    BY <2>2
  <2> QED
    BY <2>1, <2>3, <2>4, <2>5
<1> QED
  BY <1>0, <1>1, <1>2, <1>3
-----------------------------------------------------------------------------
(* What a file holds, unit by unit: unit i is u.                            *)
FatOf(S) == [c \in Clusters |-> FatEntry(S, c)]
At(S, c, i) == S[Data(c, (i % PerCluster) \div PerBlock)][(i % PerBlock) + 1]

Holds(S, first, i, u) ==
  \E c \in Clusters : Leads(FatOf(S), first, i \div PerCluster, c) /\ At(S, c, i) = u

(* A file of that size sits on the chain of first.                          *)
Sits(S, first, size) ==
  /\ FatOf(S) \in Fats /\ Linked(FatOf(S))
  /\ size > 0 => Heads(FatOf(S), first)
  /\ Stored(FatOf(S), first, size)

UnitBlocks(S) ==
  \A c \in Clusters, b \in 0 .. BlocksPerCluster - 1 : S[Data(c, b)] \in [1 .. PerBlock -> Units]

SameData(S, T) ==
  \A c \in Clusters, b \in 0 .. BlocksPerCluster - 1 : T[Data(c, b)] = S[Data(c, b)]

LEMMA EntryIs ==
  ASSUME NEW e \in Entry
  PROVE  /\ e.size \in Units /\ e.size \in Nat /\ e.first \in {Free} \cup Clusters
         /\ e.there \in BOOLEAN
  BY Geometry DEF Entry, Units

LEMMA ChainIsWalk ==
  ASSUME NEW S, FatOf(S) \in Fats, NEW c \in {Free} \cup Clusters
  PROVE  Walks(Chain(S, c), FatOf(S), c, Longest)
<1> DEFINE N == Longest
           F == FatOf(S)
           IsChain(q) ==
             q = [n \in 0 .. N |-> IF n = 0 THEN c
                                   ELSE IF q[n - 1] \in Clusters THEN FatEntry(S, q[n - 1])
                                   ELSE EOC]
           nth == Chain(S, c)
<1>1. N \in Nat /\ F \in Fats /\ c \in FatValues
  BY ClustersFinite DEF FatValues
<1>2. \A x : After(F, x) = IF x \in Clusters THEN FatEntry(S, x) ELSE EOC
  BY DEF After, FatOf
<1>3. PICK q : Walks(q, F, c, N)
  <2> HIDE DEF N, F
  <2> QED
    BY <1>1, WalkExists
<1>4. IsChain(q)
  <2> HIDE DEF N, F
  <2>1. q \in [0 .. N -> FatValues] /\ q[0] = c
    BY <1>3 DEF Walks
  <2>2. \A n \in 0 .. N : n = 0 \/ n \in 1 .. N
    BY <1>1
  <2>3. \A n \in 0 .. N : n # 0 =>
          q[n] = IF q[n - 1] \in Clusters THEN FatEntry(S, q[n - 1]) ELSE EOC
    BY <1>2, <1>3, <2>2 DEF Walks
  <2>4. q = [n \in 0 .. N |-> q[n]]
    BY <2>1
  <2> QED
    BY <2>1, <2>3, <2>4
<1>5. nth = CHOOSE s : IsChain(s)
  BY DEF Chain, Longest
<1>6. IsChain(nth)
  <2> HIDE DEF IsChain, nth
  <2> QED
    BY <1>4, <1>5
<1>7. nth[0] = c /\ \A n \in 1 .. N : nth[n] = After(F, nth[n - 1])
  <2>1. 0 \in 0 .. N /\ \A n \in 1 .. N : n \in 0 .. N /\ n # 0
    BY <1>1
  <2> HIDE DEF nth, N, F
  <2> QED
    BY <1>2, <1>6, <2>1
<1>8. nth \in [0 .. N -> FatValues]
  <2>1. \A n \in 0 .. N : n = 0 \/ n \in 1 .. N
    BY <1>1
  <2>2. \A n \in 0 .. N : nth[n] \in FatValues
    <3> HIDE DEF nth, N, F
    <3> QED
      BY <1>1, <1>7, <2>1, AfterType
  <2>3. nth = [n \in 0 .. N |-> nth[n]]
    <3> HIDE DEF nth, N, F
    <3> QED
      BY <1>6
  <2> HIDE DEF nth, N, F
  <2> QED
    BY <2>2, <2>3
<1> QED
  BY <1>7, <1>8 DEF Walks

(* Contents, with the chain for a parameter.                                *)
UnitOn(S, q, i) == IF q[i \div PerCluster] \in Clusters THEN At(S, q[i \div PerCluster], i) ELSE 0

LEMMA ContentsIs ==
  ASSUME NEW S, NEW e
  PROVE  /\ ~e.there => Contents(S, e) = NoName
         /\ e.there => Contents(S, e) = [i \in 1 .. e.size |-> UnitOn(S, Chain(S, e.first), i - 1)]
  BY DEF Contents, UnitOn, At

LEMMA ContentsSame ==
  ASSUME NEW S, NEW T, FatOf(S) \in Fats, FatOf(T) = FatOf(S), SameData(S, T), NEW e \in Entry
  PROVE  Contents(T, e) = Contents(S, e)
<1> DEFINE q == Chain(S, e.first)
           r == Chain(T, e.first)
<1>1. q = r
  <2>1. e.first \in {Free} \cup Clusters
    BY EntryIs
  <2>2. Walks(q, FatOf(S), e.first, Longest) /\ Walks(r, FatOf(S), e.first, Longest)
    BY <2>1, ChainIsWalk
  <2> HIDE DEF q, r
  <2> QED
    BY <2>2, ClustersFinite, WalksOne
<1> HIDE DEF q, r
<1>2. \A i \in 1 .. e.size : UnitOn(S, q, i - 1) = UnitOn(T, q, i - 1)
  <2> TAKE i \in 1 .. e.size
  <2>1. i - 1 \in Nat
    BY EntryIs
  <2>2. ((i - 1) % PerCluster) \div PerBlock \in 0 .. BlocksPerCluster - 1
    BY <2>1, PlaceIn
  <2> QED
    BY <2>2 DEF UnitOn, At, SameData
<1>3. CASE e.there
  <2>1. /\ Contents(S, e) = [i \in 1 .. e.size |-> UnitOn(S, q, i - 1)]
        /\ Contents(T, e) = [i \in 1 .. e.size |-> UnitOn(T, q, i - 1)]
    BY <1>1, <1>3, ContentsIs DEF q, r
  <2> QED
    BY <1>2, <2>1
<1>4. CASE ~e.there
  BY <1>4, ContentsIs
<1> QED
  BY <1>3, <1>4

LEMMA ContentsHold ==
  ASSUME NEW S, NEW e \in Entry, Sits(S, e.first, e.size), e.there, NEW i \in 1 .. e.size
  PROVE  Holds(S, e.first, i - 1, Contents(S, e)[i])
<1> DEFINE F == FatOf(S)
           q == Chain(S, e.first)
<1>1. e.size \in Nat /\ e.size > 0 /\ i - 1 \in Nat /\ i \in Nat /\ 0 < i /\ i <= e.size
  BY EntryIs
<1>2. Index(i) = (i - 1) \div PerCluster /\ Index(i) \in Nat /\ Index(e.size) \in Nat
      /\ Index(i) <= Index(e.size)
  BY <1>1, IndexType, IndexGrows DEF Index
<1>3. F \in Fats /\ Linked(F) /\ Heads(F, e.first)
  BY <1>1 DEF Sits
<1>4. PICK c \in Clusters : Leads(F, e.first, Index(i), c)
  <2>1. PICK d \in Clusters : Leads(F, e.first, Index(e.size), d)
    BY <1>1 DEF Sits, Stored
  <2> HIDE DEF F
  <2> QED
    BY <1>2, <1>3, <2>1, LeadsShort
<1>5. q[Index(i)] = c
  <2>1. Walks(q, F, e.first, Longest)
    BY <1>3, EntryIs, ChainIsWalk
  <2> HIDE DEF F, q
  <2>2. Index(i) + 1 <= Longest
    BY <1>2, <1>3, <1>4, LeadsWithin
  <2>3. Index(i) <= Longest
    BY <1>2, <2>2, ClustersFinite
  <2> QED
    BY <1>2, <1>4, <2>1, <2>3, ClustersFinite, WalkLeads
<1>6. Contents(S, e)[i] = At(S, c, i - 1)
  <2>1. Contents(S, e) = [j \in 1 .. e.size |-> UnitOn(S, q, j - 1)]
    BY ContentsIs
  <2>2. Contents(S, e)[i] = UnitOn(S, q, i - 1)
    BY <2>1
  <2> HIDE DEF q
  <2> QED
    BY <1>2, <1>5, <2>2 DEF UnitOn
<1> QED
  BY <1>2, <1>4, <1>6 DEF Holds

LEMMA HoldsOne ==
  ASSUME NEW S, NEW first, NEW i \in Nat, NEW u, NEW v, Holds(S, first, i, u), Holds(S, first, i, v)
  PROVE  u = v
<1>1. i \div PerCluster \in Nat
  BY PlaceIn
<1> QED
  BY <1>1, LeadsOne DEF Holds

(* Files that hold the same units are the same.                             *)
LEMMA ContentsEqual ==
  ASSUME NEW S, NEW d \in Entry, Sits(S, d.first, d.size), d.there,
         NEW T, NEW e \in Entry, Sits(T, e.first, e.size), e.there, d.size = e.size,
         \A i \in Nat : \A u : i < d.size /\ Holds(S, d.first, i, u) => Holds(T, e.first, i, u)
  PROVE  Contents(T, e) = Contents(S, d)
<1>1. \A i \in 1 .. e.size : Contents(T, e)[i] = Contents(S, d)[i]
  <2> TAKE i \in 1 .. e.size
  <2>1. i - 1 \in Nat /\ i - 1 < d.size /\ i \in 1 .. d.size
    BY EntryIs
  <2>2. Holds(S, d.first, i - 1, Contents(S, d)[i])
    BY <2>1, ContentsHold
  <2>3. Holds(T, e.first, i - 1, Contents(S, d)[i])
    BY <2>1, <2>2
  <2>4. Holds(T, e.first, i - 1, Contents(T, e)[i])
    BY ContentsHold
  <2> QED
    BY <2>1, <2>3, <2>4, HoldsOne
<1>2. /\ Contents(S, d) = [i \in 1 .. e.size |-> Contents(S, d)[i]]
      /\ Contents(T, e) = [i \in 1 .. e.size |-> Contents(T, e)[i]]
  BY ContentsIs
<1> QED
  BY <1>1, <1>2

LEMMA ContentsType ==
  ASSUME NEW S, FatOf(S) \in Fats, UnitBlocks(S), NEW e \in Entry, e.there
  PROVE  /\ Contents(S, e) \in Seq(Units) /\ Len(Contents(S, e)) = e.size
         /\ Contents(S, e) # NoName
<1> DEFINE q == Chain(S, e.first)
           s == Contents(S, e)
<1>1. \A i \in 1 .. e.size : UnitOn(S, q, i - 1) \in Units
  <2> TAKE i \in 1 .. e.size
  <2> DEFINE c == q[(i - 1) \div PerCluster]
  <2>1. i - 1 \in Nat
    BY EntryIs
  <2>2. /\ ((i - 1) % PerCluster) \div PerBlock \in 0 .. BlocksPerCluster - 1
        /\ ((i - 1) % PerBlock) + 1 \in 1 .. PerBlock
    BY <2>1, PlaceIn
  <2> HIDE DEF q
  <2>3. CASE c \in Clusters
    <3>1. At(S, c, i - 1) \in Units
      BY <2>2, <2>3 DEF At, UnitBlocks
    <3> QED
      BY <2>3, <3>1 DEF UnitOn
  <2>4. CASE c \notin Clusters
    <3>1. 0 \in Units
      BY Geometry DEF Units
    <3> QED
      BY <2>4, <3>1 DEF UnitOn
  <2> QED
    BY <2>3, <2>4
<1>2. s = [i \in 1 .. e.size |-> UnitOn(S, q, i - 1)]
  BY ContentsIs
<1> HIDE DEF q, s
<1>3. s \in [1 .. e.size -> Units] /\ e.size \in Nat
  BY <1>1, <1>2, EntryIs
<1>4. s \in Seq(Units) /\ Len(s) = e.size
  BY <1>3
<1>5. s # NoName
  <2>1. s \in [1 .. e.size -> Nat]
    BY <1>3 DEF Units
  <2>2. s \in Seq(Nat)
    BY <1>3, <2>1
  <2> QED
    BY <2>2, GeometryAssumption
<1> QED
  BY <1>4, <1>5 DEF s

LEMMA ContentsEmpty ==
  ASSUME NEW S, NEW e, e.there, e.size = 0
  PROVE  Contents(S, e) = <<>>
<1>1. Contents(S, e) = [i \in 1 .. 0 |-> UnitOn(S, Chain(S, e.first), i - 1)]
  BY ContentsIs
<1>2. 1 .. 0 = {}
  OBVIOUS
<1> QED
  BY <1>1, <1>2

Prolonged(S, d, T, e, out) ==
  /\ d \in Entry /\ Sits(S, d.first, d.size) /\ d.there /\ UnitBlocks(S)
  /\ e \in Entry /\ Sits(T, e.first, e.size) /\ e.there /\ UnitBlocks(T)
  /\ out \in Seq(Units) /\ e.size = d.size + Len(out)
  /\ \A i \in Nat : \A u : i < d.size /\ Holds(S, d.first, i, u) => Holds(T, e.first, i, u)
  /\ \A j \in 1 .. Len(out) : Holds(T, e.first, d.size + j - 1, out[j])

LEMMA ContentsLonger ==
  ASSUME NEW S, NEW d, NEW T, NEW e, NEW out, Prolonged(S, d, T, e, out)
  PROVE  Contents(T, e) = Contents(S, d) \o out
<1>0. /\ d \in Entry /\ Sits(S, d.first, d.size) /\ d.there /\ UnitBlocks(S)
      /\ e \in Entry /\ Sits(T, e.first, e.size) /\ e.there /\ UnitBlocks(T)
      /\ out \in Seq(Units) /\ e.size = d.size + Len(out)
      /\ \A i \in Nat : \A u : i < d.size /\ Holds(S, d.first, i, u) => Holds(T, e.first, i, u)
      /\ \A j \in 1 .. Len(out) : Holds(T, e.first, d.size + j - 1, out[j])
  BY DEF Prolonged
<1> DEFINE s == Contents(S, d)
           t == Contents(T, e)
<1>1. /\ s \in Seq(Units) /\ Len(s) = d.size /\ d.size \in Nat
      /\ t \in Seq(Units) /\ Len(t) = e.size /\ e.size \in Nat
  BY <1>0, ContentsType, EntryIs DEF Sits
<1>2. \A i \in 1 .. d.size : t[i] = s[i]
  <2> TAKE i \in 1 .. d.size
  <2>1. i - 1 \in Nat /\ i - 1 < d.size /\ i \in 1 .. e.size
    BY <1>0, <1>1
  <2>2. Holds(S, d.first, i - 1, s[i])
    BY <1>0, ContentsHold
  <2>3. Holds(T, e.first, i - 1, t[i])
    BY <1>0, <2>1, ContentsHold
  <2> HIDE DEF s, t
  <2> QED
    BY <1>0, <2>1, <2>2, <2>3, HoldsOne
<1>3. \A j \in 1 .. Len(out) : t[d.size + j] = out[j]
  <2> TAKE j \in 1 .. Len(out)
  <2>1. d.size + j - 1 \in Nat /\ d.size + j \in 1 .. e.size /\ (d.size + j) - 1 = d.size + j - 1
    <3>1. Len(out) \in Nat /\ e.size = d.size + Len(out) /\ d.size \in Nat
      BY <1>0, <1>1
    <3> QED
      BY <3>1
  <2>2. Holds(T, e.first, (d.size + j) - 1, t[d.size + j])
    BY <1>0, <2>1, ContentsHold
  <2> HIDE DEF s, t
  <2> QED
    BY <1>0, <2>1, <2>2, HoldsOne
<1> HIDE DEF s, t
<1>4. t = s \o out
  <2> DEFINE r == s \o out
  <2>1. r \in Seq(Units) /\ Len(r) = Len(s) + Len(out)
    BY <1>0, <1>1
  <2>2. \A i \in 1 .. Len(r) : t[i] = r[i]
    <3> TAKE i \in 1 .. Len(r)
    <3>1. CASE i <= Len(s)
      BY <1>0, <1>1, <1>2, <2>1, <3>1
    <3>2. CASE i > Len(s)
      <4>1. i - Len(s) \in 1 .. Len(out) /\ d.size + (i - Len(s)) = i
        BY <1>0, <1>1, <2>1, <3>2
      <4>2. t[i] = out[i - Len(s)]
        BY <1>3, <4>1
      <4> QED
        BY <1>0, <1>1, <2>1, <3>2, <4>2
    <3> QED
      BY <1>1, <2>1, <3>1, <3>2
  <2> HIDE DEF r
  <2>3. Len(t) = Len(r) /\ r \in Seq(Units) /\ t \in Seq(Units)
    BY <1>0, <1>1, <2>1
  <2>4. /\ t = [i \in 1 .. Len(r) |-> t[i]]
        /\ r = [i \in 1 .. Len(r) |-> r[i]]
    BY <2>3
  <2>5. t = r
    BY <2>2, <2>4
  <2> QED
    BY <2>5 DEF r
<1> QED
  BY <1>4 DEF s, t
-----------------------------------------------------------------------------
(* A file whose chain is not cut and whose units stay where they are.       *)
LEMMA HoldsKept ==
  ASSUME NEW S, NEW T, NEW e \in Entry, Sits(S, e.first, e.size),
         FatOf(T) \in Fats, Linked(FatOf(T)),
         e.size > 0 => Heads(FatOf(T), e.first),
         \A n \in Nat, c \in Clusters :
           Leads(FatOf(S), e.first, n, c) => Leads(FatOf(T), e.first, n, c),
         \A i \in Nat, c \in Clusters :
           i < e.size /\ Leads(FatOf(S), e.first, i \div PerCluster, c) => At(T, c, i) = At(S, c, i)
  PROVE  /\ Sits(T, e.first, e.size)
         /\ \A i \in Nat : \A u : i < e.size /\ Holds(S, e.first, i, u) => Holds(T, e.first, i, u)
<1>1. Sits(T, e.first, e.size)
  <2>1. e.size > 0 => Index(e.size) \in Nat
    BY EntryIs, IndexType
  <2> QED
    BY <2>1 DEF Sits, Stored
<1>2. \A i \in Nat : i \div PerCluster \in Nat
  BY PlaceIn
<1> QED
  BY <1>1, <1>2 DEF Holds

LEMMA ContentsKept ==
  ASSUME NEW S, NEW T, NEW e \in Entry, Sits(S, e.first, e.size),
         FatOf(T) \in Fats, Linked(FatOf(T)),
         e.size > 0 => Heads(FatOf(T), e.first),
         \A n \in Nat, c \in Clusters :
           Leads(FatOf(S), e.first, n, c) => Leads(FatOf(T), e.first, n, c),
         \A i \in Nat, c \in Clusters :
           i < e.size /\ Leads(FatOf(S), e.first, i \div PerCluster, c) => At(T, c, i) = At(S, c, i)
  PROVE  Contents(T, e) = Contents(S, e)
<1>1. /\ Sits(T, e.first, e.size)
      /\ \A i \in Nat : \A u : i < e.size /\ Holds(S, e.first, i, u) => Holds(T, e.first, i, u)
  BY HoldsKept
<1>2. CASE e.there
  BY <1>1, <1>2, ContentsEqual
<1>3. CASE ~e.there
  BY <1>3, ContentsIs
<1> QED
  BY <1>2, <1>3

(* Data blocks untouched.                                                   *)
LEMMA AtSame ==
  ASSUME NEW S, NEW T, SameData(S, T), NEW c \in Clusters, NEW i \in Nat
  PROVE  At(T, c, i) = At(S, c, i)
<1>1. (i % PerCluster) \div PerBlock \in 0 .. BlocksPerCluster - 1
  BY PlaceIn
<1> QED
  BY <1>1 DEF At, SameData

(* A directory whose entries sit on their chains.                           *)
LEMMA SitsOf ==
  ASSUME NEW S, FatOf(S) \in Fats, Linked(FatOf(S)), NEW D \in [Files -> Entry], NEW x,
         Entries(FatOf(S), D, x), NEW f \in Files, f # x
  PROVE  /\ Sits(S, D[f].first, D[f].size) /\ D[f] \in Entry
         /\ D[f].first # 0 => Heads(FatOf(S), D[f].first)
<1>1. D[f] \in Entry /\ D[f].size \in Nat /\ D[f].first \in {Free} \cup Clusters
  BY EntryIs
<1>2. f \in Files \ {x}
  OBVIOUS
<1>3. D[f].size > 0 => D[f].first # 0
  <2>1. ASSUME D[f].size > 0 PROVE D[f].first # 0
    <3>1. PICK c \in Clusters : Leads(FatOf(S), D[f].first, Index(D[f].size), c)
      BY <1>2, <2>1 DEF Entries, Stored
    <3>2. Index(D[f].size) \in Nat
      BY <1>1, <2>1, IndexType
    <3>3. D[f].first \in Clusters
      BY <3>1, <3>2, LeadsTo
    <3> QED
      BY <3>3, Marks DEF Free
  <2> QED
    BY <2>1
<1> QED
  BY <1>1, <1>2, <1>3 DEF Sits, Entries

LEMMA FatsAre ==
  ASSUME TypeInv
  PROVE  /\ FatOf(Seen) = SeenFat /\ FatOf(card) = CardFat /\ SeenFat \in Fats /\ CardFat \in Fats
         /\ SeenDir \in [Files -> Entry] /\ CardDir \in [Files -> Entry]
  BY TypesAre DEF FatOf, SeenFat, CardFat

LEMMA HeldEntry ==
  ASSUME TypeInv
  PROVE  Held \in [Files -> Entry]
<1>1. \A f \in Files : Held[f] \in Entry
  <2> TAKE f \in Files
  <2>1. file.size \in Units /\ file.first \in {Free} \cup Clusters /\ SeenDir[f] \in Entry
    BY TypesAre, HandleIs DEF TypeInv
  <2>2. [there |-> TRUE, size |-> file.size, first |-> file.first] \in Entry
    BY <2>1 DEF Entry
  <2> QED
    BY <2>1, <2>2 DEF Held
<1> QED
  BY <1>1 DEF Held

(* What is seen of the files is laid out on their chains.                   *)
LEMMA FilesSit ==
  ASSUME Good, NEW f \in Files, ~Unlinking \/ f # gone
  PROVE  /\ Sits(Seen, Held[f].first, Held[f].size) /\ Held[f] \in Entry
         /\ Sits(Seen, SeenDir[f].first, SeenDir[f].size) /\ SeenDir[f] \in Entry
         /\ Held[f].first # 0 => Heads(SeenFat, Held[f].first)
         /\ SeenDir[f].first # 0 => Heads(SeenFat, SeenDir[f].first)
<1> DEFINE x == IF Unlinking THEN gone ELSE NoName
<1>1. /\ TypeInv /\ EntryInv /\ Linked(SeenFat) /\ Entries(SeenFat, Held, x)
  BY DEF Good, SoundInv, SeenChains
<1>2. f # x
  BY NoNameIsNone
<1> HIDE DEF x
<1>3. Entries(SeenFat, SeenDir, x)
  BY <1>1, SeenEntries
<1>4. /\ FatOf(Seen) = SeenFat /\ SeenFat \in Fats /\ SeenDir \in [Files -> Entry]
      /\ Held \in [Files -> Entry]
  BY <1>1, FatsAre, HeldEntry
<1> QED
  BY <1>1, <1>2, <1>3, <1>4, SitsOf

DirtyDir == cache.block = Dir /\ cache.state = "dirty"

LEMMA DirClean ==
  ASSUME TypeInv, ~DirtyDir
  PROVE  CardDir = SeenDir
<1>1. CASE cache.state = "dirty"
  <2>1. cache.block # Dir /\ CardOK /\ CacheOK
    BY <1>1 DEF DirtyDir, TypeInv, StoreOK
  <2>2. Seen[Dir] = card[Dir]
    BY <2>1, SeenIs, BlocksApart
  <2> QED
    BY <2>2 DEF CardDir, SeenDir
<1>2. CASE cache.state # "dirty"
  BY <1>2, SeenIsCard DEF TypeInv, StoreOK, CardDir, SeenDir
<1> QED
  BY <1>1, <1>2

LEMMA ViewIs ==
  ASSUME NEW f \in Files
  PROVE  View(f) = IF gone = f /\ SeenDir[f].there THEN <<>> ELSE Contents(Seen, Held[f])
  BY DEF View, SeenDir, Held
-----------------------------------------------------------------------------
LEMMA ViewIsNext ==
  ASSUME NEW f \in Files
  PROVE  View(f)' = IF gone' = f /\ SeenDir'[f].there THEN <<>> ELSE Contents(Seen', Held'[f])
  BY DEF View, SeenDir, Held

LEMMA CardViewIs ==
  ASSUME NEW f \in Files
  PROVE  /\ CardView(f) = IF gone = f THEN <<>> ELSE Contents(card, CardDir[f])
         /\ CardView(f)' = IF gone' = f THEN <<>> ELSE Contents(card', CardDir'[f])
  BY DEF CardView, CardDir

(* What is to be read of a file does not change when nothing of it does but *)
(* perhaps where an empty file begins.                                      *)
HeldAlike ==
  \A f \in Files :
    \/ Held'[f] = Held[f]
    \/ Held[f].there /\ Held'[f].there /\ Held[f].size = 0 /\ Held'[f].size = 0

LEMMA ViewsAlike ==
  ASSUME gone' = gone, HeldAlike, NEW f \in Files, SeenDir'[f].there = SeenDir[f].there,
         \/ gone = f /\ SeenDir[f].there
         \/ Held[f].there /\ Held[f].size = 0
         \/ Contents(Seen', Held[f]) = Contents(Seen, Held[f])
  PROVE  View(f)' = View(f)
<1>1. CASE gone = f /\ SeenDir[f].there
  BY <1>1, ViewIs, ViewIsNext
<1>2. CASE ~(gone = f /\ SeenDir[f].there)
  <2>1. View(f) = Contents(Seen, Held[f]) /\ View(f)' = Contents(Seen', Held'[f])
    BY <1>2, ViewIs, ViewIsNext
  <2>2. CASE Held[f].there /\ Held[f].size = 0
    <3>1. Held'[f].there /\ Held'[f].size = 0
      BY <2>2 DEF HeldAlike
    <3> QED
      BY <2>1, <2>2, <3>1, ContentsEmpty
  <2>3. CASE ~(Held[f].there /\ Held[f].size = 0)
    <3>1. Held'[f] = Held[f]
      BY <2>3 DEF HeldAlike
    <3> QED
      BY <1>2, <2>1, <2>3, <3>1
  <2> QED
    BY <2>2, <2>3
<1> QED
  BY <1>1, <1>2

Saves ==
  /\ \A f \in Files : View(f)' = View(f)
  /\ \A f \in Files : CardView(f)' = CardView(f) \/ CardView(f)' = View(f)

LEMMA SeenSaves ==
  ASSUME Seen' = Seen, card' = card, gone' = gone, HeldAlike
  PROVE  Saves
<1>1. SeenDir' = SeenDir /\ CardDir' = CardDir
  BY DEF SeenDir, CardDir
<1>2. \A f \in Files : View(f)' = View(f)
  BY <1>1, ViewsAlike
<1>3. \A f \in Files : CardView(f)' = CardView(f)
  BY <1>1, CardViewIs
<1> QED
  BY <1>2, <1>3 DEF Saves
-----------------------------------------------------------------------------
(* What the library keeps of the files, besides the chains of FatInv: what  *)
(* the data blocks hold, the entry against the handle, where in its chain   *)
(* the handle is, and how far the print under way has come.                 *)
UnitsInv == UnitBlocks(card) /\ UnitBlocks(Seen)

(* What the steps of a call are steps of.                                   *)
OpInv ==
  /\ call.at \in Removing => call.op = "remove"
  /\ call.at = "entry" => call.op = "close"
  /\ call.at = "flush" => call.op \in {"open", "close", "remove"}
  /\ call.at \in {"begin", "next", "search", "link", "data"} => call.op = "print"
  /\ call.at = "seek" => call.op \in {"open", "print"}
  /\ call.at = "flush" /\ call.op \in {"open", "remove"} => file = NoHandle
  /\ call.at = "flush" /\ call.op = "close" => file.name # NoName /\ ~file.dirty
  /\ call.op = "print" => call.left > 0

(* The size in the entry of the open file is behind only while close() has  *)
(* it to write.                                                             *)
HandleInv ==
  file.name # NoName =>
    LET e == SeenDir[file.name] IN
    /\ e.there
    /\ e.size = file.size \/ (file.dirty /\ ~DirtyDir)

ThereInv ==
  /\ call.op = "open" /\ call.at = "flush" => SeenDir[call.name].there
  /\ call.at \in Removing => SeenDir[call.name].there
  /\ call.at = "clear" => gone = call.name
  /\ call.at \in {"cleared", "erase"} => SeenDir[call.name].size = 0

(* What the cache has yet to write is no unit the entries on the card count.*)
AgreeInv == \A f \in Files \ {gone} : Contents(Seen, CardDir[f]) = Contents(card, CardDir[f])

(* Where the current cluster is: exactly, unless a call that failed left it *)
(* ahead of the position.                                                   *)
ExactInv ==
  /\ call.at = "data" => /\ Leads(SeenFat, file.first, file.pos \div PerCluster, file.cur)
                         /\ file.pos % PerCluster = 0 => ahead
  /\ call.at \in {"next", "search", "link"} /\ file.cur # 0 =>
       file.pos > 0 /\ Leads(SeenFat, file.first, Index(file.pos), file.cur)
  /\ ~ahead /\ file.cur # 0 /\ file.pos > 0 /\ file.size > 0 /\ Index(file.size) >= Index(file.pos)
       => Leads(SeenFat, file.first, Index(file.pos), file.cur)
  /\ ~ahead /\ file.pos = 0 /\ file.size = 0 => file.cur = 0
  /\ call.at \in {"begin", "seek", "next", "search", "link"} => ~ahead
  /\ file.name = NoName => ~ahead
  /\ call.at = "link" => file.pos % PerCluster = 0
  /\ call.at = "seek" =>
       /\ Seeking(call.n)
       /\ call.n > 0 => file.pos = 0 \/ Index(file.size) < Index(file.pos)

(* What the print under way has stored so far, behind the end of the file.  *)
PendingInv ==
  /\ call.op = "print" /\ call.at \in {"begin", "seek"} => call.left = Len(call.out)
  /\ call.at \in {"next", "search", "link", "data"} =>
       LET k == Len(call.out) - call.left IN
       /\ file.pos = file.size + k
       /\ \A j \in 1 .. k : Holds(Seen, file.first, file.size + j - 1, call.out[j])

KeepInv == UnitsInv /\ OpInv /\ HandleInv /\ ThereInv /\ AgreeInv /\ ExactInv /\ PendingInv
-----------------------------------------------------------------------------
(* Steps that change no block.                                              *)
Rests == Seen' = Seen /\ card' = card /\ gone' = gone /\ (DirtyDir' => DirtyDir)
Stays(g) == g.name = file.name /\ g.size = file.size /\ g.first = file.first /\ g.dirty = file.dirty

LEMMA NoBlockRests ==
  ASSUME UNCHANGED <<card, cache, gone>>
  PROVE  Rests
  BY DEF Rests, Seen, DirtyDir

LEMMA ReadRests ==
  ASSUME Good, Read, ~MustFlush, card' = card, gone' = gone,
         call.at \in {"lookup", "seek", "next", "search"}
  PROVE  Rests
<1>1. StoreOK /\ Wanted \in Blocks
  BY WantedIs, BlocksApart DEF Good, TypeInv
<1>2. Seen' = Seen /\ (cache.state = "dirty" => cache' = cache)
  BY <1>1, ReadKeeps
<1>3. cache' = cache \/ cache'.state = "clean"
  BY DEF Read
<1> QED
  BY <1>2, <1>3 DEF Rests, DirtyDir

LEMMA RestsKeep ==
  ASSUME Rests, KeepInv, Stays(file')
  PROVE  UnitsInv' /\ AgreeInv' /\ HandleInv' /\ Saves
<1>1. SeenDir' = SeenDir /\ CardDir' = CardDir /\ Seen' = Seen /\ card' = card /\ gone' = gone
  BY DEF Rests, SeenDir, CardDir
<1>2. Held' = Held
  BY <1>1 DEF Held, Stays
<1>3. Saves
  <2>1. HeldAlike
    BY <1>2 DEF HeldAlike
  <2> QED
    BY <1>1, <2>1, SeenSaves
<1>4. UnitsInv' /\ AgreeInv'
  BY <1>1 DEF KeepInv, UnitsInv, AgreeInv
<1>5. HandleInv'
  BY <1>1 DEF KeepInv, HandleInv, Stays, Rests
<1> QED
  BY <1>3, <1>4, <1>5

LEMMA NoCallKeeps ==
  ASSUME call' = NoCall
  PROVE  OpInv' /\ ThereInv' /\ PendingInv'
  BY NoCallIs DEF OpInv, ThereInv, PendingInv, Removing

LEMMA PrintKeeps ==
  ASSUME call'.op = "print", call'.left > 0,
         call'.at \in {"begin", "seek", "next", "search", "link", "data"}
  PROVE  OpInv' /\ ThereInv'
  BY DEF OpInv, ThereInv, Removing

(* The steps of a print up to the block of data.                            *)
LEMMA PrintOn ==
  ASSUME KeepInv, Rests, Stays(file'), Same(call'), call'.left = call.left,
         call.left \in Nat, call.out \in Seq(Units), file.size \in Nat,
         call.op = "print", call'.at \in {"seek", "next", "search", "data"},
         \/ /\ call.at \in {"begin", "seek"}
            /\ call'.at # "seek" => file'.pos = file.size
         \/ /\ call.at \in {"next", "search"} /\ call'.at # "seek" /\ file'.pos = file.pos
  PROVE  OpInv' /\ ThereInv' /\ PendingInv'
<1>1. OpInv /\ PendingInv /\ call'.op = "print" /\ call'.out = call.out /\ call.left > 0
  BY DEF KeepInv, Same, OpInv
<1>2. OpInv' /\ ThereInv'
  BY <1>1, PrintKeeps
<1>3. Seen' = Seen /\ file'.first = file.first /\ file'.size = file.size
  BY DEF Rests, Stays
<1>4. CASE call'.at = "seek"
  BY <1>1, <1>2, <1>4 DEF PendingInv
<1>5. CASE call'.at # "seek" /\ call.at \in {"begin", "seek"}
  <2> DEFINE k == Len(call'.out) - call'.left
  <2>1. k = 0 /\ file'.pos = file'.size + k
    BY <1>1, <1>3, <1>5 DEF PendingInv
  <2> HIDE DEF k
  <2>2. \A j \in 1 .. k : Holds(Seen', file'.first, file'.size + j - 1, call'.out[j])
    BY <2>1
  <2> QED
    BY <1>2, <1>5, <2>1, <2>2 DEF PendingInv, k
<1>6. CASE call'.at # "seek" /\ call.at \in {"next", "search"}
  BY <1>1, <1>2, <1>3, <1>6 DEF PendingInv
<1> QED
  BY <1>2, <1>4, <1>5, <1>6
-----------------------------------------------------------------------------
(* The handle through a step that leaves it, and without a file.            *)
LEMMA ExactRests ==
  ASSUME ExactInv, SeenFat' = SeenFat, Stays(file'), file'.pos = file.pos, file'.cur = file.cur,
         ahead' = ahead, call'.at \notin {"seek", "next", "search", "link", "data"},
         call'.at = "begin" => ~ahead
  PROVE  ExactInv'
  BY DEF ExactInv, Stays

LEMMA ExactNone ==
  ASSUME file'.cur = 0, ~ahead', call'.at \notin {"seek", "next", "search", "link", "data"}
  PROVE  ExactInv'
  BY DEF ExactInv

(* The calls the sketches make.                                             *)
LEMMA OpenKept ==
  ASSUME Good, KeepInv, NEW f \in Files, Open(f) \/ Remove(f)
  PROVE  KeepInv' /\ Saves
<1>1. PICK op \in {"open", "remove"} : call' = Begun(op, "lookup", f, <<>>, 0)
  BY DEF Open, Remove, NoCall, Begun
<1>2. UNCHANGED <<card, cache, start, file, past>>
  BY DEF Open, Remove
<1>3. call'.op = op /\ call'.at = "lookup"
  BY <1>1 DEF Begun
<1>4. Rests /\ Stays(file')
  BY <1>2, NoBlockRests DEF Stays, past
<1>5. OpInv' /\ ThereInv' /\ PendingInv'
  BY <1>3 DEF OpInv, ThereInv, PendingInv, Removing
<1>6. ExactInv'
  <2>1. SeenFat' = SeenFat /\ ExactInv
    BY <1>4, SeenKeeps DEF Rests, SeenKept, KeepInv
  <2> QED
    BY <1>2, <1>3, <1>4, <2>1, ExactRests DEF past
<1> QED
  BY <1>4, <1>5, <1>6, RestsKeep DEF KeepInv

LEMMA WriteKept ==
  ASSUME Good, KeepInv, NEW k \in 1 .. MaxPrint, Write(k), ~broken'
  PROVE  KeepInv' /\ Saves
<1> DEFINE out == [i \in 1 .. k |-> printed + i]
<1>1. /\ UNCHANGED <<card, cache, start, file, ahead, gone, faults, losses>> /\ ~ahead
      /\ call' = Begun("print", "begin", NoName, out, k)
  BY DEF Write, NoCall, Begun
<1>2. k \in Nat /\ k > 0
  BY Geometry
<1>3. Len(out) = k
  <2>1. out \in [1 .. k -> {printed + i : i \in 1 .. k}]
    OBVIOUS
  <2>2. out \in Seq({printed + i : i \in 1 .. k})
    BY <1>2, <2>1
  <2> QED
    BY <1>2, <2>1, <2>2
<1> HIDE DEF out
<1>4. call'.op = "print" /\ call'.at = "begin" /\ call'.left = k /\ call'.out = out
  BY <1>1 DEF Begun
<1>5. Rests /\ Stays(file')
  BY <1>1, NoBlockRests DEF Stays
<1>6. OpInv' /\ ThereInv'
  BY <1>2, <1>4, PrintKeeps
<1>7. PendingInv'
  BY <1>3, <1>4 DEF PendingInv
<1>8. ExactInv'
  <2>1. SeenFat' = SeenFat /\ ExactInv
    BY <1>5, SeenKeeps DEF Rests, SeenKept, KeepInv
  <2> QED
    BY <1>1, <1>4, <1>5, <2>1, ExactRests
<1> QED
  BY <1>5, <1>6, <1>7, <1>8, RestsKeep DEF KeepInv

LEMMA CloseKept ==
  ASSUME Good, KeepInv, Close
  PROVE  KeepInv' /\ Saves
<1>1. PICK at \in {"entry", "flush"} :
        /\ at = IF file.dirty THEN "entry" ELSE "flush"
        /\ call' = Begun("close", at, NoName, <<>>, 0)
  BY DEF Close, NoCall, Begun
<1>2. UNCHANGED <<card, cache, start, file, past>> /\ file.name # NoName
  BY DEF Close, Good, WorkInv
<1>3. call'.op = "close" /\ call'.at = at
  BY <1>1 DEF Begun
<1>4. Rests /\ Stays(file')
  BY <1>2, NoBlockRests DEF Stays, past
<1>5. OpInv' /\ ThereInv' /\ PendingInv'
  BY <1>1, <1>2, <1>3 DEF OpInv, ThereInv, PendingInv, Removing
<1>6. ExactInv'
  <2>1. SeenFat' = SeenFat /\ ExactInv
    BY <1>4, SeenKeeps DEF Rests, SeenKept, KeepInv
  <2> QED
    BY <1>2, <1>3, <1>4, <2>1, ExactRests DEF past
<1> QED
  BY <1>4, <1>5, <1>6, RestsKeep DEF KeepInv
-----------------------------------------------------------------------------
(* What WriteOn and Seek do.                                                *)
LEMMA WriteOnIs ==
  ASSUME CallOK, start \in 2 .. LastCluster + 1, NEW f \in Handles, WriteOn(f)
  PROVE  /\ file'.name = f.name /\ file'.size = f.size /\ file'.first = f.first
         /\ file'.pos = f.pos /\ file'.dirty = f.dirty /\ Same(call') /\ call'.left = call.left
         /\ \/ /\ f.pos % PerCluster # 0
               /\ file'.cur = f.cur /\ call'.at = "data" /\ ahead' = ahead
            \/ /\ f.pos % PerCluster = 0 /\ f.cur # 0
               /\ file'.cur = f.cur /\ call'.at = "next" /\ ahead' = ahead
            \/ /\ f.pos % PerCluster = 0 /\ f.cur = 0 /\ f.first # 0
               /\ file'.cur = f.first /\ call'.at = "data" /\ ahead' = TRUE
            \/ /\ f.pos % PerCluster = 0 /\ f.cur = 0 /\ f.first = 0
               /\ file'.cur = f.cur /\ call'.at = "search" /\ ahead' = ahead
<1>0. {"data", "next", "search"} \subseteq Places /\ f.first \in {Free} \cup Clusters /\ 0 \in Nat
  BY HandleIs DEF Places
<1>1. CASE f.pos % PerCluster # 0 /\ file' = f /\ Go("data") /\ ahead' = ahead
  <2>1. Same(call') /\ call'.left = call.left /\ call'.at = "data"
    BY <1>0, <1>1, GoesTo DEF Go
  <2> QED
    BY <1>1, <2>1
<1>2. CASE /\ f.pos % PerCluster = 0 /\ f.cur # 0 /\ file' = f /\ Go("next") /\ ahead' = ahead
  <2>1. Same(call') /\ call'.left = call.left /\ call'.at = "next"
    BY <1>0, <1>2, GoesTo DEF Go
  <2> QED
    BY <1>2, <2>1
<1>3. CASE /\ f.pos % PerCluster = 0 /\ f.cur = 0 /\ f.first # 0
           /\ file' = [f EXCEPT !.cur = f.first] /\ Go("data") /\ ahead' = TRUE
  <2>1. Same(call') /\ call'.left = call.left /\ call'.at = "data"
    BY <1>0, <1>3, GoesTo DEF Go
  <2>2. /\ file'.cur = f.first /\ file'.name = f.name /\ file'.size = f.size
        /\ file'.pos = f.pos /\ file'.first = f.first /\ file'.dirty = f.dirty
    BY <1>0, <1>3, AtCluster
  <2> QED
    BY <1>3, <2>1, <2>2
<1>4. CASE /\ f.pos % PerCluster = 0 /\ f.cur = 0 /\ f.first = 0 /\ file' = f /\ ahead' = ahead
           /\ call' = [call EXCEPT !.at = "search", !.c = Wrap(start), !.n = 0]
  <2>1. Wrap(start) \in Nat
    BY WrapIs, Marks
  <2>2. Same(call') /\ call'.left = call.left /\ call'.at = "search"
    BY <1>0, <1>4, <2>1, GoesSearching
  <2> QED
    BY <1>4, <2>2
<1> QED
  BY <1>1, <1>2, <1>3, <1>4 DEF WriteOn

LEMMA SeekIs ==
  ASSUME CallOK, NEW f \in Handles, f.size > 0, f.pos = 0 \/ f.pos >= f.size, Seek(f)
  PROVE  /\ file'.name = f.name /\ file'.size = f.size /\ file'.first = f.first
         /\ file'.pos = f.pos /\ file'.dirty = f.dirty
         /\ Same(call') /\ call'.left = call.left /\ call'.at = "seek"
         /\ \/ /\ f.pos = 0 \/ Index(f.size) < Index(f.pos)
               /\ file'.cur = f.first /\ call'.n = Index(f.size)
            \/ /\ f.pos > 0 /\ Index(f.size) = Index(f.pos)
               /\ file'.cur = f.cur /\ call'.n = 0
<1>0. "seek" \in Places /\ f.first \in {Free} \cup Clusters /\ f.size \in Nat /\ f.pos \in Nat
      /\ 0 \in Nat
  BY HandleIs, Geometry DEF Places, Units
<1>1. NewIndex(f) = Index(f.size) /\ OldIndex(f) = Index(f.pos) /\ Index(f.size) \in Nat
  BY <1>0, IndexType DEF NewIndex, OldIndex, Index
<1>2. CASE FromFirst(f)
  <2>1. /\ file' = [f EXCEPT !.cur = f.first]
        /\ call' = [call EXCEPT !.at = "seek", !.n = Index(f.size)]
    BY <1>1, <1>2 DEF Seek
  <2>2. /\ file'.cur = f.first /\ file'.name = f.name /\ file'.size = f.size
        /\ file'.pos = f.pos /\ file'.first = f.first /\ file'.dirty = f.dirty
    BY <1>0, <2>1, AtCluster
  <2>3. Same(call') /\ call'.left = call.left /\ call'.at = "seek" /\ call'.n = Index(f.size)
    BY <1>0, <1>1, <2>1, GoesSeeking
  <2> QED
    BY <1>1, <1>2, <2>2, <2>3 DEF FromFirst
<1>3. CASE ~FromFirst(f)
  <2>1. f.pos > 0 /\ Index(f.pos) \in Nat /\ f.pos >= f.size
    BY <1>0, <1>3, IndexType DEF FromFirst
  <2>2. Index(f.size) = Index(f.pos)
    <3>1. Index(f.size) <= Index(f.pos) /\ ~(Index(f.size) < Index(f.pos))
      BY <1>0, <1>1, <1>3, <2>1, IndexGrows DEF FromFirst
    <3> QED
      BY <1>1, <2>1, <3>1
  <2>3. file' = f /\ call' = [call EXCEPT !.at = "seek", !.n = 0]
    <3>1. NewIndex(f) - OldIndex(f) = 0
      BY <1>1, <2>1, <2>2
    <3> QED
      BY <1>3, <3>1 DEF Seek
  <2>4. Same(call') /\ call'.left = call.left /\ call'.at = "seek" /\ call'.n = 0
    BY <1>0, <2>3, GoesSeeking
  <2> QED
    BY <2>1, <2>2, <2>3, <2>4
<1> QED
  BY <1>2, <1>3
-----------------------------------------------------------------------------
(* The handle through WriteOn and Seek.                                     *)
LEMMA ExactOn ==
  ASSUME Good, NEW f \in Handles, WriteOn(f), SeenFat' = SeenFat, f.pos = f.size, ~ahead,
         f.name # NoName,
         f.size > 0 => f.cur # 0 /\ Leads(SeenFat, f.first, Index(f.size), f.cur),
         f.size = 0 => f.cur = 0
  PROVE  ExactInv'
<1>0. /\ CallOK /\ start \in 2 .. LastCluster + 1 /\ SeenFat \in Fats /\ f.size \in Nat
      /\ f.first \in {Free} \cup Clusters /\ PerCluster \in Nat \ {0}
  BY TypesAre, HandleIs, Geometry DEF Good, TypeInv, PastOK, Units
<1> DEFINE g == file'
           at == call'.at
<1>1. /\ g.name = f.name /\ g.size = f.size /\ g.first = f.first /\ g.pos = f.size
      /\ \/ f.size % PerCluster # 0 /\ g.cur = f.cur /\ at = "data" /\ ahead' = ahead
         \/ f.size % PerCluster = 0 /\ f.cur # 0 /\ g.cur = f.cur /\ at = "next" /\ ahead' = ahead
         \/ /\ f.size % PerCluster = 0 /\ f.cur = 0 /\ f.first # 0
            /\ g.cur = f.first /\ at = "data" /\ ahead' = TRUE
         \/ /\ f.size % PerCluster = 0 /\ f.cur = 0 /\ f.first = 0
            /\ g.cur = f.cur /\ at = "search" /\ ahead' = ahead
  BY <1>0, WriteOnIs
<1> HIDE DEF g, at
<1>2. CASE f.size % PerCluster # 0 /\ g.cur = f.cur /\ at = "data" /\ ahead' = ahead
  <2>1. f.size > 0 /\ f.size \div PerCluster = Index(f.size)
    BY <1>0, <1>2, IndexIsInside
  <2> QED
    BY <1>1, <1>2, <2>1 DEF ExactInv, g, at
<1>3. CASE f.size % PerCluster = 0 /\ f.cur # 0 /\ g.cur = f.cur /\ at = "next" /\ ahead' = ahead
  <2>1. f.size > 0
    BY <1>0, <1>3
  <2> QED
    BY <1>1, <1>3, <2>1 DEF ExactInv, g, at
<1>4. CASE /\ f.size % PerCluster = 0 /\ f.cur = 0 /\ f.first # 0
           /\ g.cur = f.first /\ at = "data" /\ ahead' = TRUE
  <2>1. f.size = 0 /\ f.first \in Clusters
    BY <1>0, <1>4 DEF Free
  <2>2. 0 \div PerCluster = 0
    BY <1>0
  <2>3. Leads(SeenFat, f.first, 0, f.first)
    BY <1>0, <2>1, LeadsStart
  <2> QED
    BY <1>1, <1>4, <2>1, <2>2, <2>3 DEF ExactInv, g, at
<1>5. CASE /\ f.size % PerCluster = 0 /\ f.cur = 0 /\ f.first = 0
           /\ g.cur = f.cur /\ at = "search" /\ ahead' = ahead
  BY <1>1, <1>5 DEF ExactInv, g, at
<1> QED
  BY <1>1, <1>2, <1>3, <1>4, <1>5

LEMMA ExactSeek ==
  ASSUME Good, NEW f \in Handles, f.size > 0, f.pos = 0 \/ f.pos >= f.size, Seek(f),
         Stored(SeenFat, f.first, f.size), SeenFat' = SeenFat, ~ahead, ahead' = ahead,
         f.name # NoName,
         f.pos > 0 /\ Index(f.size) = Index(f.pos) => Leads(SeenFat, f.first, Index(f.pos), f.cur)
  PROVE  ExactInv'
<1> DEFINE m == Index(f.size)
           g == file'
           n == call'.n
<1>0. CallOK /\ f.size \in Nat /\ f.pos \in Nat /\ m \in Nat /\ SeenFat \in Fats
  BY HandleIs, TypesAre, IndexType, Geometry DEF Good, TypeInv, Units
<1>1. /\ g.name = f.name /\ g.size = f.size /\ g.first = f.first
      /\ g.pos = f.pos /\ call'.at = "seek"
      /\ \/ (f.pos = 0 \/ m < Index(f.pos)) /\ g.cur = f.first /\ n = m
         \/ f.pos > 0 /\ m = Index(f.pos) /\ g.cur = f.cur /\ n = 0
  BY <1>0, SeekIs
<1>2. PICK c \in Clusters : Leads(SeenFat, f.first, m, c)
  BY DEF Stored
<1>3. PICK p \in [0 .. m -> Clusters] :
        p[0] = f.first /\ p[m] = c /\ \A i \in 0 .. m - 1 : SeenFat[p[i]] = p[i + 1]
  BY <1>2 DEF Leads
<1>6. Index(file'.size) = m /\ call'.n = n /\ file' = g
  BY <1>1
<1> HIDE DEF m, g, n
<1>4. CASE (f.pos = 0 \/ m < Index(f.pos)) /\ g.cur = f.first /\ n = m
  <2>1. m - n = 0 /\ n <= m
    BY <1>0, <1>4
  <2>4. p[0] = g.first /\ p[m - n] = g.cur
    BY <1>1, <1>3, <1>4, <2>1
  <2>2. Seeking(call.n)'
    BY <1>3, <1>6, <2>1, <2>4 DEF Seeking
  <2>3. f.pos > 0 => Index(f.pos) \in Nat
    BY <1>0, IndexType
  <2> QED
    BY <1>0, <1>1, <1>4, <2>2, <2>3 DEF ExactInv, g, n, m
<1>5. CASE f.pos > 0 /\ m = Index(f.pos) /\ g.cur = f.cur /\ n = 0
  <2>1. f.cur = c
    BY <1>0, <1>2, <1>5, LeadsOne DEF m
  <2>2. m - n = m /\ n <= m
    BY <1>0, <1>5
  <2>4. p[0] = g.first /\ p[m - n] = g.cur
    BY <1>1, <1>3, <1>5, <2>1, <2>2
  <2>3. Seeking(call.n)'
    BY <1>3, <1>6, <2>2, <2>4 DEF Seeking
  <2> QED
    BY <1>0, <1>1, <1>5, <2>3 DEF ExactInv, g, n, m
<1> QED
  BY <1>1, <1>4, <1>5

LEMMA BeginKept ==
  ASSUME Good, KeepInv, Begin
  PROVE  KeepInv' /\ Saves
<1>0. /\ call.at = "begin" /\ UNCHANGED <<card, cache, start, rest>>
  BY DEF Begin, rest
<1>1. /\ file.name # NoName /\ file \in Handles /\ file.pos \in Nat /\ file.size \in Nat
      /\ CursorInv /\ file.size \in Units /\ 0 \in {Free} \cup Clusters
      /\ file.cur \in {Free} \cup Clusters /\ CallOK /\ start \in 2 .. LastCluster + 1
      /\ call.left \in Nat /\ call.out \in Seq(Units) /\ ~Unlinking
  BY <1>0, TypesAre, HandleIs, CallIs
     DEF Good, WorkInv, SoundInv, TypeInv, Free, PastOK, Unlinking
<1>2. Rests
  BY <1>0, NoBlockRests DEF rest
<1>3. SeenFat' = SeenFat
  BY <1>2, SeenKeeps DEF Rests, SeenKept
<1>4. ExactInv /\ ~ahead /\ call.op = "print"
  BY <1>0 DEF KeepInv, ExactInv, OpInv
<1>5. CASE file.pos # file.size /\ file.size # 0
  <2>1. Seek(file) /\ ahead' = ahead /\ file.size > 0
    BY <1>1, <1>5 DEF Begin
  <2>2. file.pos = 0 \/ file.pos >= file.size
    BY <1>1 DEF CursorInv
  <2>3. Stays(file') /\ Same(call') /\ call'.left = call.left /\ call'.at = "seek"
    BY <1>1, <2>1, <2>2, SeekIs DEF Stays
  <2>4. Stored(SeenFat, file.first, file.size)
    BY <1>1, OpenFileStored
  <2>5. ASSUME file.pos > 0, Index(file.size) = Index(file.pos)
        PROVE  Leads(SeenFat, file.first, Index(file.pos), file.cur)
    <3>1. file.cur # 0 /\ Index(file.pos) \in Nat
      BY <1>1, <2>5, IndexType DEF CursorInv
    <3> QED
      BY <1>4, <2>1, <2>5, <3>1 DEF ExactInv
  <2>6. ExactInv'
    BY <1>1, <1>3, <1>4, <2>1, <2>2, <2>4, <2>5, ExactSeek
  <2>7. OpInv' /\ ThereInv' /\ PendingInv'
    BY <1>0, <1>1, <1>2, <1>4, <2>3, PrintOn
  <2> QED
    BY <1>2, <2>3, <2>6, <2>7, RestsKeep DEF KeepInv
<1>6. CASE ~(file.pos # file.size /\ file.size # 0)
  <2> DEFINE c == IF file.pos # file.size THEN 0 ELSE file.cur
  <2>0. PICK f : f = [file EXCEPT !.pos = file.size, !.cur = c]
    OBVIOUS
  <2>1. WriteOn(f)
    BY <1>6, <2>0 DEF Begin
  <2>2. c \in {Free} \cup Clusters
    BY <1>1
  <2>3. /\ file.size = 0 => c = 0
        /\ file.size > 0 => c # 0 /\ Leads(SeenFat, file.first, Index(file.size), c)
    <3>1. CASE file.size = 0
      BY <1>1, <1>4, <3>1 DEF ExactInv
    <3>2. CASE file.size > 0
      <4>1. file.pos = file.size /\ file.cur # 0
        BY <1>1, <1>6, <3>2 DEF CursorInv
      <4>2. Index(file.size) \in Nat
        BY <1>1, <3>2, IndexType
      <4> QED
        BY <1>4, <3>2, <4>1, <4>2 DEF ExactInv
    <3> QED
      BY <1>1, <3>1, <3>2
  <2> HIDE DEF c
  <2>4. /\ f \in Handles /\ f.pos = file.size /\ f.cur = c /\ f.name = file.name
        /\ f.size = file.size /\ f.first = file.first /\ f.dirty = file.dirty
    BY <1>1, <2>0, <2>2 DEF Handles
  <2>5. /\ Stays(file') /\ file'.pos = file.size /\ Same(call') /\ call'.left = call.left
        /\ call'.at \in {"next", "search", "data"}
    BY <1>1, <2>1, <2>4, WriteOnIs DEF Stays
  <2>6. ExactInv'
    BY <1>1, <1>3, <1>4, <2>1, <2>3, <2>4, ExactOn
  <2>7. OpInv' /\ ThereInv' /\ PendingInv'
    BY <1>0, <1>1, <1>2, <1>4, <2>5, PrintOn
  <2> QED
    BY <1>2, <2>5, <2>6, <2>7, RestsKeep DEF KeepInv
<1> QED
  BY <1>5, <1>6

LEMMA SeekEndKept ==
  ASSUME Good, KeepInv, SeekEnd
  PROVE  KeepInv' /\ Saves
<1> DEFINE m == Index(file.size)
<1>0. call.at = "seek" /\ call.n = 0 /\ UNCHANGED <<card, cache, start, rest>>
  BY DEF SeekEnd, rest
<1>1. /\ SeenFat \in Fats /\ file.size \in Nat /\ file.size \in Units
      /\ file \in Handles /\ CallOK /\ call.left \in Nat /\ file.name # NoName
      /\ file.size > 0 /\ file.cur \in Clusters /\ start \in 2 .. LastCluster + 1
      /\ call.out \in Seq(Units)
  BY <1>0, TypesAre, HandleIs, CallIs, WantedIs
     DEF Good, SoundInv, TypeInv, WorkInv, SeekInv, PastOK
<1>2. Rests
  BY <1>0, NoBlockRests DEF rest
<1>3. SeenFat' = SeenFat
  BY <1>2, SeenKeeps DEF Rests, SeenKept
<1>4. Seeking(0) /\ ~ahead /\ call.op \in {"open", "print"}
  BY <1>0 DEF KeepInv, ExactInv, OpInv
<1>5. Leads(SeenFat, file.first, m, file.cur)
  <2>1. m \in Nat /\ m - 0 = m
    BY <1>1, IndexType
  <2> HIDE DEF m
  <2>2. PICK p \in [0 .. m -> Clusters] :
          /\ p[0] = file.first /\ p[m - 0] = file.cur
          /\ \A i \in 0 .. m - 1 : SeenFat[p[i]] = p[i + 1]
    BY <1>4 DEF Seeking, m
  <2> QED
    BY <2>1, <2>2 DEF Leads
<1> HIDE DEF m
<1>6. PICK f : f = [file EXCEPT !.pos = file.size]
  OBVIOUS
<1>7. /\ f \in Handles /\ f.pos = file.size /\ f.cur = file.cur /\ f.name = file.name
      /\ f.size = file.size /\ f.first = file.first /\ f.dirty = file.dirty
  BY <1>1, <1>6, AtPosition
<1>8. f.cur # 0
  BY <1>1, <1>7, Marks DEF Free
<1>9. CASE call.op = "open"
  <2>1. file' = f /\ call' = NoCall /\ ahead' = ahead
    BY <1>6, <1>9 DEF SeekEnd
  <2>2. Stays(file')
    BY <1>7, <2>1 DEF Stays
  <2>3. ExactInv'
    BY <1>1, <1>3, <1>4, <1>5, <1>7, <1>8, <2>1, NoCallIs DEF ExactInv, m
  <2> QED
    BY <1>2, <2>1, <2>2, <2>3, NoCallKeeps, RestsKeep DEF KeepInv
<1>10. CASE call.op # "open"
  <2>1. WriteOn(f)
    BY <1>6, <1>10 DEF SeekEnd
  <2>2. /\ Stays(file') /\ file'.pos = file.size /\ Same(call') /\ call'.left = call.left
        /\ call'.at \in {"next", "search", "data"}
    BY <1>1, <1>7, <2>1, WriteOnIs DEF Stays
  <2>3. ExactInv'
    BY <1>1, <1>3, <1>4, <1>5, <1>7, <1>8, <2>1, ExactOn DEF m
  <2>4. OpInv' /\ ThereInv' /\ PendingInv'
    BY <1>0, <1>1, <1>2, <1>4, <1>10, <2>2, PrintOn
  <2> QED
    BY <1>2, <2>2, <2>3, <2>4, RestsKeep DEF KeepInv
<1> QED
  BY <1>9, <1>10
-----------------------------------------------------------------------------
(* The steps of a call that read.                                           *)
LEMMA SeekStepKept ==
  ASSUME Good, KeepInv, SeekStep
  PROVE  KeepInv' /\ Saves
<1> DEFINE m == Index(file.size)
           k == call.n
           d == SeenFat[file.cur]
<1>0. /\ call.at = "seek" /\ k > 0 /\ ~MustFlush /\ Read /\ card' = card /\ gone' = gone
      /\ call' = [call EXCEPT !.n = call.n - 1] /\ ahead' = ahead
      /\ file' = [file EXCEPT !.cur = Value[file.cur]]
  BY DEF SeekStep, Ready, past
<1>1. /\ SeenFat \in Fats /\ file.size \in Nat /\ k \in Nat /\ file.pos \in Nat
      /\ file \in Handles /\ CallOK /\ call.left \in Nat /\ file.name # NoName
      /\ file.size > 0 /\ call.out \in Seq(Units) /\ Value[file.cur] = d
  BY <1>0, TypesAre, CallIs, ReadIs DEF Good, SoundInv, TypeInv, WorkInv, SeekInv
<1>2. Rests
  BY <1>0, ReadRests
<1>3. SeenFat' = SeenFat
  BY <1>2, SeenKeeps DEF Rests, SeenKept
<1>4. Seeking(k) /\ ~ahead /\ call.op \in {"open", "print"}
      /\ (file.pos = 0 \/ Index(file.size) < Index(file.pos))
  BY <1>0 DEF KeepInv, ExactInv, OpInv
<1>5. m \in Nat
  BY <1>1, IndexType
<1>6. PICK p \in [0 .. m -> Clusters] :
        /\ k <= m /\ p[0] = file.first /\ p[m - k] = file.cur
        /\ \A i \in 0 .. m - 1 : SeenFat[p[i]] = p[i + 1]
  <2> HIDE DEF k
  <2> QED
    BY <1>4 DEF Seeking
<1> HIDE DEF m, d, k
<1>7. PICK j \in Nat : j = k - 1
  BY <1>0, <1>1
<1>8. d \in Clusters /\ d = p[m - j] /\ j <= m
  <2>1. PICK i : i = m - k
    OBVIOUS
  <2>2. i \in 0 .. m - 1 /\ i + 1 = m - j /\ i + 1 \in 0 .. m /\ j <= m
    BY <1>0, <1>1, <1>5, <1>6, <1>7, <2>1
  <2>3. p[i] = file.cur /\ SeenFat[p[i]] = p[i + 1] /\ p[i + 1] \in Clusters
    BY <1>6, <2>1, <2>2
  <2> QED
    BY <2>2, <2>3 DEF d
<1>9. /\ file'.cur = d /\ file'.pos = file.pos /\ Stays(file')
  BY <1>0, <1>1, <1>8, AtCluster DEF Stays
<1>10. Same(call') /\ call'.at = "seek" /\ call'.left = call.left /\ call'.n = j
  BY <1>0, <1>1, <1>7, GoesOn DEF k
<1>11. ExactInv'
  <2>1. Index(file'.size) = m
    BY <1>9 DEF Stays, m
  <2>2. p[m - j] = file'.cur /\ p[0] = file'.first
    BY <1>6, <1>8, <1>9 DEF Stays
  <2>3. Seeking(call.n)'
    BY <1>3, <1>6, <1>8, <1>10, <2>1, <2>2 DEF Seeking
  <2>4. file'.name = file.name /\ file'.size = file.size
    BY <1>9 DEF Stays
  <2>5. file'.pos = 0 \/ (Index(file'.size) < Index(file'.pos) /\ Index(file'.pos) \in Nat)
    <3>1. file.pos = 0 \/ Index(file.pos) \in Nat
      BY <1>1, IndexType
    <3> QED
      BY <1>4, <1>9, <2>4, <3>1
  <2>6. Index(file'.size) \in Nat
    BY <1>5, <2>1
  <2> QED
    BY <1>0, <1>1, <1>4, <1>9, <1>10, <2>3, <2>4, <2>5, <2>6 DEF ExactInv
<1>12. OpInv' /\ ThereInv' /\ PendingInv'
  <2>1. CASE call.op = "print"
    BY <1>0, <1>1, <1>2, <1>9, <1>10, <2>1, PrintOn
  <2>2. CASE call.op = "open"
    BY <1>10, <2>2 DEF OpInv, ThereInv, PendingInv, Same, Removing
  <2> QED
    BY <1>4, <2>1, <2>2
<1> QED
  BY <1>2, <1>9, <1>11, <1>12, RestsKeep DEF KeepInv

LEMMA NextClusterKept ==
  ASSUME Good, Good', KeepInv, NextCluster
  PROVE  KeepInv' /\ Saves
<1> DEFINE d == SeenFat[file.cur]
<1>0. /\ call.at = "next" /\ ~MustFlush /\ Read /\ UNCHANGED <<card, start, rest>>
      /\ gone' = gone
  BY DEF NextCluster, Ready, rest
<1>1. /\ CursorInv /\ SeenFat \in Fats /\ file.size \in Nat /\ file.pos \in Nat
      /\ file \in Handles /\ CallOK /\ call.left \in Nat /\ call.out \in Seq(Units)
      /\ file.cur \in Clusters /\ file.cur # 0 /\ PerCluster \in Nat \ {0}
      /\ {"search", "data"} \subseteq Places /\ Value[file.cur] = d /\ file.pos % PerCluster = 0
      /\ file.name # NoName
  BY <1>0, TypesAre, CallIs, WantedIs, ReadIs, Geometry, Marks
     DEF Good, SoundInv, TypeInv, WorkInv, Places, Free, CursorInv
<1>2. Rests
  BY <1>0, ReadRests
<1>3. SeenFat' = SeenFat
  BY <1>2, SeenKeeps DEF Rests, SeenKept
<1>4. /\ ~ahead /\ call.op = "print" /\ file.pos > 0
      /\ Leads(SeenFat, file.first, Index(file.pos), file.cur)
  BY <1>0, <1>1 DEF KeepInv, ExactInv, OpInv
<1>5. CASE d = EOC
  <2>1. file' = file /\ call' = [call EXCEPT !.at = "search", !.c = Wrap(file.cur + 1), !.n = 0]
        /\ ahead' = ahead
    BY <1>1, <1>5 DEF NextCluster
  <2>2. Wrap(file.cur + 1) \in Nat /\ 0 \in Nat
    <3>1. file.cur + 1 \in 2 .. LastCluster + 1
      BY <1>1, Geometry DEF Clusters
    <3> QED
      BY <3>1, WrapIs, Marks
  <2>3. Same(call') /\ call'.at = "search" /\ call'.left = call.left
    BY <1>1, <2>1, <2>2, GoesSearching
  <2>4. Stays(file')
    BY <2>1 DEF Stays
  <2>5. OpInv' /\ ThereInv' /\ PendingInv'
    BY <1>0, <1>1, <1>2, <1>4, <2>1, <2>3, <2>4, PrintOn
  <2>6. ExactInv'
    BY <1>0, <1>3, <1>4, <2>1, <2>3 DEF KeepInv, ExactInv
  <2> QED
    BY <1>2, <2>4, <2>5, <2>6, RestsKeep DEF KeepInv
<1>6. CASE d # EOC
  <2>1. file' = [file EXCEPT !.cur = d] /\ call' = [call EXCEPT !.at = "data"] /\ ahead' = TRUE
    BY <1>1, <1>6 DEF NextCluster, Go
  <2>2. d \in {Free} \cup Clusters /\ d \in FatValues
    BY <1>1, <1>6 DEF Fats, FatValues
  <2> HIDE DEF d
  <2>3. Stays(file') /\ file'.cur = d /\ file'.pos = file.pos
    BY <1>1, <2>1, <2>2, AtCluster DEF Stays
  <2>4. Same(call') /\ call'.at = "data" /\ call'.left = call.left
    BY <1>1, <2>1, GoesTo
  <2>5. d \in Clusters
    <3>1. file'.cur = 0 => call'.at # "data"
      BY DEF Good, SoundInv, CursorInv
    <3> QED
      BY <2>2, <2>3, <2>4, <3>1 DEF Free
  <2>6. Leads(SeenFat, file.first, Index(file.pos) + 1, d)
    <3>1. Index(file.pos) \in Nat
      BY <1>1, <1>4, IndexType
    <3> QED
      BY <1>1, <1>4, <2>5, <3>1, LeadsOn DEF d
  <2>7. file.pos \div PerCluster = Index(file.pos) + 1
    BY <1>1, <1>4, IndexIsAtEnd
  <2>8. ExactInv'
    BY <1>1, <1>3, <2>1, <2>3, <2>4, <2>6, <2>7 DEF ExactInv, Stays
  <2>9. OpInv' /\ ThereInv' /\ PendingInv'
    BY <1>0, <1>1, <1>2, <1>4, <2>3, <2>4, PrintOn
  <2> QED
    BY <1>2, <2>3, <2>8, <2>9, RestsKeep DEF KeepInv
<1> QED
  BY <1>5, <1>6

LEMMA SearchOnKept ==
  ASSUME Good, KeepInv, SearchOn
  PROVE  KeepInv' /\ Saves
<1>0. /\ call.at = "search" /\ ~MustFlush /\ Read /\ card' = card /\ gone' = gone
      /\ ahead' = ahead /\ file' = file
      /\ call' = [call EXCEPT !.c = Wrap(call.c + 1), !.n = call.n + 1]
  BY DEF SearchOn, Ready, past
<1>1. /\ file.size \in Nat /\ CallOK /\ call.left \in Nat /\ call.out \in Seq(Units)
      /\ call.c \in Clusters /\ call.n \in Nat
  BY <1>0, TypesAre, CallIs DEF Good, TypeInv, WorkInv
<1>2. Rests
  BY <1>0, ReadRests
<1>3. SeenFat' = SeenFat
  BY <1>2, SeenKeeps DEF Rests, SeenKept
<1>4. Same(call') /\ call'.at = "search" /\ call'.left = call.left
  <2>1. call.c + 1 \in 2 .. LastCluster + 1
    BY <1>1, Geometry DEF Clusters
  <2>2. Wrap(call.c + 1) \in Nat
    BY <2>1, WrapIs, Marks
  <2>3. PICK n \in Nat : n = call.n + 1
    BY <1>1
  <2>4. call' = [call EXCEPT !.c = Wrap(call.c + 1), !.n = n]
    BY <1>0, <2>3
  <2> QED
    BY <1>0, <1>1, <2>2, <2>4, GoesFrom
<1>5. Stays(file') /\ call.op = "print"
  BY <1>0 DEF Stays, KeepInv, OpInv
<1>6. OpInv' /\ ThereInv' /\ PendingInv'
  BY <1>0, <1>1, <1>2, <1>4, <1>5, PrintOn
<1>7. ExactInv'
  BY <1>0, <1>3, <1>4 DEF KeepInv, ExactInv
<1> QED
  BY <1>2, <1>5, <1>6, <1>7, RestsKeep DEF KeepInv

LEMMA CardFullKept ==
  ASSUME Good, KeepInv, CardFull
  PROVE  KeepInv' /\ Saves
<1>1. UNCHANGED <<card, cache, start, file, past>> /\ call' = NoCall
  BY DEF CardFull
<1>2. Rests /\ Stays(file')
  BY <1>1, NoBlockRests DEF Stays, past
<1>3. ExactInv'
  <2>1. SeenFat' = SeenFat /\ ExactInv
    BY <1>2, SeenKeeps DEF Rests, SeenKept, KeepInv
  <2> QED
    BY <1>1, <1>2, <2>1, NoCallIs, ExactRests DEF past
<1> QED
  BY <1>1, <1>2, <1>3, NoCallKeeps, RestsKeep DEF KeepInv

LEMMA ClearedKept ==
  ASSUME Good, KeepInv, Cleared
  PROVE  KeepInv' /\ Saves
<1>1. UNCHANGED <<card, cache, start, file, past>> /\ call' = [call EXCEPT !.at = "erase"]
      /\ call.at = "cleared" /\ "erase" \in Places /\ CallOK
  BY DEF Cleared, Ready, Go, Places, Good, TypeInv
<1>2. Rests /\ Stays(file')
  BY <1>1, NoBlockRests DEF Stays, past
<1>3. Same(call') /\ call'.at = "erase" /\ call'.left = call.left
  BY <1>1, GoesTo
<1>4. SeenFat' = SeenFat /\ SeenDir' = SeenDir
  BY <1>2, SeenKeeps DEF Rests, SeenKept
<1>5. ExactInv'
  BY <1>1, <1>2, <1>3, <1>4, ExactRests DEF past, KeepInv
<1>6. OpInv' /\ ThereInv' /\ PendingInv'
  BY <1>1, <1>3, <1>4
     DEF OpInv, ThereInv, PendingInv, Same, KeepInv, Removing
<1> QED
  BY <1>2, <1>5, <1>6, RestsKeep DEF KeepInv

LEMMA LookupToRemoveKept ==
  ASSUME Good, KeepInv, LookupToRemove
  PROVE  KeepInv' /\ Saves
<1> DEFINE h == call.name
           entry == SeenDir[h]
<1>1. /\ call.at = "lookup" /\ ~MustFlush /\ card' = card /\ UNCHANGED <<file, past>>
      /\ call.op = "remove" /\ Read
  BY DEF LookupToRemove, Ready
<1>2. /\ CallOK /\ Value = SeenDir /\ entry \in Entry /\ {"erase", "free"} \subseteq Places
      /\ entry.first \in Nat /\ file = NoHandle
  <2>1. h \in Files /\ SeenDir \in [Files -> Entry] /\ CallOK /\ Value = SeenDir /\ file = NoHandle
    BY <1>1, TypesAre, ReadIs DEF Good, WorkInv, TypeInv
  <2>3. entry \in Entry
    BY <2>1
  <2> HIDE DEF entry
  <2>2. entry.first \in Nat
    <3>1. entry.first \in {Free} \cup Clusters
      BY <2>3, EntryIs
    <3>2. Free \in Nat /\ Clusters \subseteq Nat
      BY Marks DEF Free
    <3> QED
      BY <3>1, <3>2
  <2> QED
    BY <2>1, <2>2, <2>3 DEF Places
<1>3. Rests /\ Stays(file')
  <2>1. gone' = gone
    BY <1>1 DEF past
  <2> QED
    BY <1>1, <2>1, ReadRests DEF Stays
<1>4. SeenDir' = SeenDir
  BY <1>3, SeenKeeps DEF Rests, SeenKept
<1>5. \/ call' = NoCall
      \/ call'.at = "erase" /\ call'.op = "remove" /\ call'.name = h /\ entry.there
         /\ entry.size = 0
      \/ call'.at = "free" /\ call'.op = "remove" /\ call'.name = h /\ entry.there
  <2>1. CASE entry.there /\ entry.size = 0 /\ Go("erase")
    BY <1>1, <1>2, <2>1, GoesTo DEF Go, Same
  <2>2. CASE entry.there /\ call' = [call EXCEPT !.at = "free", !.c = entry.first]
    <3>1. PICK x \in Nat : x = entry.first
      BY <1>2
    <3>2. Same(call') /\ call'.at = "free"
      BY <1>2, <2>2, <3>1, GoesFreeing
    <3> QED
      BY <1>1, <2>2, <3>2 DEF Same
  <2> QED
    BY <1>2, <2>1, <2>2 DEF LookupToRemove
<1>6. OpInv' /\ ThereInv' /\ PendingInv'
  <2>1. CASE call' = NoCall
    BY <2>1, NoCallKeeps
  <2>2. CASE call' # NoCall
    BY <1>4, <1>5, <2>2 DEF OpInv, ThereInv, PendingInv, Removing
  <2> QED
    BY <2>1, <2>2
<1>7. ExactInv'
  <2>1. ~ahead
    BY <1>2, NoHandleIs DEF KeepInv, ExactInv
  <2> QED
    BY <1>1, <1>2, <1>5, <2>1, NoHandleIs, NoCallIs, ExactNone DEF past
<1> QED
  BY <1>3, <1>6, <1>7, RestsKeep DEF KeepInv
-----------------------------------------------------------------------------
(* What the steps are for the files: one of them changes, and the card not. *)
Changes(f, contents) ==
  /\ View(f)' = contents
  /\ \A g \in Files \ {f} : View(g)' = View(g)
  /\ \A g \in Files : CardView(g)' = CardView(g)

Creates == \E f \in Files : View(f) = NoName /\ Changes(f, <<>>)
Extends == \E f \in Files : View(f) # NoName /\ Changes(f, View(f) \o call.out)
Erases  == \E f \in Files : View(f) = <<>> /\ Changes(f, NoName)
Empties ==
  \E f \in Files : /\ View(f) # NoName /\ View(f)' = <<>> /\ CardView(f)' = <<>>
                   /\ \A g \in Files \ {f} : View(g)' = View(g) /\ CardView(g)' = CardView(g)
Forgets ==
  /\ faults' + losses' > faults + losses
  /\ \A f \in Files : View(f)' = View(f) \/ View(f)' = CardView(f)
  /\ \A f \in Files : CardView(f)' = CardView(f)

LEMMA CardStays ==
  ASSUME card' = card, gone' = gone
  PROVE  \A f \in Files : CardView(f)' = CardView(f)
  BY CardViewIs DEF CardDir

(* The entry of a file is made, emptied or given up.                        *)
LEMMA DirPutData ==
  ASSUME StoreOK, Wanted = Dir, NEW v, Put(v), ~MustFlush, card' = card
  PROVE  SameData(Seen, Seen')
<1>1. \A b \in Blocks : Seen'[b] = IF b = Wanted THEN v ELSE Seen[b]
  BY BlocksApart, PutStored
<1>2. \A c \in Clusters, b \in 0 .. BlocksPerCluster - 1 : Data(c, b) \in Blocks
  BY DEF Blocks, DataBlocks
<1> QED
  BY <1>1, <1>2, BlocksApart DEF SameData

LEMMA DirPutKeeps ==
  ASSUME Good, KeepInv, SeenFat' = SeenFat, SameData(Seen, Seen'), card' = card, gone' = gone
  PROVE  /\ UnitsInv' /\ AgreeInv' /\ \A f \in Files : CardView(f)' = CardView(f)
         /\ \A e \in Entry : Contents(Seen', e) = Contents(Seen, e)
<1>1. FatOf(Seen) \in Fats /\ FatOf(Seen') = FatOf(Seen) /\ CardDir \in [Files -> Entry]
  <2>1. FatOf(Seen') = SeenFat'
    BY DEF FatOf, SeenFat
  <2> QED
    BY <2>1, FatsAre DEF Good
<1>2. \A e \in Entry : Contents(Seen', e) = Contents(Seen, e)
  BY <1>1, ContentsSame
<1>3. UnitsInv'
  BY DEF KeepInv, UnitsInv, UnitBlocks, SameData
<1>4. AgreeInv'
  BY <1>1, <1>2 DEF KeepInv, AgreeInv, CardDir
<1> QED
  BY <1>2, <1>3, <1>4, CardStays

LEMMA EmptyPutIs ==
  ASSUME Good, KeepInv, call.at \in {"lookup", "clear", "erase"}, ~MustFlush, card' = card,
         NEW e \in {EmptyEntry, Absent}, Put([Value EXCEPT ![call.name] = e]), NEW h, h = call.name,
         UNCHANGED <<start, file, past>>, NEW at \in {"flush", "cleared"}, Go(at)
  PROVE  /\ Same(call') /\ call'.at = at /\ file = NoHandle /\ h \in Files
         /\ UnitsInv' /\ AgreeInv' /\ HandleInv' /\ ExactInv' /\ PendingInv'
         /\ SeenDir'[h] = e
         /\ View(h) = IF gone = h /\ SeenDir[h].there THEN <<>> ELSE Contents(Seen, SeenDir[h])
         /\ View(h)' = IF gone = h /\ e.there THEN <<>> ELSE Contents(Seen', e)
         /\ Changes(h, View(h)')
<1> DEFINE v == [Value EXCEPT ![h] = e]
<1>1. /\ CallOK /\ StoreOK /\ h \in Files /\ file = NoHandle /\ Wanted = Dir
      /\ Value = SeenDir /\ SeenDir \in [Files -> Entry] /\ e \in Entry
      /\ {"flush", "cleared"} \subseteq Places /\ gone' = gone /\ file' = file /\ ahead' = ahead
  BY TypesAre, WantedIs, ReadIs, EmptyIs DEF Good, TypeInv, WorkInv, Places, past
<1>2. v \in [Files -> Entry] /\ v[h] = e /\ \A g \in Files : g # h => v[g] = Value[g]
  BY <1>1
<1> HIDE DEF v
<1>3. Put(v)
  BY DEF v
<1>4. SeenFat' = SeenFat /\ SeenDir' = Marked(SeenDir, h, e)
  BY <1>1, <1>2, <1>3, DirPut
<1>5. SeenDir'[h] = e /\ \A g \in Files \ {h} : SeenDir'[g] = SeenDir[g]
  BY <1>1, <1>4 DEF Marked
<1>6. SameData(Seen, Seen')
  BY <1>1, <1>3, DirPutData
<1>7. /\ UnitsInv' /\ AgreeInv' /\ \A f \in Files : CardView(f)' = CardView(f)
      /\ \A d \in Entry : Contents(Seen', d) = Contents(Seen, d)
  BY <1>1, <1>4, <1>6, DirPutKeeps
<1>8. Same(call') /\ call'.at = at
  BY <1>1, GoesTo DEF Go
<1>9. \A f \in Files : Held[f] = SeenDir[f] /\ Held'[f] = SeenDir'[f]
  BY <1>1, NoHandleIs, NoNameIsNone DEF Held
<1>10. \A g \in Files \ {h} : View(g)' = View(g)
  BY <1>1, <1>5, <1>7, <1>9, ViewIs, ViewIsNext
<1>11. HandleInv' /\ PendingInv'
  <2>1. call'.at \notin {"begin", "seek", "next", "search", "link", "data"}
    BY <1>8
  <2> QED
    BY <1>1, <2>1, NoHandleIs DEF HandleInv, PendingInv
<1>12. ExactInv'
  <2>1. ~ahead
    BY <1>1, NoHandleIs DEF KeepInv, ExactInv
  <2> QED
    BY <1>1, <1>8, <2>1, NoHandleIs, ExactNone
<1>13. /\ View(h) = IF gone = h /\ SeenDir[h].there THEN <<>> ELSE Contents(Seen, SeenDir[h])
       /\ View(h)' = IF gone = h /\ e.there THEN <<>> ELSE Contents(Seen', e)
  BY <1>1, <1>5, <1>9, ViewIs, ViewIsNext
<1> QED
  BY <1>1, <1>5, <1>7, <1>8, <1>10, <1>11, <1>12, <1>13 DEF Changes

LEMMA ThereIs ==
  /\ EmptyEntry.there /\ ~Absent.there /\ EmptyEntry.size = 0
  BY DEF EmptyEntry, Absent

LEMMA ClearEntryKept ==
  ASSUME Good, KeepInv, ClearEntry
  PROVE  KeepInv' /\ Saves
<1>0. PICK h : h = call.name
  OBVIOUS
<1>1. /\ call.at = "clear" /\ ~MustFlush /\ card' = card /\ Go("cleared")
      /\ Put([Value EXCEPT ![call.name] = EmptyEntry]) /\ UNCHANGED <<start, file, past>>
  BY DEF ClearEntry, Ready
<1>2. /\ Same(call') /\ call'.at = "cleared" /\ h \in Files
      /\ UnitsInv' /\ AgreeInv' /\ HandleInv' /\ ExactInv' /\ PendingInv'
      /\ SeenDir'[h] = EmptyEntry
      /\ View(h) = IF gone = h /\ SeenDir[h].there THEN <<>> ELSE Contents(Seen, SeenDir[h])
      /\ View(h)' = IF gone = h /\ EmptyEntry.there THEN <<>> ELSE Contents(Seen', EmptyEntry)
      /\ Changes(h, View(h)')
  BY <1>0, <1>1, EmptyPutIs
<1>3. gone = h /\ SeenDir[h].there /\ call.op = "remove"
  BY <1>0, <1>1 DEF KeepInv, ThereInv, OpInv, Removing
<1>4. Saves
  BY <1>2, <1>3, ThereIs DEF Saves, Changes
<1>5. OpInv' /\ ThereInv'
  BY <1>0, <1>2, <1>3, ThereIs DEF OpInv, ThereInv, Removing, Same
<1> QED
  BY <1>2, <1>4, <1>5 DEF KeepInv
-----------------------------------------------------------------------------
(* The steps that change the directory.                                     *)
LEMMA EraseEntryKept ==
  ASSUME Good, KeepInv, EraseEntry
  PROVE  KeepInv' /\ Erases
<1>0. PICK h : h = call.name
  OBVIOUS
<1>1. /\ call.at = "erase" /\ ~MustFlush /\ card' = card /\ Go("flush")
      /\ Put([Value EXCEPT ![call.name] = Absent]) /\ UNCHANGED <<start, file, past>>
  BY DEF EraseEntry, Ready
<1>2. /\ Same(call') /\ call'.at = "flush" /\ file = NoHandle /\ h \in Files
      /\ UnitsInv' /\ AgreeInv' /\ HandleInv' /\ ExactInv' /\ PendingInv'
      /\ View(h) = IF gone = h /\ SeenDir[h].there THEN <<>> ELSE Contents(Seen, SeenDir[h])
      /\ View(h)' = IF gone = h /\ Absent.there THEN <<>> ELSE Contents(Seen', Absent)
      /\ Changes(h, View(h)')
  BY <1>0, <1>1, EmptyPutIs
<1>3. SeenDir[h].there /\ SeenDir[h].size = 0 /\ call.op = "remove"
  BY <1>0, <1>1 DEF KeepInv, ThereInv, OpInv, Removing
<1>4. View(h) = <<>>
  BY <1>2, <1>3, ContentsEmpty
<1>5. View(h)' = NoName
  <2>1. Contents(Seen', Absent) = NoName
    BY ThereIs, ContentsIs
  <2> QED
    BY <1>2, <2>1, ThereIs
<1>6. Erases
  BY <1>2, <1>4, <1>5 DEF Erases
<1>7. OpInv' /\ ThereInv'
  BY <1>1, <1>2, <1>3 DEF OpInv, ThereInv, Removing, Same
<1> QED
  BY <1>2, <1>6, <1>7 DEF KeepInv

(* A step that changes no block but takes up or gives up a handle.          *)
LEMMA RestsKeepHeld ==
  ASSUME Rests, KeepInv, HeldAlike
  PROVE  UnitsInv' /\ AgreeInv' /\ Saves /\ SeenDir' = SeenDir /\ SeenFat' = SeenFat
<1>1. SeenDir' = SeenDir /\ CardDir' = CardDir /\ Seen' = Seen /\ card' = card /\ gone' = gone
  BY DEF Rests, SeenDir, CardDir
<1>2. Saves
  BY <1>1, SeenSaves
<1>3. UnitsInv' /\ AgreeInv'
  BY <1>1 DEF KeepInv, UnitsInv, AgreeInv
<1>4. SeenFat' = SeenFat
  BY <1>1, SeenKeeps DEF SeenKept
<1> QED
  BY <1>1, <1>2, <1>3, <1>4

LEMMA CreateKept ==
  ASSUME Good, KeepInv, call.at = "lookup", call.op = "open", ~MustFlush, card' = card,
         Put([Value EXCEPT ![call.name] = EmptyEntry]), Go("flush"),
         UNCHANGED <<start, file, past>>, ~SeenDir[call.name].there
  PROVE  KeepInv' /\ Creates
<1>0. PICK h : h = call.name
  OBVIOUS
<1>2. /\ Same(call') /\ call'.at = "flush" /\ file = NoHandle /\ h \in Files
      /\ UnitsInv' /\ AgreeInv' /\ HandleInv' /\ ExactInv' /\ PendingInv'
      /\ SeenDir'[h] = EmptyEntry
      /\ View(h) = IF gone = h /\ SeenDir[h].there THEN <<>> ELSE Contents(Seen, SeenDir[h])
      /\ View(h)' = IF gone = h /\ EmptyEntry.there THEN <<>> ELSE Contents(Seen', EmptyEntry)
      /\ Changes(h, View(h)')
  BY <1>0, EmptyPutIs
<1>4. View(h) = NoName
  BY <1>0, <1>2, ContentsIs
<1>5. View(h)' = <<>>
  <2>1. Contents(Seen', EmptyEntry) = <<>>
    BY ThereIs, ContentsEmpty
  <2> QED
    BY <1>2, <2>1
<1>6. Creates
  BY <1>2, <1>4, <1>5 DEF Creates
<1>7. OpInv' /\ ThereInv'
  <2>1. file' = file
    OBVIOUS
  <2> QED
    BY <1>0, <1>2, <2>1, ThereIs DEF OpInv, ThereInv, Removing, Same
<1> QED
  BY <1>2, <1>6, <1>7 DEF KeepInv

LEMMA LookupToOpenKept ==
  ASSUME Good, KeepInv, LookupToOpen
  PROVE  KeepInv' /\ (Saves \/ Creates)
<1> DEFINE h == call.name
           entry == SeenDir[h]
<1>0. /\ call.at = "lookup" /\ ~MustFlush /\ card' = card /\ call.op = "open"
      /\ UNCHANGED <<start, past>>
  BY DEF LookupToOpen, Ready
<1>1. /\ CallOK /\ h \in Files /\ file = NoHandle /\ h # NoName
      /\ Value = SeenDir /\ SeenDir \in [Files -> Entry] /\ entry \in Entry
      /\ entry.size \in Nat /\ entry.size \in Units /\ entry.first \in {Free} \cup Clusters
      /\ call.left = 0 /\ gone' = gone /\ ahead' = ahead
  <2>1. /\ CallOK /\ h \in Files /\ file = NoHandle /\ Value = SeenDir
        /\ SeenDir \in [Files -> Entry] /\ call.left = 0
    BY <1>0, TypesAre, CallIs, ReadIs DEF Good, TypeInv, WorkInv
  <2>2. entry \in Entry
    BY <2>1
  <2> HIDE DEF entry
  <2> QED
    BY <1>0, <2>1, <2>2, EntryIs, NoNameIsNone DEF past
<1>2. CASE ~entry.there
  <2>1. /\ Put([Value EXCEPT ![call.name] = EmptyEntry]) /\ Go("flush") /\ UNCHANGED file
    BY <1>1, <1>2 DEF LookupToOpen
  <2> QED
    BY <1>0, <1>2, <2>1, CreateKept
<1>3. CASE entry.there
  <2>1. PICK f : f = Handle(h, entry)
    OBVIOUS
  <2>2. /\ Read
        /\ \/ entry.size = 0 /\ file' = f /\ call' = NoCall
           \/ entry.size # 0 /\ Seek(f)
    BY <1>1, <1>3, <2>1 DEF LookupToOpen
  <2>3. /\ f \in Handles /\ f.name = h /\ f.size = entry.size /\ f.first = entry.first
        /\ f.cur = 0 /\ f.pos = 0 /\ f.dirty = FALSE
    <3>1. f.dirty = FALSE
      BY <2>1 DEF Handle, NoHandle
    <3> QED
      BY <1>1, <2>1, <3>1, HandleOf
  <2>4. Rests
    BY <1>0, <1>1, <2>2, ReadRests
  <2>5. SeenFat' = SeenFat /\ SeenDir' = SeenDir /\ ~ahead
    BY <1>1, <2>4, SeenKeeps, NoHandleIs DEF Rests, SeenKept, KeepInv, ExactInv
  <2>6. ASSUME file'.name = h, file'.size = entry.size, file'.first = entry.first
        PROVE  UnitsInv' /\ AgreeInv' /\ HandleInv' /\ Saves
    <3>1. entry = [there |-> TRUE, size |-> entry.size, first |-> entry.first]
      BY <1>1, <1>3 DEF Entry
    <3>2. \A g \in Files : Held'[g] = Held[g]
      <4> HIDE DEF entry
      <4>1. Held[h] = SeenDir[h] /\ entry = SeenDir[h]
        BY <1>1, NoHandleIs DEF Held, entry
      <4> QED
        BY <1>1, <2>5, <2>6, <3>1, <4>1, NoHandleIs, NoNameIsNone DEF Held
    <3>3. HeldAlike
      BY <3>2 DEF HeldAlike
    <3>4. HandleInv'
      BY <1>3, <2>5, <2>6 DEF HandleInv
    <3> QED
      BY <2>4, <3>3, <3>4, RestsKeepHeld
  <2>7. CASE entry.size = 0 /\ file' = f /\ call' = NoCall
    <3>1. ExactInv'
      BY <1>1, <2>3, <2>5, <2>7, NoCallIs, ExactNone
    <3> QED
      BY <2>3, <2>6, <2>7, <3>1, NoCallKeeps DEF KeepInv
  <2>8. CASE entry.size # 0 /\ Seek(f)
    <3>1. f.size > 0 /\ (f.pos = 0 \/ f.pos >= f.size)
      BY <1>1, <2>3, <2>8
    <3>2. /\ file'.name = f.name /\ file'.size = f.size /\ file'.first = f.first
          /\ Same(call') /\ call'.at = "seek"
      BY <1>1, <2>3, <2>8, <3>1, SeekIs
    <3>3. Stored(SeenFat, f.first, f.size)
      <4>1. ~Unlinking
        BY <1>0 DEF Unlinking
      <4>2. Sits(Seen, entry.first, entry.size) /\ FatOf(Seen) = SeenFat
        BY <1>1, <4>1, FilesSit, FatsAre DEF Good
      <4> QED
        BY <2>3, <4>2 DEF Sits
    <3>4. ExactInv'
      <4>1. ~(f.pos > 0)
        BY <2>3
      <4> QED
        BY <1>1, <2>3, <2>5, <2>8, <3>1, <3>3, <4>1, ExactSeek
    <3>5. OpInv' /\ ThereInv' /\ PendingInv'
      BY <1>0, <3>2 DEF OpInv, ThereInv, PendingInv, Same, Removing
    <3> QED
      BY <2>3, <2>6, <3>2, <3>4, <3>5 DEF KeepInv
  <2> QED
    BY <2>2, <2>7, <2>8
<1> QED
  BY <1>2, <1>3
-----------------------------------------------------------------------------
(* The end of a call, and the entry that close() writes.                    *)
LEMMA FlushedKept ==
  ASSUME Good, KeepInv, Flushed
  PROVE  KeepInv' /\ Saves
<1> DEFINE h == call.name
           n == file.name
           e == SeenDir[n]
<1>0. /\ call.at = "flush" /\ card' = card /\ cache' = cache /\ gone' = gone
      /\ ahead' = FALSE /\ call' = NoCall
      /\ file' = IF call.op = "open" THEN Handle(h, EmptyEntry) ELSE NoHandle
  BY DEF Flushed, Ready
<1>1. /\ call.op \in {"open", "close", "remove"}
      /\ call.op \in {"open", "remove"} => file = NoHandle
      /\ call.op = "close" => n # NoName /\ ~file.dirty
  BY <1>0 DEF KeepInv, OpInv
<1>2. Rests
  BY <1>0, NoBlockRests
<1>3. SeenDir' = SeenDir
  BY <1>2 DEF Rests, SeenDir
<1>4. SeenDir \in [Files -> Entry]
  BY TypesAre DEF Good
<1>5. CASE call.op = "open"
  <2>1. /\ h \in Files /\ SeenDir[h].there /\ SeenDir[h].first = 0 /\ SeenDir[h].size = 0
        /\ file = NoHandle
    BY <1>0, <1>1, <1>5 DEF Good, WorkInv, SoundInv, MadeInv, KeepInv, ThereInv
  <2>2. file'.name = h /\ file'.size = 0 /\ file'.first = 0 /\ file'.cur = 0
    <3>1. EmptyEntry.size \in Units /\ EmptyEntry.first \in {Free} \cup Clusters
      BY EmptyIs, EntryIs
    <3> QED
      BY <1>0, <1>5, <2>1, <3>1, EmptyIs, HandleOf
  <2>3. HeldAlike
    BY <1>3, <2>1, <2>2, NoHandleIs, NoNameIsNone DEF HeldAlike, Held
  <2>4. HandleInv'
    BY <1>3, <2>1, <2>2 DEF HandleInv
  <2> QED
    BY <1>0, <1>2, <2>2, <2>3, <2>4, NoCallIs, NoCallKeeps, ExactNone, RestsKeepHeld DEF KeepInv
<1>6. CASE call.op # "open"
  <2>1. file' = NoHandle
    BY <1>0, <1>6
  <2>2. HeldAlike
    <3>1. CASE call.op = "remove"
      <4>1. Held' = Held
        BY <1>1, <1>3, <2>1, <3>1 DEF Held
      <4> QED
        BY <4>1 DEF HeldAlike
    <3>2. CASE call.op = "close"
      <4>1. n \in Files /\ ~file.dirty
        BY <1>1, <3>2, TypesAre DEF Good
      <4>2. e.there /\ e.size = file.size
        BY <1>1, <3>2 DEF KeepInv, HandleInv
      <4>3. (e.first = 0 /\ e.size = 0) \/ e.first = file.first
        BY <1>1, <3>2 DEF Good, SoundInv, EntryInv
      <4>4. e \in Entry
        BY <1>4, <4>1
      <4>5. e = [there |-> TRUE, size |-> e.size, first |-> e.first]
        <5>1. e.there = TRUE
          BY <4>2, <4>4, EntryIs
        <5> HIDE DEF e
        <5> QED
          BY <4>4, <5>1 DEF Entry
      <4>6. Held'[n] = e /\ Held[n] = [there |-> TRUE, size |-> file.size, first |-> file.first]
        BY <1>3, <2>1, <4>1, NoHandleIs, NoNameIsNone DEF Held
      <4>7. \A f \in Files \ {n} : Held'[f] = Held[f]
        BY <1>3, <2>1, NoHandleIs, NoNameIsNone DEF Held
      <4> HIDE DEF n, e
      <4>8. \/ Held'[n] = Held[n]
            \/ Held[n].there /\ Held'[n].there /\ Held[n].size = 0 /\ Held'[n].size = 0
        BY <4>2, <4>3, <4>5, <4>6
      <4> QED
        BY <4>7, <4>8 DEF HeldAlike
    <3> QED
      BY <1>1, <1>6, <3>1, <3>2
  <2>3. HandleInv' /\ file'.cur = 0
    BY <2>1, NoHandleIs DEF HandleInv
  <2> QED
    BY <1>0, <1>2, <2>2, <2>3, NoCallIs, NoCallKeeps, ExactNone, RestsKeepHeld DEF KeepInv
<1> QED
  BY <1>5, <1>6

LEMMA PutEntryKept ==
  ASSUME Good, KeepInv, PutEntry
  PROVE  KeepInv' /\ Saves
<1> DEFINE h == file.name
           v == [Value EXCEPT ![h].size = file.size, ![h].first = file.first]
           e == [there |-> SeenDir[h].there, size |-> file.size, first |-> file.first]
<1>0. /\ call.at = "entry" /\ ~MustFlush /\ card' = card /\ UNCHANGED <<start, past>>
      /\ Put(v) /\ file' = [file EXCEPT !.dirty = FALSE] /\ Go("flush")
  BY DEF PutEntry, Ready
<1>1. /\ file \in Handles /\ file.size \in Units /\ file.first \in {Free} \cup Clusters
      /\ CallOK /\ StoreOK /\ h \in Files /\ h # NoName /\ "flush" \in Places
      /\ Wanted = Dir /\ Value = SeenDir /\ SeenDir \in [Files -> Entry] /\ gone' = gone
      /\ ahead' = ahead
  BY <1>0, TypesAre, HandleIs, WantedIs, ReadIs DEF Good, TypeInv, WorkInv, Places, past
<1>2. e \in Entry /\ v[h] = e /\ v \in [Files -> Entry]
      /\ \A g \in Files : g # h => v[g] = Value[g]
  <2>1. e \in Entry
    BY <1>1 DEF Entry
  <2>2. v[h] = e /\ v \in [Files -> Entry] /\ \A g \in Files : g # h => v[g] = Value[g]
    <3>1. v = Filled(SeenDir, h, file.size, file.first)
      BY <1>1 DEF Filled
    <3> HIDE DEF v
    <3> QED
      BY <1>1, <3>1, FilledIs
  <2> QED
    BY <2>1, <2>2
<1>3. e.size = file.size /\ e.first = file.first /\ e.there = SeenDir[h].there
  OBVIOUS
<1> HIDE DEF v, e
<1>4. SeenFat' = SeenFat /\ SeenDir' = Marked(SeenDir, h, e)
  BY <1>0, <1>1, <1>2, DirPut
<1>5. SeenDir'[h] = e /\ \A g \in Files : g # h => SeenDir'[g] = SeenDir[g]
  BY <1>1, <1>4 DEF Marked
<1>6. /\ file'.size = file.size /\ file'.cur = file.cur /\ file'.dirty = FALSE
      /\ file'.first = file.first /\ file'.name = h /\ file'.pos = file.pos
  BY <1>0, <1>1 DEF Handles
<1>7. Same(call') /\ call'.at = "flush"
  BY <1>0, <1>1, GoesTo DEF Go
<1>8. SeenDir[h].there /\ call.op = "close"
  BY <1>0, <1>1 DEF KeepInv, HandleInv, OpInv
<1>9. Held' = Held
  BY <1>5, <1>6 DEF Held
<1>10. SameData(Seen, Seen')
  BY <1>0, <1>1, DirPutData
<1>11. /\ UnitsInv' /\ AgreeInv' /\ \A f \in Files : CardView(f)' = CardView(f)
       /\ \A d \in Entry : Contents(Seen', d) = Contents(Seen, d)
  BY <1>0, <1>1, <1>4, <1>10, DirPutKeeps
<1>12. Saves
  <2>1. \A f \in Files : View(f)' = View(f)
    <3> TAKE f \in Files
    <3>1. SeenDir'[f].there = SeenDir[f].there
      BY <1>3, <1>5
    <3>2. Contents(Seen', Held[f]) = Contents(Seen, Held[f])
      BY <1>11, HeldEntry DEF Good
    <3>3. HeldAlike
      BY <1>9 DEF HeldAlike
    <3> QED
      BY <1>1, <3>1, <3>2, <3>3, ViewsAlike
  <2> QED
    BY <1>11, <2>1 DEF Saves
<1>13. ExactInv'
  BY <1>1, <1>4, <1>6, <1>7 DEF KeepInv, ExactInv
<1>14. HandleInv'
  BY <1>1, <1>3, <1>5, <1>6, <1>8 DEF HandleInv
<1>15. OpInv' /\ ThereInv' /\ PendingInv'
  BY <1>1, <1>6, <1>7, <1>8 DEF OpInv, ThereInv, PendingInv, Same, Removing
<1> QED
  BY <1>11, <1>12, <1>13, <1>14, <1>15 DEF KeepInv
-----------------------------------------------------------------------------
(* The entry of the open file holds what the handle does, unless close()    *)
(* has still to write it.                                                   *)
LEMMA EntryHolds ==
  ASSUME TypeInv, EntryInv, HandleInv, NEW S, NEW f \in Files,
         f # file.name \/ ~file.dirty \/ DirtyDir
  PROVE  Contents(S, SeenDir[f]) = Contents(S, Held[f])
<1>1. CASE f # file.name
  BY <1>1 DEF Held
<1>2. CASE f = file.name
  <2> DEFINE e == SeenDir[f]
             d == Held[f]
  <2>1. /\ e.there /\ e.size = file.size
        /\ (e.first = 0 /\ e.size = 0) \/ e.first = file.first
    BY <1>2, NoNameIsNone DEF HandleInv, EntryInv
  <2>2. d = [there |-> TRUE, size |-> file.size, first |-> file.first]
    BY <1>2 DEF Held
  <2>3. e \in Entry
    BY TypesAre
  <2> HIDE DEF e, d
  <2>4. e = [there |-> TRUE, size |-> e.size, first |-> e.first]
    <3>1. e.there = TRUE
      BY <2>1, <2>3, EntryIs
    <3> QED
      BY <2>3, <3>1 DEF Entry
  <2>5. e = d \/ (e.there /\ d.there /\ e.size = 0 /\ d.size = 0)
    BY <2>1, <2>2, <2>4
  <2>6. Contents(S, e) = Contents(S, d)
    BY <2>5, ContentsEmpty
  <2> QED
    BY <2>6 DEF e, d
<1> QED
  BY <1>1, <1>2

LEMMA FlushBlockKept ==
  ASSUME Good, KeepInv, FlushBlock
  PROVE  KeepInv' /\ Saves
<1>0. /\ cache.state = "dirty" /\ gone' = IF cache.block = Dir THEN NoName ELSE gone
      /\ UNCHANGED <<start, file, call, printed, ahead, broken, faults, losses>>
  BY DEF FlushBlock
<1>1. /\ Seen' = Seen /\ card' = Seen /\ SeenDir' = SeenDir /\ CardDir' = SeenDir
      /\ SeenFat' = SeenFat /\ cache'.state # "dirty"
  BY FlushSaves DEF Good, TypeInv, SeenKept
<1>2. /\ TypeInv /\ EntryInv /\ RemovalInv /\ HandleInv /\ SeenDir \in [Files -> Entry]
      /\ gone \in Files \cup {NoName}
  BY TypesAre DEF Good, SoundInv, KeepInv, TypeInv, PastOK
<1>3. Held' = Held
  BY <1>0, <1>1 DEF Held
<1>4. ~DirtyDir'
  BY <1>1 DEF DirtyDir
<1>5. UnitsInv' /\ AgreeInv'
  BY <1>1 DEF KeepInv, UnitsInv, AgreeInv
<1>6. HandleInv'
  BY <1>0, <1>1, <1>2, <1>4 DEF HandleInv
<1>7. OpInv' /\ ExactInv' /\ PendingInv'
  <2>1. OpInv'
    BY <1>0 DEF KeepInv, OpInv
  <2>2. ExactInv'
    BY <1>0, <1>1 DEF KeepInv, ExactInv, Seeking
  <2>3. PendingInv'
    BY <1>0, <1>1 DEF KeepInv, PendingInv
  <2> QED
    BY <2>1, <2>2, <2>3
<1>8. ThereInv'
  <2>1. ASSUME call.at = "clear" PROVE gone' = gone
    <3>1. gone = call.name /\ call.name \in Files
      BY <2>1 DEF KeepInv, ThereInv, Good, WorkInv
    <3>2. cache.block # Dir
      BY <1>0, <1>2, <2>1, <3>1, NoNameIsNone DEF RemovalInv
    <3> QED
      BY <1>0, <3>2
  <2> QED
    BY <1>0, <1>1, <2>1 DEF KeepInv, ThereInv
<1>9. CASE cache.block = Dir
  <2>1. gone' = NoName /\ DirtyDir
    BY <1>0, <1>9 DEF DirtyDir
  <2>2. ASSUME NEW f \in Files
        PROVE  View(f)' = View(f) /\ CardView(f)' = View(f)
    <3>1. f # NoName
      BY NoNameIsNone
    <3>2. View(f)' = Contents(Seen, Held[f]) /\ CardView(f)' = Contents(Seen, SeenDir[f])
      BY <1>1, <1>3, <2>1, <3>1, ViewIsNext, CardViewIs
    <3>3. Contents(Seen, SeenDir[f]) = Contents(Seen, Held[f])
      BY <1>2, <2>1, EntryHolds
    <3>4. ASSUME gone = f, SeenDir[f].there
          PROVE  Contents(Seen, SeenDir[f]) = <<>>
      <4>1. SeenDir[f].size = 0
        BY <1>0, <1>2, <1>9, <3>1, <3>4 DEF RemovalInv
      <4> QED
        BY <3>4, <4>1, ContentsEmpty
    <3> QED
      BY <3>2, <3>3, <3>4, ViewIs
  <2> QED
    BY <1>5, <1>6, <1>7, <1>8, <2>2 DEF KeepInv, Saves
<1>10. CASE cache.block # Dir
  <2>1. gone' = gone /\ ~DirtyDir
    BY <1>0, <1>10 DEF DirtyDir
  <2>2. CardDir = SeenDir
    BY <1>2, <2>1, DirClean
  <2>3. ASSUME NEW f \in Files
        PROVE  View(f)' = View(f) /\ CardView(f)' = CardView(f)
    <3>1. View(f)' = View(f)
      BY <1>1, <1>3, <2>1, ViewIs, ViewIsNext
    <3>2. f # gone => Contents(Seen, CardDir[f]) = Contents(card, CardDir[f])
      BY DEF KeepInv, AgreeInv
    <3>3. CardView(f)' = CardView(f)
      BY <1>1, <2>1, <2>2, <3>2, CardViewIs
    <3> QED
      BY <3>1, <3>3
  <2> QED
    BY <1>5, <1>6, <1>7, <1>8, <2>3 DEF KeepInv, Saves
<1> QED
  BY <1>9, <1>10

LEMMA MirrorsApart == \A b \in FatBlocks : \A c, d : Mirror(b) # Data(c, d)
  BY DEF Mirror, Data

LEMMA FlushMirrorKept ==
  ASSUME Good, KeepInv, FlushMirror
  PROVE  KeepInv' /\ Saves
<1>0. /\ card' = [card EXCEPT ![Mirror(cache.block)] = cache.value] /\ cache.state = "mirror"
      /\ UNCHANGED <<start, file, call, past>> /\ gone' = gone /\ ahead' = ahead
  BY DEF FlushMirror, past
<1>1. /\ StoreOK /\ TypeInv /\ cache.block \in FatBlocks
      /\ SeenKept /\ CardKept /\ Seen = card /\ Seen' = card' /\ cache'.state = "clean"
  BY <1>0, MirrorSaves DEF Good, TypeInv, StoreOK, CacheOK
<1>2. /\ SeenDir' = SeenDir /\ SeenFat' = SeenFat /\ CardDir' = CardDir /\ CardFat' = CardFat
      /\ Held' = Held
  BY <1>0, <1>1 DEF SeenKept, CardKept, Held
<1>3. SameData(Seen, Seen')
  <2>1. \A c \in Clusters, b \in 0 .. BlocksPerCluster - 1 : card'[Data(c, b)] = card[Data(c, b)]
    BY <1>0, <1>1, MirrorsApart DEF StoreOK, CardOK
  <2> QED
    BY <1>1, <2>1 DEF SameData
<1>4. \A e \in Entry : Contents(Seen', e) = Contents(Seen, e)
  <2>1. FatOf(Seen) \in Fats /\ FatOf(Seen') = FatOf(Seen)
    <3>1. FatOf(Seen') = SeenFat'
      BY DEF FatOf, SeenFat
    <3> QED
      BY <1>1, <1>2, <3>1, FatsAre
  <2> QED
    BY <1>3, <2>1, ContentsSame
<1>5. UnitsInv'
  BY <1>1, <1>3 DEF KeepInv, UnitsInv, UnitBlocks, SameData
<1>6. AgreeInv'
  BY <1>1 DEF AgreeInv
<1>7. HandleInv'
  <2>1. DirtyDir' => DirtyDir
    BY <1>1 DEF DirtyDir
  <2> QED
    BY <1>0, <1>2, <2>1 DEF KeepInv, HandleInv
<1>8. OpInv' /\ ThereInv' /\ ExactInv'
  <2>1. OpInv' /\ ThereInv'
    BY <1>0, <1>2 DEF KeepInv, OpInv, ThereInv
  <2>2. ExactInv'
    BY <1>0, <1>2 DEF KeepInv, ExactInv, Seeking
  <2> QED
    BY <2>1, <2>2
<1>9. PendingInv'
  <2>1. FatOf(Seen') = FatOf(Seen)
    <3>1. FatOf(Seen') = SeenFat' /\ FatOf(Seen) = SeenFat
      BY DEF FatOf, SeenFat
    <3> QED
      BY <1>2, <3>1
  <2>2. call.at \in {"next", "search", "link", "data"} =>
          \A j \in 1 .. Len(call.out) - call.left : file.size + j - 1 \in Nat
    BY TypesAre, CallIs DEF Good, TypeInv
  <2>3. \A i \in Nat : \A u : Holds(Seen, file.first, i, u) => Holds(Seen', file.first, i, u)
    BY <1>3, <2>1, AtSame DEF Holds
  <2> QED
    BY <1>0, <2>2, <2>3 DEF KeepInv, PendingInv
<1>10. Saves
  <2>1. ASSUME NEW f \in Files
        PROVE  View(f)' = View(f) /\ CardView(f)' = CardView(f)
    <3>1. View(f)' = View(f)
      BY <1>0, <1>1, <1>2, <1>4, HeldEntry, ViewIs, ViewIsNext
    <3>2. CardDir[f] \in Entry
      BY <1>1, TypesAre
    <3>3. CardView(f)' = CardView(f)
      BY <1>0, <1>1, <1>2, <1>4, <3>2, CardViewIs
    <3> QED
      BY <3>1, <3>3
  <2> QED
    BY <2>1 DEF Saves
<1> QED
  BY <1>5, <1>6, <1>7, <1>8, <1>9, <1>10 DEF KeepInv
-----------------------------------------------------------------------------
(* What a change of the FAT leaves of the files.                            *)
LEMMA FatPutData ==
  ASSUME StoreOK, NEW x \in Clusters, Wanted = Fat(x), NEW v, Put(v), ~MustFlush, card' = card
  PROVE  SameData(Seen, Seen')
<1>1. \A b \in Blocks : Seen'[b] = IF b = Wanted THEN v ELSE Seen[b]
  BY BlocksApart, PutStored
<1>2. \A c \in Clusters, b \in 0 .. BlocksPerCluster - 1 : Data(c, b) \in Blocks
  BY DEF Blocks, DataBlocks
<1> QED
  BY <1>1, <1>2, BlocksApart DEF SameData

LEMMA UnitsStay ==
  ASSUME UnitsInv, SameData(Seen, Seen'), card' = card
  PROVE  UnitsInv'
  BY DEF UnitsInv, UnitBlocks, SameData

LEMMA FileKept ==
  ASSUME Good, NEW f \in Files, ~Unlinking \/ f # gone, SeenFat' \in Fats, Linked(SeenFat'),
         SameData(Seen, Seen'), Held[f].first # 0 => Heads(SeenFat', Held[f].first),
         \A n \in Nat, c \in Clusters :
           Leads(SeenFat, Held[f].first, n, c) => Leads(SeenFat', Held[f].first, n, c)
  PROVE  /\ Contents(Seen', Held[f]) = Contents(Seen, Held[f])
         /\ Contents(Seen', SeenDir[f]) = Contents(Seen, SeenDir[f])
         /\ \A i \in Nat : \A u :
              Holds(Seen, Held[f].first, i, u) => Holds(Seen', Held[f].first, i, u)
<1> DEFINE d == Held[f]
           e == SeenDir[f]
<1>1. FatOf(Seen) = SeenFat /\ FatOf(Seen') = SeenFat'
  BY DEF FatOf, SeenFat
<1>2. /\ Sits(Seen, d.first, d.size) /\ d \in Entry /\ Sits(Seen, e.first, e.size) /\ e \in Entry
      /\ d.first # 0 => Heads(SeenFat, d.first)
      /\ e.first # 0 => Heads(SeenFat, e.first)
  BY FilesSit
<1>3. \A i \in Nat, c \in Clusters : At(Seen', c, i) = At(Seen, c, i)
  BY AtSame
<1>4. (e.first = 0 /\ e.size = 0) \/ e.first = d.first
  BY NoNameIsNone DEF Good, SoundInv, EntryInv, Held
<1>5. d.size > 0 => d.first # 0
  BY <1>2, Marks DEF Sits, Heads, Free
<1>6. Contents(Seen', d) = Contents(Seen, d)
  <2> HIDE DEF d
  <2>1. d.size > 0 => Heads(FatOf(Seen'), d.first)
    BY <1>1, <1>5 DEF d
  <2>2. \A n \in Nat, c \in Clusters :
          Leads(FatOf(Seen), d.first, n, c) => Leads(FatOf(Seen'), d.first, n, c)
    BY <1>1 DEF d
  <2> QED
    BY <1>1, <1>2, <1>3, <2>1, <2>2, ContentsKept
<1>7. Contents(Seen', e) = Contents(Seen, e)
  <2>1. CASE e.size = 0
    <3>1. CASE e.there
      BY <2>1, <3>1, ContentsEmpty
    <3>2. CASE ~e.there
      BY <3>2, ContentsIs
    <3> QED
      BY <3>1, <3>2
  <2>2. CASE e.size # 0
    <3>1. e.first = d.first
      BY <1>4, <2>2
    <3>2. e.size > 0 => Heads(FatOf(Seen'), e.first)
      <4>1. e.size > 0 => e.first # 0
        BY <1>2, Marks DEF Sits, Heads, Free
      <4> QED
        BY <1>1, <3>1, <4>1
    <3>3. \A n \in Nat, c \in Clusters :
            Leads(FatOf(Seen), e.first, n, c) => Leads(FatOf(Seen'), e.first, n, c)
      BY <1>1, <3>1
    <3> HIDE DEF e, d
    <3> QED
      BY <1>1, <1>2, <1>3, <3>2, <3>3, ContentsKept
  <2> QED
    BY <2>1, <2>2
<1>8. \A i \in Nat : \A u : Holds(Seen, d.first, i, u) => Holds(Seen', d.first, i, u)
  <2>1. \A i \in Nat : i \div PerCluster \in Nat
    BY PlaceIn
  <2> QED
    BY <1>1, <1>3, <2>1 DEF Holds
<1> QED
  BY <1>6, <1>7, <1>8

(* A step that puts a cluster into the chain of the open file.              *)
LEMMA FatGrows ==
  ASSUME Good, KeepInv, ~Unlinking, gone = NoName, SeenFat' \in Fats, Linked(SeenFat'),
         SameData(Seen, Seen'), card' = card, gone' = gone, SeenDir' = SeenDir, HeldAlike,
         ~DirtyDir, ~DirtyDir', file'.name = file.name, file'.size = file.size,
         file.dirty => file'.dirty,
         \A f \in Files : Held[f].first # 0 => Heads(SeenFat', Held[f].first),
         \A d \in Clusters : SeenFat[d] \in Clusters => SeenFat'[d] = SeenFat[d]
  PROVE  /\ UnitsInv' /\ AgreeInv' /\ HandleInv' /\ Saves
         /\ \A first : \A n \in Nat, c \in Clusters :
              Leads(SeenFat, first, n, c) => Leads(SeenFat', first, n, c)
         /\ file.name # NoName =>
              \A i \in Nat : \A u : Holds(Seen, file.first, i, u) => Holds(Seen', file.first, i, u)
<1>0. SeenFat \in Fats /\ TypeInv /\ file.name \in Files \cup {NoName}
  BY TypesAre DEF Good
<1>1. \A first : \A n \in Nat, c \in Clusters :
        Leads(SeenFat, first, n, c) => Leads(SeenFat', first, n, c)
  BY <1>0, LeadsKept
<1>2. \A f \in Files :
        /\ Contents(Seen', Held[f]) = Contents(Seen, Held[f])
        /\ Contents(Seen', SeenDir[f]) = Contents(Seen, SeenDir[f])
        /\ \A i \in Nat : \A u :
             Holds(Seen, Held[f].first, i, u) => Holds(Seen', Held[f].first, i, u)
  BY <1>1, FileKept
<1>3. UnitsInv'
  BY UnitsStay DEF KeepInv
<1>4. AgreeInv'
  <2>1. CardDir = SeenDir /\ CardDir' = CardDir
    BY <1>0, DirClean DEF CardDir
  <2> QED
    BY <1>2, <2>1 DEF KeepInv, AgreeInv
<1>5. HandleInv'
  BY DEF KeepInv, HandleInv
<1>6. Saves
  BY <1>2, ViewsAlike, CardStays DEF Saves
<1>7. file.name # NoName =>
        \A i \in Nat : \A u : Holds(Seen, file.first, i, u) => Holds(Seen', file.first, i, u)
  BY <1>0, <1>2, HeldIs
<1> QED
  BY <1>1, <1>3, <1>4, <1>5, <1>6, <1>7

LEMMA NotDir ==
  ASSUME Good, ~MustFlush, call.at \in {"search", "link", "free", "data"}
  PROVE  ~DirtyDir
<1>1. Wanted # Dir /\ ~Flushing
  BY WantedIs, BlocksApart DEF Flushing
<1> QED
  BY <1>1 DEF MustFlush, DirtyDir

(* What is printed goes into the cluster behind.                            *)
LEMMA PendingOn ==
  ASSUME PendingInv, Same(call'), call'.left = call.left, call.at \in {"search", "link"},
         call'.at \in {"link", "data"}, file'.pos = file.pos, file'.size = file.size,
         file.size \in Nat, call.left \in Nat, call.out \in Seq(Units),
         \/ file'.size = file'.pos
         \/ /\ file'.first = file.first
            /\ \A i \in Nat : \A u : Holds(Seen, file.first, i, u) => Holds(Seen', file.first, i, u)
  PROVE  PendingInv'
<1>1. PICK k : k = Len(call.out) - call.left
  OBVIOUS
<1>2. /\ k = Len(call'.out) - call'.left /\ file'.pos = file'.size + k
      /\ \A j \in 1 .. k : Holds(Seen, file.first, file.size + j - 1, call.out[j])
      /\ k \in Int
  BY <1>1 DEF PendingInv, Same
<1>3. \A j \in 1 .. k : Holds(Seen', file'.first, file'.size + j - 1, call'.out[j])
  <2>1. CASE file'.size = file'.pos
    BY <1>2, <2>1
  <2>2. CASE file'.first = file.first /\ \A i \in Nat : \A u :
               Holds(Seen, file.first, i, u) => Holds(Seen', file.first, i, u)
    <3>1. \A j \in 1 .. k : file.size + j - 1 \in Nat
      BY <1>2
    <3> QED
      BY <1>2, <2>2, <3>1 DEF Same
  <2> QED
    BY <2>1, <2>2
<1> QED
  BY <1>2, <1>3 DEF PendingInv

LEMMA TakeClusterKept ==
  ASSUME Good, KeepInv, TakeCluster
  PROVE  KeepInv' /\ Saves
<1> DEFINE F == SeenFat
           G == SeenFat'
           x == call.c
<1>0. /\ call.at = "search" /\ ~MustFlush /\ ~Unlinking /\ card' = card /\ gone' = gone
      /\ Value[x] = Free /\ Put([Value EXCEPT ![x] = EOC])
  BY DEF TakeCluster, Ready, Unlinking
<1>1. /\ CursorInv /\ F \in Fats /\ file.size \in Nat /\ file.pos \in Nat
      /\ file \in Handles /\ CallOK /\ call.left \in Nat /\ call.out \in Seq(Units)
      /\ file.name \in Files /\ file.name # NoName /\ StoreOK
      /\ file.cur \in {Free} \cup Clusters /\ file.first \in {Free} \cup Clusters
      /\ x \in Clusters /\ Linked(F) /\ {"link", "data"} \subseteq Places
      /\ Wanted = Fat(x) /\ EOC \in FatValues
  BY <1>0, TypesAre, HandleIs, CallIs, WantedIs, Marks
     DEF Good, SoundInv, TypeInv, WorkInv, Places, SeenChains, FatValues
<1>2. /\ G = Marked(F, x, EOC) /\ SeenDir' = SeenDir /\ cache'.block # Dir /\ F[x] = Free
  BY <1>0, <1>1, FatPut
<1>3. gone = NoName /\ ~DirtyDir /\ ~DirtyDir' /\ SameData(Seen, Seen')
  BY <1>0, <1>1, <1>2, NothingGone, NotDir, FatPutData DEF DirtyDir
<1> HIDE DEF F, G, x
<1>4. /\ G \in Fats /\ Linked(G) /\ Heads(G, x)
      /\ \A r : Heads(F, r) => Heads(G, r)
      /\ \A d \in Clusters : F[d] \in Clusters => G[d] = F[d]
  BY <1>1, <1>2, TakeKeeps
<1>5. \A f \in Files : Held[f].first # 0 => Heads(G, Held[f].first)
  BY <1>0, <1>4, FilesSit DEF F
<1>6. ~ahead /\ call.op = "print" /\ call.left > 0 /\ file.pos % PerCluster = 0
  BY <1>0, <1>1 DEF KeepInv, ExactInv, OpInv, CursorInv
<1>7. CASE file.cur = 0
  <2>1. /\ file' = OnFirst(file, x) /\ ahead' = TRUE /\ call' = [call EXCEPT !.at = "data"]
    BY <1>7 DEF TakeCluster, Go, x, OnFirst
  <2>2. /\ file'.cur = x /\ file'.first = x /\ file'.name = file.name
        /\ file'.size = file.size /\ file'.pos = file.pos
    BY <1>1, <2>1, AtFirst
  <2>3. file'.dirty = TRUE
    BY <1>1, <2>1 DEF OnFirst, Handles
  <2>4. Same(call') /\ call'.at = "data" /\ call'.left = call.left
    BY <1>1, <2>1, GoesTo
  <2>5. file.pos = 0 /\ file.size = 0 /\ file.first = 0
    BY <1>0, <1>1, <1>7 DEF CursorInv
  <2>6. HeldAlike
    BY <1>2, <2>2, <2>5 DEF HeldAlike, Held
  <2>7. UnitsInv' /\ AgreeInv' /\ HandleInv' /\ Saves
    BY <1>0, <1>2, <1>3, <1>4, <1>5, <2>2, <2>3, <2>6, FatGrows DEF F, G
  <2>8. ExactInv'
    <3>1. Leads(G, x, 0, x) /\ 0 \div PerCluster = 0
      BY <1>1, <1>4, LeadsStart, Geometry
    <3> QED
      BY <1>1, <2>1, <2>2, <2>4, <2>5, <3>1 DEF ExactInv, G
  <2>9. OpInv' /\ ThereInv'
    BY <1>6, <2>4, PrintKeeps DEF Same
  <2>10. PendingInv'
    BY <1>0, <1>1, <2>2, <2>4, <2>5, PendingOn DEF KeepInv
  <2> QED
    BY <2>7, <2>8, <2>9, <2>10 DEF KeepInv
<1>8. CASE file.cur # 0
  <2>1. file' = file /\ ahead' = ahead /\ call' = [call EXCEPT !.at = "link"]
    BY <1>8 DEF TakeCluster, Go, x
  <2>2. Same(call') /\ call'.at = "link" /\ call'.left = call.left
    BY <1>1, <2>1, GoesTo
  <2>3. HeldAlike
    BY <1>2, <2>1 DEF HeldAlike, Held
  <2>4. /\ UnitsInv' /\ AgreeInv' /\ HandleInv' /\ Saves
        /\ \A first : \A n \in Nat, c \in Clusters : Leads(F, first, n, c) => Leads(G, first, n, c)
        /\ \A i \in Nat : \A u : Holds(Seen, file.first, i, u) => Holds(Seen', file.first, i, u)
    BY <1>0, <1>1, <1>2, <1>3, <1>4, <1>5, <2>1, <2>3, FatGrows DEF F, G
  <2>5. ExactInv'
    <3>1. file.pos > 0 /\ Leads(F, file.first, Index(file.pos), file.cur) /\ file.cur \in Clusters
      BY <1>0, <1>1, <1>8 DEF KeepInv, ExactInv, F, Free
    <3>2. Index(file.pos) \in Nat
      BY <1>1, <3>1, IndexType
    <3>3. Leads(G, file.first, Index(file.pos), file.cur)
      BY <2>4, <3>1, <3>2
    <3> QED
      BY <1>1, <1>6, <2>1, <2>2, <3>1, <3>3 DEF ExactInv, G
  <2>6. OpInv' /\ ThereInv'
    BY <1>6, <2>2, PrintKeeps DEF Same
  <2>7. PendingInv'
    BY <1>0, <1>1, <2>1, <2>2, <2>4, PendingOn DEF KeepInv
  <2> QED
    BY <2>4, <2>5, <2>6, <2>7 DEF KeepInv
<1> QED
  BY <1>7, <1>8

LEMMA LinkKept ==
  ASSUME Good, KeepInv, Link
  PROVE  KeepInv' /\ Saves
<1> DEFINE F == SeenFat
           G == SeenFat'
           x == call.c
           e == file.cur
<1>0. /\ call.at = "link" /\ ~MustFlush /\ ~Unlinking /\ card' = card /\ gone' = gone
      /\ Put([Value EXCEPT ![e] = x]) /\ ahead' = TRUE
      /\ file' = [file EXCEPT !.cur = x] /\ call' = [call EXCEPT !.at = "data"]
  BY DEF Link, Ready, Unlinking, Go
<1>1. /\ CursorInv /\ F \in Fats /\ file.size \in Nat /\ file.pos \in Nat
      /\ file \in Handles /\ CallOK /\ call.left \in Nat /\ call.out \in Seq(Units)
      /\ file.name # NoName /\ StoreOK /\ e \in Clusters /\ e # 0
      /\ x \in Clusters /\ Linked(F) /\ "data" \in Places
      /\ Wanted = Fat(e) /\ x \in FatValues /\ NewClusterInv
  BY <1>0, TypesAre, HandleIs, CallIs, WantedIs, Marks
     DEF Good, SoundInv, TypeInv, WorkInv, Places, SeenChains, FatValues, Free
<1>2. /\ G = Marked(F, e, x) /\ SeenDir' = SeenDir /\ cache'.block # Dir
  BY <1>0, <1>1, FatPut
<1>3. gone = NoName /\ ~DirtyDir /\ ~DirtyDir' /\ SameData(Seen, Seen')
  BY <1>0, <1>1, <1>2, NothingGone, NotDir, FatPutData DEF DirtyDir
<1>4. Heads(F, x) /\ x # e /\ (\A f \in Files : Held[f].first # x) /\ F[e] = EOC
  BY <1>0, <1>1 DEF NewClusterInv, CursorInv
<1>5. /\ file.pos > 0 /\ Leads(F, file.first, Index(file.pos), e) /\ file.pos % PerCluster = 0
      /\ call.op = "print" /\ call.left > 0
  BY <1>0, <1>1 DEF KeepInv, ExactInv, OpInv
<1> HIDE DEF F, G, e, x
<1>6. /\ G \in Fats /\ Linked(G) /\ G[e] = x
      /\ \A r : Heads(F, r) /\ r # x => Heads(G, r)
      /\ \A d \in Clusters : F[d] \in Clusters => G[d] = F[d]
  BY <1>1, <1>2, <1>4, LinkKeeps
<1>7. \A f \in Files : Held[f].first # 0 => Heads(G, Held[f].first)
  BY <1>0, <1>4, <1>6, FilesSit DEF F
<1>8. /\ file'.cur = x /\ file'.name = file.name /\ file'.dirty = file.dirty
      /\ file'.size = file.size /\ file'.pos = file.pos /\ file'.first = file.first
  BY <1>0, <1>1, AtCluster
<1>9. Same(call') /\ call'.at = "data" /\ call'.left = call.left
  BY <1>0, <1>1, GoesTo
<1>10. HeldAlike
  BY <1>2, <1>8 DEF HeldAlike, Held
<1>11. /\ UnitsInv' /\ AgreeInv' /\ HandleInv' /\ Saves
       /\ \A first : \A n \in Nat, c \in Clusters : Leads(F, first, n, c) => Leads(G, first, n, c)
       /\ \A i \in Nat : \A u : Holds(Seen, file.first, i, u) => Holds(Seen', file.first, i, u)
  BY <1>0, <1>1, <1>2, <1>3, <1>6, <1>7, <1>8, <1>10, FatGrows DEF F, G
<1>12. ExactInv'
  <2>1. Index(file.pos) \in Nat /\ file.pos \div PerCluster = Index(file.pos) + 1
    BY <1>1, <1>5, IndexType, IndexIsAtEnd
  <2>2. Leads(G, file.first, Index(file.pos), e)
    BY <1>1, <1>5, <1>11, <2>1
  <2>3. Leads(G, file.first, file.pos \div PerCluster, x)
    BY <1>1, <1>6, <2>1, <2>2, LeadsOn
  <2> QED
    BY <1>0, <1>1, <1>8, <1>9, <2>3 DEF ExactInv, G
<1>13. OpInv' /\ ThereInv'
  BY <1>5, <1>9, PrintKeeps DEF Same
<1>14. PendingInv'
  BY <1>0, <1>1, <1>8, <1>9, <1>11, PendingOn DEF KeepInv
<1> QED
  BY <1>11, <1>12, <1>13, <1>14 DEF KeepInv
-----------------------------------------------------------------------------
(* A cluster less empties the file: its chain is cut before its entry is.   *)
LEMMA NoUnitsIsNoName == <<>> # NoName
<1>1. <<>> \in Seq(Nat)
  OBVIOUS
<1> QED
  BY <1>1, GeometryAssumption

(* remove() frees a cluster: from the first on the file is empty, through   *)
(* the cache as on the card, where a chain cut off is not read any more.    *)
LEMMA FreeClusterKept ==
  ASSUME Good, KeepInv, FreeCluster
  PROVE  KeepInv' /\ Empties
<1> DEFINE F == SeenFat
           G == SeenFat'
           x == call.c
<1> PICK h : h = call.name
  OBVIOUS
<1>0. /\ call.at = "free" /\ ~MustFlush /\ card' = card /\ file' = file /\ ahead' = ahead
      /\ Put([Value EXCEPT ![x] = Free]) /\ gone' = h
      /\ \/ Value[x] = EOC /\ call' = [call EXCEPT !.at = "clear"]
         \/ Value[x] # EOC /\ call' = [call EXCEPT !.c = Value[x]]
  BY DEF FreeCluster, Ready, Go
<1>1. /\ CallOK /\ StoreOK /\ h \in Files /\ h # NoName /\ file = NoHandle /\ TypeInv
      /\ F \in Fats /\ Wanted = Fat(x) /\ x \in Clusters /\ Free \in FatValues
      /\ "clear" \in Places /\ Linked(F) /\ SeenDir \in [Files -> Entry]
      /\ Heads(F, x) /\ \A f \in Files \ {h} : SeenDir[f].first # x
  BY <1>0, TypesAre, WantedIs, NoNameIsNone
     DEF Good, SoundInv, TypeInv, WorkInv, SeenChains, Places, FreedInv, FatValues
<1>2. /\ G = Marked(F, x, Free) /\ SeenDir' = SeenDir /\ cache'.block # Dir /\ F[x] = Value[x]
  BY <1>0, <1>1, FatPut
<1>3. gone \in {NoName, h} /\ ~DirtyDir /\ SameData(Seen, Seen')
  BY <1>0, <1>1, OnlyOneGone, NotDir, FatPutData
<1>4. \A f \in Files : Held[f] = SeenDir[f] /\ Held'[f] = SeenDir[f]
  BY <1>0, <1>1, <1>2, NoHandleIs, NoNameIsNone DEF Held
<1>5. call.op = "remove" /\ SeenDir[h].there
  BY <1>0 DEF KeepInv, OpInv, ThereInv, Removing
<1> HIDE DEF F, G, x
<1>6. /\ G \in Fats /\ Linked(G) /\ \A r : Heads(F, r) /\ r # x => Heads(G, r)
      /\ \A d \in Clusters : d # x => G[d] = F[d]
      /\ F[x] # EOC => F[x] \in Clusters
  BY <1>1, <1>2, FreeKeeps
<1>7. \A f \in Files \ {h} :
        /\ Contents(Seen', Held[f]) = Contents(Seen, Held[f])
        /\ Contents(Seen', SeenDir[f]) = Contents(Seen, SeenDir[f])
  <2> TAKE f \in Files \ {h}
  <2>1. f # gone /\ f # NoName
    BY <1>3, NoNameIsNone
  <2>2. Held[f].first # x
    BY <1>1, <1>4
  <2>3. Held[f].first # 0 => Heads(G, Held[f].first)
    BY <1>6, <2>1, <2>2, FilesSit DEF F
  <2>4. \A n \in Nat, c \in Clusters :
          Leads(F, Held[f].first, n, c) => Leads(G, Held[f].first, n, c)
    BY <1>1, <1>6, <2>2, LeadsPast
  <2> QED
    BY <1>3, <1>6, <2>1, <2>3, <2>4, FileKept DEF F, G
<1>8. /\ Same(call') /\ call'.at \in {"free", "clear"}
  <2>1. CASE Value[x] = EOC /\ call' = [call EXCEPT !.at = "clear"]
    BY <1>1, <2>1, GoesTo
  <2>2. CASE Value[x] # EOC /\ call' = [call EXCEPT !.c = Value[x]]
    <3>1. PICK y : y = Value[x]
      OBVIOUS
    <3>2. y \in Nat /\ call' = [call EXCEPT !.c = y]
      BY <1>2, <1>6, <2>2, <3>1, Marks
    <3> QED
      BY <1>0, <1>1, <3>2, GoesAlong
  <2> QED
    BY <1>0, <2>1, <2>2 DEF x
<1>9. UnitsInv'
  BY <1>0, <1>3, UnitsStay DEF KeepInv
<1>10. AgreeInv'
  <2>1. CardDir = SeenDir /\ CardDir' = CardDir
    BY <1>0, <1>1, <1>3, DirClean DEF CardDir
  <2>2. \A f \in Files \ {h} : Contents(Seen, CardDir[f]) = Contents(card, CardDir[f])
    BY <1>3, NoNameIsNone DEF KeepInv, AgreeInv
  <2> QED
    BY <1>0, <1>7, <2>1, <2>2 DEF AgreeInv
<1>11. HandleInv' /\ PendingInv' /\ OpInv' /\ ThereInv'
  <2>1. HandleInv' /\ PendingInv'
    BY <1>0, <1>1, <1>8, NoHandleIs DEF HandleInv, PendingInv
  <2>2. OpInv' /\ ThereInv'
    BY <1>0, <1>2, <1>5, <1>8 DEF OpInv, ThereInv, Same, Removing
  <2> QED
    BY <2>1, <2>2
<1>12. ExactInv'
  <2>1. ~ahead
    BY <1>1, NoHandleIs DEF KeepInv, ExactInv
  <2> QED
    BY <1>0, <1>1, <1>8, <2>1, NoHandleIs, ExactNone
<1>13. View(h) # NoName
  <2>1. Contents(Seen, SeenDir[h]) # NoName
    <3>1. FatOf(Seen) \in Fats /\ UnitBlocks(Seen) /\ SeenDir[h] \in Entry
      BY <1>1, FatsAre DEF KeepInv, UnitsInv
    <3> QED
      BY <1>5, <3>1, ContentsType
  <2> QED
    BY <1>1, <1>4, <2>1, ViewIs, NoUnitsIsNoName
<1>14. View(h)' = <<>> /\ CardView(h)' = <<>>
  BY <1>0, <1>1, <1>2, <1>5, ViewIsNext, CardViewIs
<1>15. \A g \in Files \ {h} : View(g)' = View(g) /\ CardView(g)' = CardView(g)
  <2> TAKE g \in Files \ {h}
  <2>1. g # gone /\ g # gone'
    BY <1>0, <1>3, NoNameIsNone
  <2>2. View(g)' = View(g)
    BY <1>4, <1>7, <2>1, ViewIs, ViewIsNext
  <2>3. CardDir' = CardDir
    BY <1>0 DEF CardDir
  <2> QED
    BY <1>0, <2>1, <2>2, <2>3, CardViewIs
<1>16. Empties
  BY <1>1, <1>13, <1>14, <1>15 DEF Empties
<1> QED
  BY <1>9, <1>10, <1>11, <1>12, <1>16 DEF KeepInv
-----------------------------------------------------------------------------
(* The block of data once n units of the print are in it.                   *)
NewUnit(n, i) ==
  IF i - (file.pos % PerBlock) \in 1 .. n
  THEN call.out[(Len(call.out) - call.left) + (i - (file.pos % PerBlock))]
  ELSE IF Fresh THEN 0 ELSE Value[i]

Filling(n) == [i \in 1 .. PerBlock |-> NewUnit(n, i)]

Room(n) == n \in Nat /\ 0 < n /\ n <= call.left /\ (file.pos % PerBlock) + n <= PerBlock

LEMMA FillingIs ==
  ASSUME NEW n, NEW r \in 1 .. PerBlock
  PROVE  /\ Filling(n)[r] = NewUnit(n, r)
         /\ r - (file.pos % PerBlock) \in 1 .. n =>
              Filling(n)[r] = call.out[(Len(call.out) - call.left) + (r - (file.pos % PerBlock))]
<1>1. Filling(n)[r] = NewUnit(n, r)
  BY DEF Filling
<1> QED
  BY <1>1, Zenon DEF NewUnit

LEMMA DataIs ==
  ASSUME Good, KeepInv, call.at = "data"
  PROVE  /\ SeenFat \in Fats /\ Linked(SeenFat) /\ StoreOK /\ TypeInv /\ CallOK /\ file \in Handles
         /\ file.name \in Files /\ file.name # NoName /\ file.cur \in Clusters /\ file.pos \in Nat
         /\ file.size \in Nat /\ file.pos >= file.size /\ call.left \in Nat /\ call.left > 0
         /\ call.left <= Len(call.out) /\ call.out \in Seq(Units) /\ call.op = "print"
         /\ Leads(SeenFat, file.first, file.pos \div PerCluster, file.cur)
         /\ file.pos \div PerCluster \in Nat /\ Heads(SeenFat, file.first) /\ ~Unlinking
         /\ Wanted = Data(file.cur, (file.pos % PerCluster) \div PerBlock) /\ Wanted \in Blocks
         /\ (file.pos % PerCluster) \div PerBlock \in 0 .. BlocksPerCluster - 1
         /\ file.pos % PerBlock \in 0 .. PerBlock - 1 /\ PerBlock \in Nat \ {0}
         /\ Value = Seen[Wanted]
<1>1. /\ SeenFat \in Fats /\ Linked(SeenFat) /\ StoreOK /\ TypeInv /\ CallOK /\ file \in Handles
      /\ file.name \in Files /\ file.name # NoName /\ file.pos \in Nat
      /\ file.size \in Nat /\ file.pos >= file.size /\ call.left \in Nat
      /\ call.left <= Len(call.out) /\ call.out \in Seq(Units)
      /\ PerBlock \in Nat \ {0}
  BY TypesAre, HandleIs, CallIs, Geometry
     DEF Good, SoundInv, TypeInv, WorkInv, SeenChains, CursorInv
<1>2. file.cur \in Clusters /\ Wanted \in Blocks
  BY WantedIs
<1>3. call.op = "print" /\ call.left > 0
      /\ Leads(SeenFat, file.first, file.pos \div PerCluster, file.cur)
  BY DEF KeepInv, OpInv, ExactInv
<1>4. /\ (file.pos % PerCluster) \div PerBlock \in 0 .. BlocksPerCluster - 1
      /\ file.pos % PerBlock \in 0 .. PerBlock - 1 /\ file.pos \div PerCluster \in Nat
      /\ (file.pos \div PerBlock) % BlocksPerCluster = (file.pos % PerCluster) \div PerBlock
  BY <1>1, PlaceIn
<1>5. Wanted = Data(file.cur, (file.pos % PerCluster) \div PerBlock)
  BY <1>4 DEF Wanted
<1>6. Value = Seen[Wanted]
  BY <1>1, <1>2, ValueIs DEF StoreOK
<1>7. ~Unlinking
  BY DEF Unlinking
<1>8. Heads(SeenFat, file.first)
  <2>1. file.first \in Clusters
    BY <1>1, <1>3, <1>4, LeadsTo
  <2> QED
    BY <1>1, <1>7, <2>1, OpenFileStored, Marks DEF Free
<1> QED
  BY <1>1, <1>2, <1>3, <1>4, <1>5, <1>6, <1>7, <1>8

(* What Store does.                                                         *)
LEMMA StoreIs ==
  ASSUME Good, KeepInv, Store
  PROVE  /\ call.at = "data" /\ ~MustFlush /\ card' = card /\ gone' = gone /\ ahead' = FALSE
         /\ \E n \in Nat :
              /\ Room(n) /\ Put(Filling(n))
              /\ file'.name = file.name /\ file'.first = file.first /\ file'.cur = file.cur
              /\ file'.pos = file.pos + n
              /\ \/ /\ n < call.left /\ file'.size = file.size /\ file'.dirty = file.dirty
                    /\ Same(call') /\ call'.left = call.left - n
                    /\ call'.at = IF file'.pos % PerCluster = 0 THEN "next" ELSE "data"
                 \/ /\ n = call.left /\ file'.size = file.pos + n /\ file'.dirty = TRUE
                    /\ file'.size \in Units /\ call' = NoCall
<1> DEFINE from == file.pos % PerBlock
           n == Min({PerBlock - from, call.left})
           p == file.pos + n
<1>1. /\ call.at = "data" /\ ~MustFlush /\ card' = card /\ gone' = gone /\ ahead' = FALSE
      /\ Put(Filling(n))
  <2>1. call.at = "data" /\ ~MustFlush /\ card' = card /\ gone' = gone /\ ahead' = FALSE
    BY DEF Store, Ready
  <2>2. Put([i \in 1 .. PerBlock |->
               IF i - from \in 1 .. n THEN call.out[(Len(call.out) - call.left) + i - from]
               ELSE IF Fresh THEN 0 ELSE Value[i]])
    BY Zenon DEF Store
  <2>3. Filling(n) = [i \in 1 .. PerBlock |->
               IF i - from \in 1 .. n THEN call.out[(Len(call.out) - call.left) + i - from]
               ELSE IF Fresh THEN 0 ELSE Value[i]]
    BY Zenon DEF Filling, NewUnit
  <2> QED
    BY <2>1, <2>2, <2>3
<1>2. /\ file.pos \in Nat /\ call.left \in Nat /\ call.left > 0 /\ from \in 0 .. PerBlock - 1
      /\ PerBlock \in Nat \ {0} /\ file \in Handles /\ CallOK /\ {"data", "next"} \subseteq Places
  BY <1>1, DataIs DEF Places
<1>3. PerBlock - from \in Nat /\ PerBlock - from > 0
  <2> HIDE DEF from
  <2> QED
    BY <1>2
<1>4. n \in {PerBlock - from, call.left} /\ n <= PerBlock - from /\ n <= call.left /\ n \in Nat
  BY <1>2, <1>3, Least
<1>5. Room(n)
  <2> HIDE DEF n
  <2>1. 0 < n
    BY <1>2, <1>3, <1>4
  <2>2. from + n <= PerBlock
    <3> HIDE DEF from
    <3> QED
      BY <1>2, <1>4
  <2> QED
    BY <1>4, <2>1, <2>2 DEF Room
<1>6. p \in Units /\ p \in Nat
  <2>1. file.pos + call.left <= printed /\ printed \in Nat /\ printed <= MaxUnits
    BY Geometry DEF Good, AmountInv, TypeInv, PastOK, Units
  <2> HIDE DEF n
  <2> QED
    BY <1>2, <1>4, <2>1, Geometry DEF Units
<1>7. PICK f : f = [file EXCEPT !.pos = p]
  OBVIOUS
<1>8. /\ f \in Handles /\ f.pos = p /\ f.cur = file.cur /\ f.name = file.name
      /\ f.size = file.size /\ f.first = file.first /\ f.dirty = file.dirty
  BY <1>2, <1>6, <1>7, AtPosition
<1>9. \/ /\ n < call.left /\ file' = f
         /\ \E next \in {"data", "next"} :
              /\ next = IF p % PerCluster = 0 THEN "next" ELSE "data"
              /\ call' = [call EXCEPT !.at = next, !.left = call.left - n]
      \/ /\ ~(n < call.left) /\ file' = Ended(f, p) /\ call' = NoCall
  BY <1>7, <1>8 DEF Store, Ended
<1>10. call.left - n \in Nat /\ call.left - n <= call.left
  <2> HIDE DEF n
  <2> QED
    BY <1>2, <1>4
<1> HIDE DEF n, p, from
<1>11. CASE n < call.left
  <2>1. PICK next \in {"data", "next"} :
          /\ file' = f /\ next = IF p % PerCluster = 0 THEN "next" ELSE "data"
          /\ call' = [call EXCEPT !.at = next, !.left = call.left - n]
    BY <1>9, <1>11
  <2>2. Same(call') /\ call'.at = next /\ call'.left = call.left - n
    BY <1>2, <1>10, <2>1, GoesStoring
  <2> QED
    BY <1>1, <1>4, <1>5, <1>8, <1>11, <2>1, <2>2 DEF p
<1>12. CASE ~(n < call.left)
  <2>1. file' = Ended(f, p) /\ call' = NoCall
    BY <1>9, <1>12
  <2>2. /\ file'.size = p /\ file'.cur = file.cur
        /\ file'.first = file.first /\ file'.name = file.name /\ file'.pos = p
    BY <1>6, <1>8, <2>1, AtEnd
  <2>3. file'.dirty = TRUE
    BY <1>8, <2>1 DEF Ended, Handles
  <2>4. n = call.left
    BY <1>2, <1>4, <1>12
  <2> QED
    BY <1>1, <1>4, <1>5, <1>6, <2>1, <2>2, <2>3, <2>4 DEF p
<1> QED
  BY <1>11, <1>12
-----------------------------------------------------------------------------
(* What the block then holds: the units before those of the print as they   *)
(* were, behind them the print, and no unit of another file.                *)
LEMMA StoredBlocks ==
  ASSUME Good, KeepInv, call.at = "data", ~MustFlush, card' = card, NEW n, Put(Filling(n))
  PROVE  /\ SeenFat' = SeenFat /\ SeenDir' = SeenDir /\ CardDir' = CardDir /\ cache'.block # Dir
         /\ \A c \in Clusters, b \in 0 .. BlocksPerCluster - 1 :
              Seen'[Data(c, b)] = IF Data(c, b) = Wanted THEN Filling(n) ELSE Seen[Data(c, b)]
<1>1. StoreOK /\ Wanted \in Blocks /\ file.cur \in Clusters
  BY DataIs
<1>2. CardKept /\ SeenKept /\ cache'.block # Dir
  BY <1>1, DataIs, DataPut
<1>3. \A b \in Blocks : Seen'[b] = IF b = Wanted THEN Filling(n) ELSE Seen[b]
  BY <1>1, PutStored
<1>4. \A c \in Clusters, b \in 0 .. BlocksPerCluster - 1 : Data(c, b) \in Blocks
  BY DEF Blocks, DataBlocks
<1> QED
  BY <1>2, <1>3, <1>4 DEF CardKept, SeenKept

LEMMA DataSame == \A c, b, d, l : Data(c, b) = Data(d, l) => c = d /\ b = l
  BY DEF Data

LEMMA StoredUnits ==
  ASSUME Good, KeepInv, call.at = "data", ~MustFlush, card' = card, NEW n, Room(n),
         Put(Filling(n))
  PROVE  UnitsInv'
<1> DEFINE from == file.pos % PerBlock
           done == Len(call.out) - call.left
<1>1. /\ from \in 0 .. PerBlock - 1 /\ call.left \in Nat /\ call.left <= Len(call.out)
      /\ call.out \in Seq(Units) /\ file.cur \in Clusters
      /\ Wanted = Data(file.cur, (file.pos % PerCluster) \div PerBlock)
      /\ (file.pos % PerCluster) \div PerBlock \in 0 .. BlocksPerCluster - 1
      /\ Value = Seen[Wanted] /\ n \in Nat /\ n <= call.left
  BY DataIs DEF Room
<1>2. Value \in [1 .. PerBlock -> Units] /\ 0 \in Units
  BY <1>1, Geometry DEF KeepInv, UnitsInv, UnitBlocks, Units
<1>3. \A i \in 1 .. PerBlock : Filling(n)[i] \in Units
  <2> TAKE i \in 1 .. PerBlock
  <2>0. Filling(n)[i] = NewUnit(n, i)
    BY FillingIs
  <2>1. CASE i - from \in 1 .. n
    <3>1. done + (i - from) \in 1 .. Len(call.out)
      <4> HIDE DEF from
      <4> QED
        BY <1>1, <2>1
    <3>2. call.out[done + (i - from)] \in Units
      BY <1>1, <3>1
    <3> QED
      BY <2>1, <3>2, FillingIs
  <2>2. CASE ~(i - from \in 1 .. n)
    <3>1. NewUnit(n, i) \in {0, Value[i]}
      BY <2>2 DEF NewUnit
    <3>2. Value[i] \in Units
      BY <1>2
    <3> QED
      BY <1>2, <2>0, <3>1, <3>2
  <2> QED
    BY <2>1, <2>2
<1>4. Filling(n) \in [1 .. PerBlock -> Units]
  BY <1>3 DEF Filling
<1>5. UnitBlocks(Seen')
  BY <1>4, StoredBlocks DEF KeepInv, UnitsInv, UnitBlocks
<1>6. UnitBlocks(card')
  BY DEF KeepInv, UnitsInv
<1> QED
  BY <1>5, <1>6 DEF UnitsInv

LEMMA StoredBefore ==
  ASSUME Good, KeepInv, call.at = "data", ~MustFlush, card' = card, NEW n, Room(n),
         Put(Filling(n)), NEW i \in Nat, i < file.pos, NEW c \in Clusters,
         Leads(SeenFat, file.first, i \div PerCluster, c)
  PROVE  At(Seen', c, i) = At(Seen, c, i)
<1> DEFINE l == (i % PerCluster) \div PerBlock
           r == (i % PerBlock) + 1
<1>1. l \in 0 .. BlocksPerCluster - 1 /\ r \in 1 .. PerBlock /\ i \div PerCluster \in Nat
  BY PlaceIn
<1>2. Seen'[Data(c, l)] = IF Data(c, l) = Wanted THEN Filling(n) ELSE Seen[Data(c, l)]
  BY <1>1, StoredBlocks
<1>3. CASE Data(c, l) # Wanted
  BY <1>2, <1>3 DEF At
<1>4. CASE Data(c, l) = Wanted
  <2>1. /\ c = file.cur /\ l = (file.pos % PerCluster) \div PerBlock
    BY <1>4, DataIs, DataSame
  <2>2. i \div PerCluster = file.pos \div PerCluster
    BY <1>1, <2>1, DataIs, LeadsApart
  <2>3. i - file.pos = (i % PerBlock) - (file.pos % PerBlock)
    BY <2>1, <2>2, DataIs, LaterPlace
  <2>4. i % PerBlock < file.pos % PerBlock
    <3>1. i % PerBlock \in 0 .. PerBlock - 1 /\ file.pos % PerBlock \in 0 .. PerBlock - 1
          /\ file.pos \in Nat
      BY DataIs, PlaceIn
    <3> QED
      BY <2>3, <3>1
  <2>5. ~(r - (file.pos % PerBlock) \in 1 .. n) /\ file.pos % PerBlock # 0
    <3>1. i % PerBlock \in 0 .. PerBlock - 1 /\ file.pos % PerBlock \in 0 .. PerBlock - 1
      BY DataIs, PlaceIn
    <3> QED
      BY <2>4, <3>1
  <2>6. ~Fresh
    BY <2>5 DEF Fresh
  <2>7. Filling(n)[r] = Value[r]
    <3> HIDE DEF r
    <3>1. Filling(n)[r] = NewUnit(n, r)
      BY <1>1, FillingIs
    <3> QED
      BY <3>1, <2>5, <2>6 DEF NewUnit
  <2> QED
    BY <1>2, <1>4, <2>7, DataIs DEF At
<1> QED
  BY <1>3, <1>4

LEMMA StoredApart ==
  ASSUME Good, KeepInv, call.at = "data", ~MustFlush, card' = card, NEW n, Room(n),
         Put(Filling(n)), NEW first, Heads(SeenFat, first), first # file.first,
         NEW m \in Nat, NEW c \in Clusters, Leads(SeenFat, first, m, c), NEW i \in Nat
  PROVE  At(Seen', c, i) = At(Seen, c, i)
<1> DEFINE l == (i % PerCluster) \div PerBlock
<1>1. l \in 0 .. BlocksPerCluster - 1
  BY PlaceIn
<1>2. c # file.cur
  BY DataIs, LeadsApart
<1>3. Data(c, l) # Wanted
  BY <1>2, DataIs, DataSame
<1> QED
  BY <1>1, <1>3, StoredBlocks DEF At

LEMMA StoredNow ==
  ASSUME Good, KeepInv, call.at = "data", ~MustFlush, card' = card, NEW n, Room(n),
         Put(Filling(n)), NEW j \in 1 .. n
  PROVE  Holds(Seen', file.first, file.pos + (j - 1), call.out[(Len(call.out) - call.left) + j])
<1> DEFINE from == file.pos % PerBlock
           l == (file.pos % PerCluster) \div PerBlock
           i == file.pos + (j - 1)
<1>1. from \in 0 .. PerBlock - 1 /\ n \in Nat /\ from + n <= PerBlock /\ PerBlock \in Nat
      /\ file.pos \in Nat /\ j - 1 \in Nat /\ i \in Nat
  BY DataIs DEF Room
<1>2. from + (j - 1) < PerBlock /\ (from + (j - 1)) + 1 \in 1 .. PerBlock
      /\ ((from + (j - 1)) + 1) - from = j
  <2> HIDE DEF from
  <2> QED
    BY <1>1
<1>3. /\ i \div PerCluster = file.pos \div PerCluster /\ (i % PerCluster) \div PerBlock = l
      /\ i % PerBlock = from + (j - 1)
  BY <1>1, <1>2, SamePlace
<1>4. At(Seen', file.cur, i) = Filling(n)[(from + (j - 1)) + 1]
  <2>1. Seen'[Data(file.cur, l)] = Filling(n)
    BY DataIs, StoredBlocks
  <2> HIDE DEF from, i, l
  <2> QED
    BY <1>3, <2>1 DEF At
<1>5. Filling(n)[(from + (j - 1)) + 1] = call.out[(Len(call.out) - call.left) + j]
  <2> DEFINE x == (from + (j - 1)) + 1
             done == Len(call.out) - call.left
  <2>1. x \in 1 .. PerBlock /\ x - from = j /\ done + (x - from) = done + j
    <3>1. done \in Int
      BY DataIs
    <3> HIDE DEF done, from
    <3> QED
      BY <1>1, <1>2, <3>1
  <2>2. x - from \in 1 .. n => Filling(n)[x] = call.out[done + (x - from)]
    <3> HIDE DEF x
    <3> QED
      BY <2>1, FillingIs
  <2>3. x - from \in 1 .. n
    BY <2>1
  <2>4. Filling(n)[x] = call.out[done + j]
    <3> HIDE DEF x, done, from
    <3> QED
      BY <2>1, <2>2, <2>3
  <2> QED
    BY <2>4
<1>6. FatOf(Seen') = SeenFat
  <2>1. FatOf(Seen') = SeenFat'
    BY DEF FatOf, SeenFat
  <2> QED
    BY <2>1, StoredBlocks
<1> HIDE DEF i
<1>7. Holds(Seen', file.first, i, call.out[(Len(call.out) - call.left) + j])
  BY <1>3, <1>4, <1>5, <1>6, DataIs DEF Holds
<1> QED
  BY <1>7 DEF i
-----------------------------------------------------------------------------
(* No file loses a unit to what is stored behind the end of one.            *)
LEMMA StoredFiles ==
  ASSUME Good, KeepInv, call.at = "data", ~MustFlush, card' = card, NEW n, Room(n),
         Put(Filling(n)), NEW f \in Files
  PROVE  /\ Contents(Seen', Held[f]) = Contents(Seen, Held[f])
         /\ Contents(Seen', SeenDir[f]) = Contents(Seen, SeenDir[f])
<1>1. /\ SeenFat \in Fats /\ Linked(SeenFat) /\ ~Unlinking /\ Heads(SeenFat, file.first)
      /\ file.first # 0 /\ file.pos \in Nat /\ file.size \in Nat /\ file.pos >= file.size
      /\ file.name # NoName /\ TypeInv /\ EntryInv /\ Entries(SeenFat, Held, NoName)
  BY DataIs, Marks DEF Good, SoundInv, SeenChains, Heads, Free
<1>2. FatOf(Seen) = SeenFat /\ FatOf(Seen') = SeenFat
  <2>1. FatOf(Seen') = SeenFat'
    BY DEF FatOf, SeenFat
  <2> QED
    BY <1>1, <2>1, StoredBlocks, FatsAre
<1>3. ASSUME NEW e \in Entry, Sits(Seen, e.first, e.size),
             \A i \in Nat, c \in Clusters :
               i < e.size /\ Leads(SeenFat, e.first, i \div PerCluster, c)
                 => At(Seen', c, i) = At(Seen, c, i)
      PROVE  Contents(Seen', e) = Contents(Seen, e)
  <2>1. e.size > 0 => Heads(FatOf(Seen'), e.first)
    BY <1>2, <1>3 DEF Sits
  <2> QED
    BY <1>1, <1>2, <1>3, <2>1, ContentsKept
<1>4. ASSUME NEW e \in Entry, Sits(Seen, e.first, e.size),
             e.size <= file.size, e.first = file.first \/ e.size = 0
      PROVE  Contents(Seen', e) = Contents(Seen, e)
  <2>1. e.size \in Nat
    BY EntryIs
  <2>2. ASSUME NEW i \in Nat, NEW c \in Clusters, i < e.size,
               Leads(SeenFat, e.first, i \div PerCluster, c)
        PROVE  At(Seen', c, i) = At(Seen, c, i)
    <3>1. i < file.pos /\ e.first = file.first
      BY <1>1, <1>4, <2>1, <2>2
    <3> QED
      BY <2>2, <3>1, StoredBefore
  <2> QED
    BY <1>3, <1>4, <2>2
<1>5. /\ Sits(Seen, Held[f].first, Held[f].size) /\ Held[f] \in Entry
      /\ Sits(Seen, SeenDir[f].first, SeenDir[f].size) /\ SeenDir[f] \in Entry
      /\ Held[f].first # 0 => Heads(SeenFat, Held[f].first)
  BY <1>1, FilesSit
<1>6. CASE f = file.name
  <2>1. /\ Held[f].first = file.first /\ Held[f].size = file.size
        /\ SeenDir[f].first = file.first \/ SeenDir[f].size = 0
        /\ SeenDir[f].size <= file.size
    BY <1>1, <1>6, HeldIs DEF EntryInv
  <2>2. Held[f].size <= file.size
    BY <1>1, <2>1
  <2> QED
    BY <1>4, <1>5, <2>1, <2>2
<1>7. CASE f # file.name
  <2>1. Held[f] = SeenDir[f]
    BY <1>7, HeldIs
  <2>2. ASSUME NEW i \in Nat, NEW c \in Clusters,
               Leads(SeenFat, Held[f].first, i \div PerCluster, c)
        PROVE  At(Seen', c, i) = At(Seen, c, i)
    <3>1. i \div PerCluster \in Nat
      BY PlaceIn
    <3>2. Held[f].first \in Clusters
      BY <1>1, <2>2, <3>1, LeadsTo
    <3>3. Held[f].first # 0
      BY <3>2, Marks DEF Free
    <3>4. file.name \in Files /\ Held[file.name].first = file.first
      BY DataIs, HeldIs
    <3>5. Held[f].first # file.first
      BY <1>1, <1>7, <3>3, <3>4, NoNameIsNone DEF Entries
    <3> QED
      BY <1>5, <2>2, <3>1, <3>3, <3>5, StoredApart
  <2>3. Contents(Seen', Held[f]) = Contents(Seen, Held[f])
    BY <1>3, <1>5, <2>2
  <2> QED
    BY <2>1, <2>3
<1> QED
  BY <1>6, <1>7

(* What of the print is stored, with these units.                           *)
LEMMA StoredPending ==
  ASSUME Good, KeepInv, call.at = "data", ~MustFlush, card' = card, NEW n, Room(n),
         Put(Filling(n)), NEW j \in 1 .. (Len(call.out) - call.left) + n
  PROVE  Holds(Seen', file.first, file.size + j - 1, call.out[j])
<1>1. PICK k : k = Len(call.out) - call.left
  OBVIOUS
<1>2. /\ k \in Nat /\ file.pos \in Nat /\ file.size \in Nat /\ file.pos = file.size + k
      /\ \A m \in 1 .. k : Holds(Seen, file.first, file.size + m - 1, call.out[m])
      /\ n \in Nat /\ j \in 1 .. k + n /\ j \in Nat
  <2>1. /\ file.pos \in Nat /\ file.size \in Nat /\ call.left \in Nat /\ n \in Nat
        /\ call.left <= Len(call.out) /\ call.out \in Seq(Units)
    BY DataIs DEF Room
  <2>2. k \in Nat
    BY <1>1, <2>1
  <2>3. /\ file.pos = file.size + k
        /\ \A m \in 1 .. k : Holds(Seen, file.first, file.size + m - 1, call.out[m])
    BY <1>1 DEF KeepInv, PendingInv
  <2>4. j \in 1 .. k + n /\ j \in Nat
    BY <1>1, <2>1, <2>2
  <2> QED
    BY <2>1, <2>2, <2>3, <2>4
<1>3. CASE j <= k
  <2>1. PICK i \in Nat : i = file.size + j - 1 /\ i < file.pos
    BY <1>2, <1>3
  <2>2. Holds(Seen, file.first, i, call.out[j])
    BY <1>2, <1>3, <2>1
  <2>3. FatOf(Seen) = SeenFat /\ FatOf(Seen') = SeenFat
    <3>1. FatOf(Seen') = SeenFat'
      BY DEF FatOf, SeenFat
    <3> QED
      BY <3>1, StoredBlocks, DataIs, FatsAre
  <2>4. Holds(Seen', file.first, i, call.out[j])
    BY <2>1, <2>2, <2>3, StoredBefore DEF Holds
  <2> QED
    BY <2>1, <2>4
<1>4. CASE j > k
  <2>1. j - k \in 1 .. n
    BY <1>2, <1>4
  <2>2. Holds(Seen', file.first, file.pos + ((j - k) - 1), call.out[k + (j - k)])
    BY <1>1, <2>1, StoredNow
  <2>3. file.pos + ((j - k) - 1) = file.size + j - 1 /\ k + (j - k) = j
    BY <1>2
  <2> QED
    BY <2>2, <2>3
<1> QED
  BY <1>2, <1>3, <1>4
-----------------------------------------------------------------------------
(* A block more of the print; the last one makes the file longer.           *)
LEMMA StoreKept ==
  ASSUME Good, KeepInv, Store
  PROVE  KeepInv' /\ (Saves \/ Extends)
<1>1. /\ call.at = "data" /\ ~MustFlush /\ card' = card /\ gone' = gone /\ ahead' = FALSE
  BY StoreIs
<1>2. PICK n \in Nat :
        /\ Room(n) /\ Put(Filling(n))
        /\ file'.name = file.name /\ file'.first = file.first /\ file'.cur = file.cur
        /\ file'.pos = file.pos + n
        /\ \/ /\ n < call.left /\ file'.size = file.size /\ file'.dirty = file.dirty
              /\ Same(call') /\ call'.left = call.left - n
              /\ call'.at = IF file'.pos % PerCluster = 0 THEN "next" ELSE "data"
           \/ /\ n = call.left /\ file'.size = file.pos + n /\ file'.dirty = TRUE
              /\ file'.size \in Units /\ call' = NoCall
  BY StoreIs
<1>3. /\ SeenFat \in Fats /\ Linked(SeenFat) /\ TypeInv /\ file.name \in Files
      /\ file.name # NoName /\ file.pos \in Nat /\ file.size \in Nat /\ call.left \in Nat
      /\ call.left <= Len(call.out) /\ call.out \in Seq(Units) /\ call.op = "print"
      /\ Leads(SeenFat, file.first, file.pos \div PerCluster, file.cur)
      /\ Heads(SeenFat, file.first) /\ ~Unlinking /\ file.cur \in Clusters
  BY <1>1, DataIs
<1>4. /\ SeenFat' = SeenFat /\ SeenDir' = SeenDir /\ CardDir' = CardDir /\ CardDir = SeenDir
      /\ ~DirtyDir' /\ gone = NoName
  <2>1. ~DirtyDir /\ gone = NoName
    BY <1>1, NotDir, NothingGone
  <2> QED
    BY <1>1, <1>2, <1>3, <2>1, StoredBlocks, DirClean DEF DirtyDir
<1>5. \A f \in Files : /\ Contents(Seen', Held[f]) = Contents(Seen, Held[f])
                       /\ Contents(Seen', SeenDir[f]) = Contents(Seen, SeenDir[f])
  BY <1>1, <1>2, StoredFiles
<1>6. UnitsInv'
  BY <1>1, <1>2, StoredUnits
<1>7. AgreeInv'
  BY <1>1, <1>4, <1>5 DEF KeepInv, AgreeInv
<1>8. PICK p \in Nat : p = file.pos + n /\ p > 0
  BY <1>2, <1>3 DEF Room
<1>9. /\ Leads(SeenFat', file'.first, Index(p), file'.cur)
      /\ p % PerCluster # 0 => p \div PerCluster = Index(p)
  <2>1. PICK j \in Nat : j = n - 1 /\ n = j + 1
    BY <1>2 DEF Room
  <2>2. PICK i \in Nat : i = file.pos + j
    BY <1>3
  <2>3. i + 1 = p /\ (file.pos % PerBlock) + j < PerBlock
    <3>1. file.pos % PerBlock \in 0 .. PerBlock - 1 /\ PerBlock \in Nat
      BY <1>1, DataIs
    <3>2. (file.pos % PerBlock) + n <= PerBlock
      BY <1>2 DEF Room
    <3> QED
      BY <1>3, <1>8, <2>1, <2>2, <3>1, <3>2
  <2>4. i \div PerCluster = file.pos \div PerCluster
    BY <1>3, <2>2, <2>3, SamePlace
  <2>5. Index(p) = file.pos \div PerCluster
    BY <2>3, <2>4, IndexIs
  <2>6. p % PerCluster # 0 => p \div PerCluster = Index(p)
    BY IndexIsInside
  <2> QED
    BY <1>2, <1>3, <1>4, <2>5, <2>6
<1>10. \A f \in Files : f # file.name => Held'[f] = Held[f]
  BY <1>2, <1>4 DEF Held
<1>11. \A f \in Files : CardView(f)' = CardView(f)
  BY <1>1, CardStays
<1>12. \A f \in Files : /\ View(f) = Contents(Seen, Held[f])
                        /\ View(f)' = Contents(Seen', Held'[f])
  BY <1>1, <1>4, NoNameIsNone, ViewIs, ViewIsNext
<1>13. SeenDir[file.name].there
       /\ (SeenDir[file.name].size = file.size \/ file.dirty)
  BY <1>3 DEF KeepInv, HandleInv
<1>14. PICK k \in Nat : /\ k = Len(call.out) - call.left /\ file.pos = file.size + k
                        /\ \A j \in 1 .. k + n :
                             Holds(Seen', file.first, file.size + j - 1, call.out[j])
  <2>1. Len(call.out) - call.left \in Nat
    BY <1>3
  <2>2. file.pos = file.size + (Len(call.out) - call.left)
    BY <1>1 DEF KeepInv, PendingInv
  <2> QED
    BY <1>1, <1>2, <2>1, <2>2, StoredPending
<1>15. CASE n < call.left
  <2>1. /\ file'.size = file.size /\ file'.dirty = file.dirty
        /\ Same(call') /\ call'.left = call.left - n /\ call'.left \in Nat /\ call'.left > 0
        /\ call'.at = IF p % PerCluster = 0 THEN "next" ELSE "data"
    BY <1>2, <1>3, <1>8, <1>15
  <2>2. \A f \in Files : Held'[f] = Held[f]
    BY <1>2, <1>10, <2>1 DEF Held
  <2>3. Saves
    BY <1>5, <1>11, <1>12, <2>2 DEF Saves
  <2>4. HandleInv'
    BY <1>2, <1>4, <1>13, <2>1 DEF HandleInv
  <2>5. OpInv' /\ ThereInv'
    BY <1>3, <2>1, PrintKeeps DEF Same
  <2>6. PendingInv'
    <3>1. call'.out = call.out /\ call'.op = "print"
      BY <1>3, <2>1 DEF Same
    <3>2. Len(call'.out) - call'.left = k + n
      BY <1>2, <1>3, <1>14, <2>1, <3>1
    <3>3. file'.pos = file'.size + (k + n)
      BY <1>2, <1>3, <1>14, <2>1
    <3>4. \A j \in 1 .. k + n : Holds(Seen', file'.first, file'.size + j - 1, call'.out[j])
      BY <1>2, <1>14, <2>1, <3>1
    <3> QED
      BY <2>1, <3>1, <3>2, <3>3, <3>4 DEF PendingInv
  <2>7. ExactInv'
    BY <1>1, <1>2, <1>3, <1>8, <1>9, <2>1 DEF ExactInv
  <2> QED
    BY <1>6, <1>7, <2>3, <2>4, <2>5, <2>6, <2>7 DEF KeepInv
<1>16. CASE ~(n < call.left)
  <2>1. /\ n = call.left /\ file'.size = p /\ p \in Units /\ file'.dirty = TRUE /\ call' = NoCall
        /\ file'.pos = p
    BY <1>2, <1>8, <1>16
  <2>2. OpInv' /\ ThereInv' /\ PendingInv'
    BY <2>1, NoCallKeeps
  <2>3. HandleInv'
    BY <1>2, <1>4, <1>13, <2>1 DEF HandleInv
  <2>4. ExactInv'
    BY <1>1, <1>2, <1>3, <1>8, <1>9, <2>1, NoCallIs DEF ExactInv
  <2>5. PICK f \in Files : f = file.name
    BY <1>3
  <2>6. PICK d \in Entry : d = Held[f] /\ d.first = file.first /\ d.size = file.size /\ d.there
                           /\ Sits(Seen, d.first, d.size)
    <3>1. Held[f].there
      BY <2>5 DEF Held
    <3> QED
      BY <1>3, <2>5, <3>1, HeldIs, FilesSit
  <2>7. PICK e \in Entry : e = Held'[f] /\ e.there /\ e.size = p /\ e.first = file.first
    <3>1. Held'[f] = [there |-> TRUE, size |-> p, first |-> file.first]
      BY <1>2, <2>1, <2>5 DEF Held
    <3>2. file.first \in Clusters
      BY <1>3 DEF Heads
    <3>3. [there |-> TRUE, size |-> p, first |-> file.first] \in Entry
      BY <2>1, <3>2 DEF Entry
    <3> QED
      BY <3>1, <3>3
  <2>8. FatOf(Seen) = SeenFat /\ FatOf(Seen') = SeenFat
    <3>1. FatOf(Seen') = SeenFat'
      BY DEF FatOf, SeenFat
    <3> QED
      BY <1>3, <1>4, <3>1, FatsAre
  <2>9. Sits(Seen', e.first, e.size)
    BY <1>2, <1>3, <1>4, <1>8, <1>9, <2>7, <2>8 DEF Sits, Stored
  <2>10. UnitBlocks(Seen) /\ UnitBlocks(Seen')
    BY <1>6 DEF KeepInv, UnitsInv
  <2>11. Len(call.out) = k + n /\ e.size = d.size + Len(call.out)
    BY <1>2, <1>3, <1>8, <1>14, <2>1, <2>6, <2>7
  <2>12. \A i \in Nat : \A u :
           i < d.size /\ Holds(Seen, d.first, i, u) => Holds(Seen', e.first, i, u)
    <3> SUFFICES ASSUME NEW i \in Nat, NEW u, i < d.size, Holds(Seen, d.first, i, u)
                 PROVE  Holds(Seen', e.first, i, u)
      OBVIOUS
    <3>1. i < file.pos
      BY <1>3, <1>14, <2>6
    <3> QED
      BY <1>1, <1>2, <2>6, <2>7, <2>8, <3>1, StoredBefore DEF Holds
  <2>13. \A j \in 1 .. Len(call.out) : Holds(Seen', e.first, d.size + j - 1, call.out[j])
    BY <1>14, <2>6, <2>7, <2>11
  <2>14. Contents(Seen', e) = Contents(Seen, d) \o call.out
    <3>1. call.out \in Seq(Units) /\ Sits(Seen, d.first, d.size) /\ d.there /\ e.there
      BY <1>3, <2>6, <2>7
    <3>2. Prolonged(Seen, d, Seen', e, call.out)
      BY <2>9, <2>10, <2>11, <2>12, <2>13, <3>1 DEF Prolonged
    <3> QED
      BY <3>2, ContentsLonger
  <2>15. View(f)' = View(f) \o call.out
    BY <1>12, <2>6, <2>7, <2>14
  <2>16. View(f) # NoName
    BY <1>3, <1>12, <2>6, <2>8, <2>10, ContentsType
  <2>17. \A g \in Files \ {f} : View(g)' = View(g)
    BY <1>5, <1>10, <1>12, <2>5
  <2>18. Extends
    BY <1>11, <2>15, <2>16, <2>17 DEF Extends, Changes
  <2> QED
    BY <1>6, <1>7, <2>2, <2>3, <2>4, <2>18 DEF KeepInv
<1> QED
  BY <1>15, <1>16
-----------------------------------------------------------------------------
(* What a failure costs.                                                    *)
LEMMA CardFailsKept ==
  ASSUME Good, KeepInv, CardFails
  PROVE  KeepInv' /\ Forgets
<1>0. /\ card' = card /\ gone' = gone /\ losses' = losses /\ faults' = faults + 1
      /\ call' = NoCall /\ ahead' = (ahead /\ call.op # "close")
      /\ cache' = [cache EXCEPT !.state = IF cache.state = "mirror" THEN "dirty" ELSE @]
      /\ file' = IF call.op = "close" THEN NoHandle ELSE file
  BY DEF CardFails
<1>1. /\ TypeInv /\ CacheShape(cache) /\ EntryInv /\ HandleInv /\ ExactInv
      /\ faults \in Nat /\ losses \in Nat
      /\ cache.state = "mirror" => cache.block \in FatBlocks
  BY DEF Good, SoundInv, KeepInv, TypeInv, PastOK, StoreOK, CacheOK
<1>2. /\ cache'.block = cache.block /\ cache'.value = cache.value
      /\ cache'.state = "dirty" => cache.state \in {"dirty", "mirror"}
  BY <1>0, <1>1 DEF CacheShape
<1>3. Rests
  <2>1. Seen' = Seen
    BY <1>0, <1>2 DEF Seen
  <2>2. Dir \notin FatBlocks
    BY BlocksApart DEF FatBlocks
  <2>3. DirtyDir' => DirtyDir
    BY <1>1, <1>2, <2>2 DEF DirtyDir
  <2> QED
    BY <1>0, <2>1, <2>3 DEF Rests
<1>4. OpInv' /\ ThereInv' /\ PendingInv' /\ call'.at = "idle"
  BY <1>0, NoCallKeeps, NoCallIs
<1>5. /\ faults' + losses' > faults + losses
      /\ \A f \in Files : CardView(f)' = CardView(f)
  BY <1>0, <1>1, CardStays
<1>6. SeenDir' = SeenDir /\ CardDir' = CardDir /\ Seen' = Seen /\ SeenFat' = SeenFat
  BY <1>0, <1>3 DEF Rests, SeenDir, CardDir, SeenFat
<1>7. CASE call.op # "close"
  <2>1. file' = file /\ ahead' = ahead
    BY <1>0, <1>1, <1>7 DEF TypeInv, PastOK
  <2>2. UnitsInv' /\ AgreeInv' /\ HandleInv'
    BY <1>3, <2>1, RestsKeep DEF Stays
  <2>3. ExactInv'
    BY <1>1, <1>4, <1>6, <2>1, ExactRests DEF Stays
  <2>4. Held' = Held
    BY <1>6, <2>1 DEF Held
  <2>5. \A f \in Files : View(f)' = View(f)
    BY <1>0, <1>6, <2>4, ViewIs, ViewIsNext
  <2> QED
    BY <1>4, <1>5, <2>2, <2>3, <2>5 DEF KeepInv, Forgets
<1>8. CASE call.op = "close"
  <2>1. file' = NoHandle /\ ~ahead' /\ file'.cur = 0 /\ file'.name = NoName
    BY <1>0, <1>8, NoHandleIs
  <2>2. UnitsInv' /\ AgreeInv'
    BY <1>0, <1>6 DEF KeepInv, UnitsInv, AgreeInv
  <2>3. HandleInv' /\ ExactInv'
    BY <1>4, <2>1, ExactNone DEF HandleInv
  <2>4. ASSUME NEW f \in Files
        PROVE  View(f)' = View(f) \/ View(f)' = CardView(f)
    <3>1. Held'[f] = SeenDir[f]
      BY <1>6, <2>1, NoNameIsNone DEF Held
    <3>2. View(f)' = IF gone = f /\ SeenDir[f].there THEN <<>> ELSE Contents(Seen, SeenDir[f])
      BY <1>0, <1>6, <3>1, ViewIsNext
    <3>3. CASE f # file.name \/ ~file.dirty \/ DirtyDir
      <4>1. Contents(Seen, SeenDir[f]) = Contents(Seen, Held[f])
        BY <1>1, <3>3, EntryHolds
      <4> QED
        BY <3>2, <4>1, ViewIs
    <3>4. CASE f = file.name /\ ~DirtyDir
      <4>1. SeenDir[f].there /\ CardDir = SeenDir
        BY <1>1, <3>4, NoNameIsNone, DirClean DEF HandleInv
      <4>2. gone # f => Contents(Seen, SeenDir[f]) = Contents(card, CardDir[f])
        BY <4>1 DEF KeepInv, AgreeInv
      <4> QED
        BY <3>2, <4>1, <4>2, CardViewIs
    <3> QED
      BY <3>3, <3>4
  <2> QED
    BY <1>4, <1>5, <2>2, <2>3, <2>4 DEF KeepInv, Forgets
<1> QED
  BY <1>7, <1>8

LEMMA PowerFailsKept ==
  ASSUME Good, KeepInv, PowerFails, ~broken'
  PROVE  KeepInv' /\ Forgets
<1>0. /\ card' = card /\ gone' = gone /\ losses' = losses + 1 /\ faults' = faults
      /\ call' = NoCall /\ ahead' = FALSE /\ cache' = Unused /\ file' = NoHandle
      /\ broken' = (broken \/ gone # NoName)
  BY DEF PowerFails
<1>1. gone = NoName /\ faults \in Nat /\ losses \in Nat
  BY <1>0 DEF Good, TypeInv, PastOK
<1>2. Seen' = card /\ file'.name = NoName /\ file'.cur = 0
  BY <1>0, NoHandleIs DEF Seen, Unused
<1>3. SeenDir' = CardDir /\ CardDir' = CardDir
  BY <1>0, <1>2 DEF SeenDir, CardDir
<1>4. OpInv' /\ ThereInv' /\ PendingInv' /\ call'.at = "idle"
  BY <1>0, NoCallKeeps, NoCallIs
<1>5. HandleInv' /\ ExactInv'
  BY <1>0, <1>2, <1>4, ExactNone DEF HandleInv
<1>6. UnitsInv' /\ AgreeInv'
  BY <1>0, <1>2, <1>3 DEF KeepInv, UnitsInv, AgreeInv
<1>7. \A f \in Files : View(f)' = CardView(f) /\ CardView(f)' = CardView(f)
  <2> TAKE f \in Files
  <2>1. f # NoName /\ Held'[f] = CardDir[f]
    BY <1>2, <1>3, NoNameIsNone DEF Held
  <2>2. View(f)' = Contents(card, CardDir[f])
    BY <1>0, <1>1, <1>2, <2>1, ViewIsNext
  <2> QED
    BY <1>0, <1>1, <1>3, <2>1, <2>2, CardViewIs
<1>8. faults' + losses' > faults + losses
  BY <1>0, <1>1
<1> QED
  BY <1>4, <1>5, <1>6, <1>7, <1>8 DEF KeepInv, Forgets
-----------------------------------------------------------------------------
(* The blank card.                                                          *)
LEMMA InitKept ==
  ASSUME Init
  PROVE  KeepInv /\ \A f \in Files : View(f) = NoName /\ CardView(f) = NoName
<1>0. /\ card = [b \in Blocks |-> Blank(b)] /\ cache = Unused
      /\ file = NoHandle /\ call = NoCall /\ ahead = FALSE /\ gone = NoName
  BY DEF Init, Blocks
<1>1. Seen = card
  BY <1>0 DEF Seen, Unused
<1>2. card[Dir] = [f \in Files |-> Absent]
  <2>1. Dir \notin DataBlocks
    BY BlocksApart DEF DataBlocks
  <2> QED
    BY <1>0, <2>1, BlocksApart DEF Blank, Blocks
<1>3. UnitBlocks(card)
  <2> SUFFICES ASSUME NEW c \in Clusters, NEW b \in 0 .. BlocksPerCluster - 1
               PROVE  card[Data(c, b)] \in [1 .. PerBlock -> Units]
    BY DEF UnitBlocks
  <2>1. Data(c, b) \in DataBlocks /\ Data(c, b) \in Blocks /\ Data(c, b) # Dir
    BY BlocksApart DEF DataBlocks, Blocks
  <2>2. card[Data(c, b)] = [i \in 1 .. PerBlock |-> 0]
    BY <1>0, <2>1 DEF Blank
  <2>3. 0 \in Units
    BY Geometry DEF Units
  <2> QED
    BY <2>2, <2>3
<1>4. \A f \in Files : Held[f] = Absent /\ SeenDir[f] = Absent /\ CardDir[f] = Absent
  BY <1>0, <1>1, <1>2, NoHandleIs, NoNameIsNone DEF Held, SeenDir, CardDir
<1>5. UnitsInv /\ AgreeInv /\ HandleInv
  BY <1>0, <1>1, <1>3, NoHandleIs DEF UnitsInv, AgreeInv, HandleInv
<1>6. OpInv /\ ThereInv /\ PendingInv /\ ExactInv
  BY <1>0, NoCallIs, NoHandleIs DEF OpInv, ThereInv, PendingInv, ExactInv, Removing
<1>7. \A f \in Files : View(f) = NoName /\ CardView(f) = NoName
  <2> TAKE f \in Files
  <2>1. \A S : Contents(S, Absent) = NoName
    BY ThereIs, ContentsIs
  <2> QED
    BY <1>0, <1>4, <2>1, NoNameIsNone, ViewIs, CardViewIs
<1> QED
  BY <1>5, <1>6, <1>7 DEF KeepInv
-----------------------------------------------------------------------------
(* Every step, taken together.                                              *)
Keeps == Saves \/ Creates \/ Extends \/ Erases \/ Empties \/ Forgets

LEMMA StepKept ==
  ASSUME Good, Good', KeepInv, Step
  PROVE  KeepInv' /\ Keeps
<1>1. CASE FlushBlock \/ FlushMirror
  BY <1>1, FlushBlockKept, FlushMirrorKept DEF Keeps
<1>2. CASE LookupToOpen \/ Begin \/ SeekStep \/ SeekEnd
  BY <1>2, LookupToOpenKept, BeginKept, SeekStepKept, SeekEndKept DEF Keeps
<1>3. CASE NextCluster \/ SearchOn \/ CardFull \/ TakeCluster \/ Link \/ Store
  BY <1>3, NextClusterKept, SearchOnKept, CardFullKept, TakeClusterKept, LinkKept, StoreKept
     DEF Keeps
<1>4. CASE PutEntry \/ Flushed
  BY <1>4, PutEntryKept, FlushedKept DEF Keeps
<1>5. CASE LookupToRemove \/ FreeCluster \/ ClearEntry \/ Cleared \/ EraseEntry
  BY <1>5, LookupToRemoveKept, FreeClusterKept, ClearEntryKept, ClearedKept, EraseEntryKept
     DEF Keeps
<1> QED
  BY <1>1, <1>2, <1>3, <1>4, <1>5 DEF Step

LEMMA NothingKept ==
  ASSUME KeepInv, UNCHANGED vars
  PROVE  KeepInv' /\ Keeps
<1>1. UNCHANGED <<card, cache, start, file, call, printed, ahead, gone, broken, faults, losses>>
  BY DEF vars, ram, past
<1>2. Rests /\ Stays(file')
  BY <1>1, NoBlockRests DEF Stays
<1>3. UnitsInv' /\ AgreeInv' /\ HandleInv' /\ Saves
  BY <1>2, RestsKeep
<1>4. Seen' = Seen /\ SeenDir' = SeenDir /\ SeenFat' = SeenFat
  BY <1>2 DEF Rests, SeenDir, SeenFat
<1>5. OpInv' /\ ThereInv'
  BY <1>1, <1>4 DEF KeepInv, OpInv, ThereInv
<1>6. ExactInv'
  BY <1>1, <1>4 DEF KeepInv, ExactInv, Seeking
<1>7. PendingInv'
  BY <1>1, <1>4 DEF KeepInv, PendingInv
<1> QED
  BY <1>3, <1>5, <1>6, <1>7 DEF KeepInv, Keeps

(* Files are damaged for good.                                              *)
LEMMA DamageStays == [Next]_vars /\ ~broken' => ~broken
<1> SUFFICES ASSUME [Next]_vars, ~broken' PROVE ~broken
  OBVIOUS
<1>1. CASE Step
  BY <1>1 DEF Step, FlushBlock, FlushMirror, LookupToOpen, LookupToRemove, Begin, SeekStep,
       SeekEnd, NextCluster, SearchOn, CardFull, TakeCluster, Link, Store, PutEntry, Flushed,
       FreeCluster, ClearEntry, Cleared, EraseEntry, past
<1>2. CASE \E f \in Files : Open(f) \/ Remove(f)
  BY <1>2 DEF Open, Remove
<1>3. CASE (\E k \in 1 .. MaxPrint : Write(k)) \/ Close
  BY <1>3 DEF Write, Close
<1>4. CASE CardFails \/ PowerFails
  BY <1>4 DEF CardFails, PowerFails
<1>5. CASE UNCHANGED vars
  BY <1>5 DEF vars, past
<1> QED
  BY <1>1, <1>2, <1>3, <1>4, <1>5 DEF Next

KeepsInv == ~broken => KeepInv

LEMMA NextKept ==
  ASSUME FatInv, FatInv', KeepsInv, [Next]_vars, ~broken'
  PROVE  KeepInv' /\ Keeps
<1>1. ~broken
  BY DamageStays
<1>2. Good /\ Good' /\ KeepInv
  BY <1>1 DEF FatInv, ChainInv, Sound, Good, KeepsInv
<1>3. CASE Step
  BY <1>2, <1>3, StepKept
<1>4. CASE \E f \in Files : Open(f) \/ Remove(f)
  BY <1>2, <1>4, OpenKept DEF Keeps
<1>5. CASE (\E k \in 1 .. MaxPrint : Write(k)) \/ Close
  BY <1>2, <1>5, WriteKept, CloseKept DEF Keeps
<1>6. CASE CardFails \/ PowerFails
  BY <1>2, <1>6, CardFailsKept, PowerFailsKept DEF Keeps
<1>7. CASE UNCHANGED vars
  BY <1>2, <1>7, NothingKept
<1> QED
  BY <1>3, <1>4, <1>5, <1>6, <1>7 DEF Next

LEMMA KeepsAlways == Spec => []KeepsInv
<1>1. Init => KeepsInv
  BY InitKept DEF KeepsInv
<1>2. FatInv /\ FatInv' /\ KeepsInv /\ [Next]_vars => KeepsInv'
  BY NextKept DEF KeepsInv
<1> QED
  BY <1>1, <1>2, FatAlways, PTL DEF Spec
-----------------------------------------------------------------------------
(* The steps as those of CardFile.                                          *)
AllSeen == [f \in Files |-> View(f)]
AllSaved == [f \in Files |-> CardView(f)]

LEMMA ViewsAre ==
  /\ \A f \in Files : AllSeen[f] = View(f) /\ AllSaved[f] = CardView(f)
  /\ \A f \in Files : AllSeen'[f] = View(f)' /\ AllSaved'[f] = CardView(f)'
  BY DEF AllSeen, AllSaved

LEMMA OneChanges ==
  ASSUME NEW f \in Files, NEW x, Changes(f, x)
  PROVE  AllSeen' = [AllSeen EXCEPT ![f] = x] /\ AllSaved' = AllSaved
<1>1. \A g \in Files : AllSeen'[g] = IF g = f THEN x ELSE AllSeen[g]
  BY ViewsAre DEF Changes
<1>2. AllSeen' = [g \in Files |-> AllSeen'[g]]
  BY DEF AllSeen
<1>3. [AllSeen EXCEPT ![f] = x] = [g \in Files |-> IF g = f THEN x ELSE AllSeen[g]]
  BY DEF AllSeen
<1>4. AllSaved' = AllSaved
  BY DEF Changes, AllSaved
<1> QED
  BY <1>1, <1>2, <1>3, <1>4

LEMMA StepsAre ==
  ASSUME Keeps
  PROVE  Abstract!Next
<1> DEFINE V == AllSeen
           D == AllSaved
<1>1. CASE Saves
  <2>1. V' = [f \in Files |-> V'[f]] /\ V = [f \in Files |-> V[f]]
    BY DEF AllSeen
  <2>2. V' = V /\ \A f \in Files : D'[f] \in {D[f], V[f]}
    BY <1>1, <2>1, ViewsAre DEF Saves
  <2> QED
    BY <2>2 DEF Abstract!Next, Abstract!Save, AllSeen, AllSaved
<1>2. CASE Forgets
  <2>1. D' = D /\ \A f \in Files : V'[f] \in {V[f], D[f]}
    BY <1>2, ViewsAre DEF Forgets, AllSaved
  <2> QED
    BY <1>2, <2>1 DEF Forgets, Abstract!Next, Abstract!Forget, AllSeen, AllSaved
<1>3. CASE Creates
  <2>1. PICK f \in Files : View(f) = NoName /\ Changes(f, <<>>)
    BY <1>3 DEF Creates
  <2>2. V[f] = NoName /\ V' = [V EXCEPT ![f] = <<>>] /\ D' = D
    BY <2>1, ViewsAre, OneChanges
  <2>3. Abstract!Create(f)
    BY <2>2 DEF Abstract!Create, AllSeen, AllSaved
  <2> QED
    BY <2>3 DEF Abstract!Next
<1>4. CASE Extends
  <2>1. PICK f \in Files : View(f) # NoName /\ Changes(f, View(f) \o call.out)
    BY <1>4 DEF Extends
  <2>2. V[f] # NoName /\ V' = [V EXCEPT ![f] = V[f] \o call.out] /\ D' = D
    BY <2>1, ViewsAre, OneChanges
  <2>3. Abstract!Extend(f)
    BY <2>2 DEF Abstract!Extend, AllSeen, AllSaved
  <2> QED
    BY <2>3 DEF Abstract!Next
<1>5. CASE Erases
  <2>1. PICK f \in Files : View(f) = <<>> /\ Changes(f, NoName)
    BY <1>5 DEF Erases
  <2>2. V[f] = <<>> /\ V' = [V EXCEPT ![f] = NoName] /\ D' = D
    BY <2>1, ViewsAre, OneChanges
  <2>3. Abstract!Erase(f)
    BY <2>2 DEF Abstract!Erase, AllSeen, AllSaved
  <2> QED
    BY <2>3 DEF Abstract!Next
<1>6. CASE Empties
  <2>1. PICK f \in Files :
          /\ View(f) # NoName /\ View(f)' = <<>> /\ CardView(f)' = <<>>
          /\ \A g \in Files \ {f} : View(g)' = View(g) /\ CardView(g)' = CardView(g)
    BY <1>6 DEF Empties
  <2>2. V[f] # NoName
    BY <2>1, ViewsAre
  <2>3. /\ \A g \in Files : V'[g] = IF g = f THEN <<>> ELSE V[g]
        /\ \A g \in Files : D'[g] = IF g = f THEN <<>> ELSE D[g]
    BY <2>1, ViewsAre
  <2>4. /\ V' = [g \in Files |-> V'[g]] /\ D' = [g \in Files |-> D'[g]]
        /\ [V EXCEPT ![f] = <<>>] = [g \in Files |-> IF g = f THEN <<>> ELSE V[g]]
        /\ [D EXCEPT ![f] = <<>>] = [g \in Files |-> IF g = f THEN <<>> ELSE D[g]]
    BY DEF AllSeen, AllSaved
  <2>5. V' = [V EXCEPT ![f] = <<>>] /\ D' = [D EXCEPT ![f] = <<>>]
    BY <2>3, <2>4
  <2>6. Abstract!Empty(f)
    BY <2>2, <2>5 DEF Abstract!Empty, AllSeen, AllSaved
  <2> QED
    BY <2>6 DEF Abstract!Next
<1> QED
  BY <1>1, <1>2, <1>3, <1>4, <1>5, <1>6 DEF Keeps

(* For cards of any geometry, any files, prints and troubles, the library   *)
(* is CardFile until a failure damages files: a print is in its file whole  *)
(* and in order once the call returns, the card catches up with the file at *)
(* once or not at all, and a failure takes a file back to what the card has *)
(* of it and leaves the other files alone.                                  *)
THEOREM KeepsItsFiles == Spec => KeepsFiles
<1>1. Init => Abstract!Init
  BY InitKept DEF Abstract!Init
<1>2. FatInv /\ FatInv' /\ KeepsInv /\ [Next]_vars
        => [Abstract!Next]_<<[f \in Files |-> View(f)], [f \in Files |-> CardView(f)]>>
  <2> SUFFICES ASSUME FatInv, FatInv', KeepsInv, [Next]_vars PROVE Abstract!Next
    OBVIOUS
  <2>1. CASE broken'
    BY <2>1 DEF Abstract!Next
  <2>2. CASE ~broken'
    BY <2>2, NextKept, StepsAre
  <2> QED
    BY <2>1, <2>2
<1> QED
  BY <1>1, <1>2, FatAlways, KeepsAlways, PTL DEF Spec, KeepsFiles, Abstract!Spec
-----------------------------------------------------------------------------
(* The chains that are lost.  Each step heads no chain that was headed and  *)
(* owned before: what a call takes it has in hand until it is linked or in  *)
(* the entry.  On the card, which the cache is ahead of, that may be lost.  *)

(* Chains that belong to no file: that begin where no entry of a file that  *)
(* holds something says so.                                                 *)
Lost(F, D) ==
  {c \in Clusters : Heads(F, c) /\ \A f \in Files : D[f].first = c => D[f].size = 0}

(* What a call has in hand: the cluster it links or frees next, and the     *)
(* first cluster of a file it prints its first units to.                    *)
Pending ==
  {c \in Clusters : \/ c = call.c /\ call.at \in {"link", "free"}
                    \/ c = file.first /\ call.op = "print" /\ file.size = 0}

Troubles == faults + losses

LostBound ==
  /\ Cardinality(Lost(SeenFat, Held) \ Pending) <= 2 * Troubles
  /\ Cardinality(Lost(CardFat, CardDir)) <= 2 * Troubles + 2

(* A remove() that has begun to free has freed the first cluster.           *)
FreedFirst ==
  call.at = "clear" \/ (call.at = "free" /\ gone = call.name)
    => \A c \in Clusters : SeenDir[call.name].first = c => SeenFat[c] = Free

Fitting == Len(call.out) <= MaxPrint

(* A file that is not there has no size.                                    *)
Vacant(D) == \A f \in Files : D[f].there \/ D[f].size = 0

LostInv == LostBound /\ FreedFirst /\ Vacant(SeenDir) /\ Vacant(CardDir)
-----------------------------------------------------------------------------
(* Sets of clusters are counted.                                            *)
LEMMA LostFinite ==
  ASSUME NEW S \in SUBSET Clusters
  PROVE  IsFiniteSet(S) /\ Cardinality(S) \in Nat
<1>1. IsFiniteSet(S)
  BY ClustersFinite, FS_Subset
<1> QED
  BY <1>1, FS_CardinalityType

LEMMA CountLess ==
  ASSUME NEW S \in SUBSET Clusters, NEW T \in SUBSET S
  PROVE  Cardinality(T) <= Cardinality(S)
  BY LostFinite, FS_Subset

LEMMA OneMore ==
  ASSUME NEW S, IsFiniteSet(S), NEW x
  PROVE  IsFiniteSet(S \cup {x}) /\ Cardinality(S \cup {x}) <= Cardinality(S) + 1
         /\ Cardinality(S) \in Nat
<1>1. Cardinality(S) \in Nat
  BY FS_CardinalityType
<1>2. /\ IsFiniteSet(S \cup {x})
      /\ Cardinality(S \cup {x}) = IF x \in S THEN Cardinality(S) ELSE Cardinality(S) + 1
  BY FS_AddElement, Zenon
<1> QED
  BY <1>1, <1>2

LEMMA TwoMore ==
  ASSUME NEW S \in SUBSET Clusters, NEW x, NEW y, NEW T, T \subseteq S \cup {x} \cup {y}
  PROVE  Cardinality(T) <= Cardinality(S) + 2
<1>1. IsFiniteSet(S) /\ Cardinality(S) \in Nat
  BY LostFinite
<1>2. IsFiniteSet(S \cup {x}) /\ Cardinality(S \cup {x}) <= Cardinality(S) + 1
  BY <1>1, OneMore
<1>3. /\ IsFiniteSet(S \cup {x} \cup {y}) /\ Cardinality(S \cup {x}) \in Nat
      /\ Cardinality(S \cup {x} \cup {y}) <= Cardinality(S \cup {x}) + 1
      /\ Cardinality(S \cup {x} \cup {y}) \in Nat
  BY <1>2, OneMore, FS_CardinalityType
<1>4. Cardinality(T) <= Cardinality(S \cup {x} \cup {y}) /\ Cardinality(T) \in Nat
  BY <1>3, FS_Subset, FS_CardinalityType
<1> QED
  BY <1>1, <1>2, <1>3, <1>4

(* No chain is lost that was not: it is headed by a cluster that headed one *)
(* and that no file has given up.                                           *)
LostMove ==
  /\ \A c \in Clusters : Heads(SeenFat', c) => c \in Pending' \/ Heads(SeenFat, c)
  /\ \A f \in Files :
       Held[f].size # 0 => \/ Held'[f].first = Held[f].first /\ Held'[f].size # 0
                           \/ ~Heads(SeenFat', Held[f].first)
  /\ \A c \in Pending :
       \/ c \in Pending' \/ ~Heads(SeenFat', c)
       \/ \E f \in Files : Held'[f].first = c /\ Held'[f].size # 0

LEMMA NoMoreLost ==
  ASSUME TypeInv, LostBound, LostMove, CardKept, faults' = faults, losses' = losses
  PROVE  LostBound'
<1> DEFINE S == Lost(SeenFat, Held) \ Pending
           T == Lost(SeenFat', Held') \ Pending'
<1>1. T \subseteq S
  BY DEF LostMove, Lost
<1>2. S \in SUBSET Clusters
  BY DEF Lost
<1>3. T \in SUBSET Clusters
  BY DEF Lost
<1>5. Cardinality(S) <= 2 * Troubles
  BY DEF LostBound
<1>6. T = (Lost(SeenFat, Held) \ Pending)'
  OBVIOUS
<1> HIDE DEF S, T
<1>4. Cardinality(T) <= Cardinality(S)
  BY <1>1, <1>2, CountLess
<1>7. Cardinality(S) \in Nat /\ Cardinality(T) \in Nat
  BY <1>2, <1>3, LostFinite
<1>8. Troubles' = Troubles /\ Cardinality(Lost(CardFat', CardDir')) <= 2 * Troubles + 2
  BY DEF Troubles, LostBound, CardKept
<1>9. Cardinality(T) <= 2 * Troubles
  <2>1. Troubles \in Nat
    BY DEF Troubles, TypeInv, PastOK
  <2> QED
    BY <1>4, <1>5, <1>7, <2>1
<1> QED
  BY <1>6, <1>8, <1>9 DEF LostBound

LEMMA AtMostTwo ==
  ASSUME LostBound, TypeInv
  PROVE  /\ Cardinality(Lost(SeenFat, SeenDir)) <= 2 * Troubles + 2
         /\ Cardinality(Lost(SeenFat, Held)) <= 2 * Troubles + 2
<1> DEFINE S == Lost(SeenFat, Held) \ Pending
<1>1. Cardinality(S) <= 2 * Troubles
  BY DEF LostBound
<1>2. S \in SUBSET Clusters
  BY DEF Lost
<1>3. Lost(SeenFat, Held) \subseteq S \cup {call.c} \cup {file.first}
  BY DEF Pending
<1>4. Lost(SeenFat, SeenDir) \subseteq S \cup {call.c} \cup {file.first}
  <2> SUFFICES ASSUME NEW c \in Lost(SeenFat, SeenDir), c # file.first
               PROVE  c \in Lost(SeenFat, Held)
    BY <1>3
  <2>1. ASSUME NEW f \in Files, Held[f].first = c PROVE Held[f].size = 0
    <3>1. f # file.name
      BY <2>1, HeldIs
    <3> QED
      BY <2>1, <3>1, HeldIs DEF Lost
  <2> QED
    BY <2>1 DEF Lost
<1> HIDE DEF S
<1>5. Cardinality(S) \in Nat /\ faults \in Nat /\ losses \in Nat
  BY <1>2, LostFinite DEF TypeInv, PastOK
<1>6. Cardinality(Lost(SeenFat, SeenDir)) <= Cardinality(S) + 2
  BY <1>2, <1>4, TwoMore
<1>7. Cardinality(Lost(SeenFat, Held)) <= Cardinality(S) + 2
  BY <1>2, <1>3, TwoMore
<1>8. Lost(SeenFat, SeenDir) \in SUBSET Clusters /\ Lost(SeenFat, Held) \in SUBSET Clusters
  BY DEF Lost
<1>9. /\ Cardinality(Lost(SeenFat, SeenDir)) \in Nat
      /\ Cardinality(Lost(SeenFat, Held)) \in Nat
  BY <1>8, LostFinite
<1> QED
  BY <1>1, <1>5, <1>6, <1>7, <1>9 DEF Troubles
-----------------------------------------------------------------------------
(* A step of a call goes on with it or ends it.                             *)
LEMMA CallStays ==
  ASSUME CallOK, Step
  PROVE  call' = NoCall \/ Same(call')
<1> USE DEF CallOK, CallType, Same, Go
<1>1. CASE FlushBlock \/ FlushMirror \/ SeekStep \/ SearchOn \/ CardFull
  BY <1>1 DEF FlushBlock, FlushMirror, SeekStep, SearchOn, CardFull
<1>2. CASE LookupToOpen \/ Begin \/ SeekEnd
  BY <1>2 DEF LookupToOpen, Begin, SeekEnd, Seek, WriteOn
<1>3. CASE NextCluster \/ TakeCluster \/ Link
  BY <1>3 DEF NextCluster, TakeCluster, Link
<1>4. CASE Store
  BY <1>4 DEF Store
<1>5. CASE \/ PutEntry \/ Flushed
           \/ LookupToRemove \/ FreeCluster \/ ClearEntry \/ Cleared \/ EraseEntry
  BY <1>5 DEF PutEntry, Flushed, LookupToRemove, FreeCluster, ClearEntry, Cleared, EraseEntry
<1> QED
  BY <1>1, <1>2, <1>3, <1>4, <1>5 DEF Step

(* No print is longer than MaxPrint.                                        *)
LEMMA FittingKept ==
  ASSUME FatInv, Fitting, [Next]_vars
  PROVE  Fitting'
<1>1. CallOK /\ MaxPrint \in Nat
  BY Geometry DEF FatInv, TypeInv
<1>2. call' = NoCall => Fitting'
  BY <1>1, NoCallIs DEF Fitting
<1>3. CASE Step
  BY <1>1, <1>2, <1>3, CallStays DEF Fitting, Same
<1>4. CASE \E f \in Files : Open(f) \/ Remove(f)
  <2>1. call'.out = <<>>
    BY <1>4 DEF Open, Remove, NoCall
  <2> QED
    BY <1>1, <2>1 DEF Fitting
<1>5. CASE \E k \in 1 .. MaxPrint : Write(k)
  <2>1. PICK k \in 1 .. MaxPrint : call'.out = [i \in 1 .. k |-> printed + i]
    BY <1>5 DEF Write, NoCall
  <2>2. k \in Nat /\ k <= MaxPrint
    BY <1>1
  <2>3. Len([i \in 1 .. k |-> printed + i]) = k
    BY <2>2
  <2> QED
    BY <2>1, <2>2, <2>3 DEF Fitting
<1>6. CASE Close
  <2>1. call'.out = <<>>
    BY <1>6 DEF Close, NoCall
  <2> QED
    BY <1>1, <2>1 DEF Fitting
<1>7. CASE CardFails \/ PowerFails
  BY <1>2, <1>7 DEF CardFails, PowerFails
<1>8. CASE UNCHANGED vars
  BY <1>8 DEF Fitting, vars, ram
<1> QED
  BY <1>3, <1>4, <1>5, <1>6, <1>7, <1>8 DEF Next

LEMMA PrintsFit == Spec => []Fitting
<1>1. Init => Fitting
  BY Geometry, NoCallIs DEF Init, Fitting
<1> QED
  BY <1>1, FittingKept, FatAlways, PTL DEF Spec
-----------------------------------------------------------------------------
(* What the steps lose.                                                     *)
LEMMA LostSo ==
  ASSUME Good, LostInv, LostMove, CardKept, faults' = faults, losses' = losses,
         FreedFirst', Vacant(SeenDir')
  PROVE  LostInv'
<1>1. LostBound'
  BY NoMoreLost DEF LostInv, Good
<1> QED
  BY <1>1 DEF LostInv, Vacant, CardKept

LEMMA FarFromFree == call'.at \notin {"free", "clear"} => FreedFirst'
  BY DEF FreedFirst

(* Steps that leave the FAT alone, and what the files hold.                 *)
LEMMA LostStays ==
  ASSUME Good, LostInv, CardKept, SeenKept, faults' = faults, losses' = losses,
         Pending \subseteq Pending', call'.at \notin {"free", "clear"},
         \A f \in Files : Held[f].size # 0 => Held'[f].first = Held[f].first /\ Held'[f].size # 0
  PROVE  LostInv'
<1>1. LostMove
  BY DEF LostMove, SeenKept
<1>2. Vacant(SeenDir')
  BY DEF LostInv, SeenKept
<1> QED
  BY <1>1, <1>2, FarFromFree, LostSo
-----------------------------------------------------------------------------
LEMMA FileStays ==
  ASSUME file \in Handles,
         Begin \/ SeekStep \/ SeekEnd \/ NextCluster \/ SearchOn \/ CardFull \/ Link
  PROVE  Stays(file')
<1> USE DEF Handles, Stays
<1>1. CASE Begin
  BY <1>1 DEF Begin, Seek, WriteOn
<1>2. CASE SeekEnd
  BY <1>2 DEF SeekEnd, WriteOn
<1>3. CASE SeekStep \/ NextCluster \/ SearchOn \/ CardFull \/ Link
  BY <1>3 DEF SeekStep, NextCluster, SearchOn, CardFull, Link, past
<1> QED
  BY <1>1, <1>2, <1>3

(* A step that changes no block and leaves the file as long as it is.       *)
LEMMA LostRests ==
  ASSUME Good, LostInv, CardKept, SeenKept, faults' = faults, losses' = losses,
         call.at \notin {"link", "free"}, call.op # "print" \/ call'.op = "print",
         Stays(file'), call'.at \notin {"free", "clear"}
  PROVE  LostInv'
<1>1. Pending \subseteq Pending' /\ Held' = Held
  BY DEF Pending, Held, Stays, SeenKept
<1> QED
  BY <1>1, LostStays

LEMMA GoingOn ==
  ASSUME CallOK, Begin \/ SeekStep \/ SeekEnd \/ NextCluster \/ SearchOn
  PROVE  call'.op = call.op \/ (call.op = "open" /\ call' = NoCall)
<1> USE DEF CallOK, CallType, Go
<1>1. CASE Begin
  BY <1>1 DEF Begin, Seek, WriteOn
<1>2. CASE SeekStep \/ SearchOn \/ NextCluster
  BY <1>2 DEF SeekStep, SearchOn, NextCluster
<1>3. CASE SeekEnd
  BY <1>3 DEF SeekEnd, WriteOn
<1> QED
  BY <1>1, <1>2, <1>3

LEMMA ReadingLoses ==
  ASSUME Good, Good', KeepInv, KeepInv', LostInv,
         Begin \/ SeekStep \/ SeekEnd \/ NextCluster \/ SearchOn
  PROVE  LostInv'
<1>1. /\ call.at \in {"begin", "seek", "next", "search"} /\ faults' = faults /\ losses' = losses
      /\ card' = card /\ (cache' = cache \/ (Read /\ ~MustFlush /\ call.at # "begin"))
  BY DEF Begin, SeekStep, SeekEnd, NextCluster, SearchOn, Ready, past
<1>2. CallOK /\ StoreOK /\ file \in Handles /\ call # NoCall
  BY <1>1, NoCallIs DEF Good, TypeInv
<1>3. CardKept /\ SeenKept
  BY <1>1, <1>2, NothingMoves, ReadsKeep
<1>4. Stays(file')
  BY <1>2, FileStays
<1>5. call'.op = call.op \/ (call.op = "open" /\ call' = NoCall)
  BY <1>2, GoingOn
<1>6. call.op \in {"open", "print"}
  BY <1>1 DEF KeepInv, OpInv
<1>7. call'.at \notin {"free", "clear"}
  BY <1>5, <1>6, NoCallIs DEF KeepInv, OpInv, Removing
<1> QED
  BY <1>1, <1>3, <1>4, <1>5, <1>6, <1>7, LostRests

(* Between calls there is nothing in hand.                                  *)
LEMMA NothingInHand ==
  ASSUME call = NoCall \/ (call.at \notin {"link", "free"} /\ call.op # "print")
  PROVE  Pending = {}
  BY NoCallIs DEF Pending

LEMMA CallsLose ==
  ASSUME Good, KeepInv, KeepInv', LostInv,
         \/ \E f \in Files : Open(f) \/ Remove(f)
         \/ (\E k \in 1 .. MaxPrint : Write(k)) \/ Close
  PROVE  LostInv'
<1>1. /\ call = NoCall /\ faults' = faults /\ losses' = losses /\ card' = card
      /\ cache' = cache /\ file' = file
  BY DEF Open, Remove, Write, Close, past
<1>2. call'.at \in {"lookup", "begin", "entry", "flush"}
  BY DEF Open, Remove, Write, Close, NoCall
<1>3. CardKept /\ SeenKept
  BY <1>1, NothingMoves DEF Good, TypeInv
<1>4. Pending = {} /\ call.op # "print" /\ call.at \notin {"link", "free"}
  BY <1>1, NothingInHand, NoCallIs
<1> QED
  BY <1>1, <1>2, <1>3, <1>4, LostRests DEF Stays
-----------------------------------------------------------------------------
(* A print that finds the card full has no first cluster it took: one print *)
(* needs no second.                                                         *)
LEMMA FullCardLoses ==
  ASSUME Good, KeepInv, LostInv, Fitting, CardFull
  PROVE  LostInv'
<1>1. /\ call.at = "search" /\ call' = NoCall /\ faults' = faults /\ losses' = losses
      /\ card' = card /\ cache' = cache /\ file' = file
  BY DEF CardFull, past
<1>2. CardKept /\ SeenKept
  BY <1>1, NothingMoves DEF Good, TypeInv
<1>3. /\ CursorInv /\ ExactInv /\ PendingInv /\ OpInv /\ call.left \in Nat /\ file.pos \in Nat
      /\ Len(call.out) \in Nat
  BY TypesAre, CallIs DEF Good, SoundInv, KeepInv, TypeInv
<1>4. Pending = {}
  <2> SUFFICES ASSUME file.size = 0, file.first # 0 PROVE FALSE
    BY <1>1, Marks DEF Pending, Free
  <2>1. file.cur # 0 /\ file.pos > 0 /\ file.pos % PerCluster = 0
    BY <1>1, <1>3 DEF CursorInv, ExactInv
  <2>2. call.op = "print" /\ call.left > 0
    BY <1>1, <1>3 DEF OpInv
  <2>3. file.pos = Len(call.out) - call.left
    BY <1>1, <1>3 DEF PendingInv
  <2>4. file.pos < PerBlock
    BY <1>3, <2>2, <2>3, Geometry DEF Fitting
  <2>5. PerBlock <= PerCluster
    <3>1. 1 * PerBlock <= BlocksPerCluster * PerBlock
      BY Geometry, Times
    <3> QED
      BY <3>1, Geometry
  <2>6. PerCluster \in Nat \ {0} /\ file.pos \in 0 .. PerCluster - 1
    BY <1>3, <2>4, <2>5, Geometry
  <2>7. (0 * PerCluster + file.pos) % PerCluster = file.pos
    BY <2>6, DivisionIs
  <2>8. 0 * PerCluster + file.pos = file.pos
    BY <1>3, <2>6
  <2> QED
    BY <2>1, <2>7, <2>8
<1>5. Held' = Held
  BY <1>1, <1>2 DEF Held, SeenKept
<1> QED
  BY <1>1, <1>2, <1>4, <1>5, NoCallIs, LostStays

(* An entry is made empty whose chain, if any, is freed.                    *)
LEMMA EmptyLoses ==
  ASSUME Good, LostInv, call.at \in {"lookup", "clear", "erase"}, ~MustFlush, card' = card,
         NEW e \in {EmptyEntry, Absent}, Put([Value EXCEPT ![call.name] = e]),
         UNCHANGED <<start, file, past>>, NEW at \in {"flush", "cleared"}, Go(at),
         call.op # "print",
         SeenDir[call.name].size = 0 \/ ~Heads(SeenFat, SeenDir[call.name].first)
  PROVE  LostInv'
<1> PICK h : h = call.name
  OBVIOUS
<1> DEFINE v == [Value EXCEPT ![h] = e]
<1>1. /\ CallOK /\ StoreOK /\ h \in Files /\ file = NoHandle /\ Wanted = Dir
      /\ Value = SeenDir /\ SeenDir \in [Files -> Entry] /\ e \in Entry
      /\ {"flush", "cleared"} \subseteq Places /\ faults' = faults /\ losses' = losses
      /\ file' = file /\ e.size = 0
  BY TypesAre, WantedIs, ReadIs, EmptyIs DEF Good, TypeInv, WorkInv, Places, past
<1>2. v \in [Files -> Entry] /\ v[h] = e /\ \A g \in Files : g # h => v[g] = Value[g]
  BY <1>1
<1> HIDE DEF v
<1>3. Put(v)
  BY DEF v
<1>4. SeenFat' = SeenFat /\ SeenDir' = Marked(SeenDir, h, e) /\ CardKept
  BY <1>1, <1>2, <1>3, DirPut
<1>5. SeenDir'[h] = e /\ \A g \in Files \ {h} : SeenDir'[g] = SeenDir[g]
  BY <1>1, <1>4 DEF Marked
<1>6. call'.at = at
  BY <1>1, GoesTo DEF Go
<1>7. \A f \in Files : Held[f] = SeenDir[f] /\ Held'[f] = SeenDir'[f]
  BY <1>1, NoHandleIs, NoNameIsNone DEF Held
<1>8. Pending = {}
  BY NothingInHand
<1>9. LostMove
  BY <1>4, <1>5, <1>7, <1>8 DEF LostMove
<1>10. Vacant(SeenDir')
  BY <1>1, <1>5 DEF Vacant, LostInv
<1> QED
  BY <1>1, <1>4, <1>6, <1>9, <1>10, FarFromFree, LostSo

LEMMA ClearEntryLoses ==
  ASSUME Good, KeepInv, LostInv, ClearEntry
  PROVE  LostInv'
<1>1. /\ call.at = "clear" /\ ~MustFlush /\ card' = card /\ Go("cleared")
      /\ Put([Value EXCEPT ![call.name] = EmptyEntry]) /\ UNCHANGED <<start, file, past>>
  BY DEF ClearEntry, Ready
<1>2. call.op # "print"
  BY <1>1 DEF KeepInv, OpInv, Removing
<1>3. ~Heads(SeenFat, SeenDir[call.name].first)
  BY <1>1 DEF LostInv, FreedFirst, Heads
<1> QED
  BY <1>1, <1>2, <1>3, EmptyLoses

LEMMA EraseEntryLoses ==
  ASSUME Good, KeepInv, LostInv, EraseEntry
  PROVE  LostInv'
<1>1. /\ call.at = "erase" /\ ~MustFlush /\ card' = card /\ Go("flush")
      /\ Put([Value EXCEPT ![call.name] = Absent]) /\ UNCHANGED <<start, file, past>>
  BY DEF EraseEntry, Ready
<1>2. call.op # "print" /\ SeenDir[call.name].size = 0
  BY <1>1 DEF KeepInv, OpInv, ThereInv, Removing
<1> QED
  BY <1>1, <1>2, EmptyLoses

LEMMA LookupToOpenLoses ==
  ASSUME Good, KeepInv, LostInv, LookupToOpen
  PROVE  LostInv'
<1> DEFINE h == call.name
           entry == SeenDir[h]
<1>0. /\ call.at = "lookup" /\ ~MustFlush /\ card' = card /\ call.op = "open"
      /\ UNCHANGED <<start, past>> /\ call # NoCall
  BY NoCallIs DEF LookupToOpen, Ready
<1>1. /\ CallOK /\ h \in Files /\ file = NoHandle /\ h # NoName /\ Value = SeenDir
      /\ entry \in Entry /\ entry.size \in Units /\ entry.size \in Nat
      /\ entry.first \in {Free} \cup Clusters /\ faults' = faults /\ losses' = losses
  <2>1. /\ CallOK /\ h \in Files /\ file = NoHandle /\ Value = SeenDir
        /\ SeenDir \in [Files -> Entry]
    BY <1>0, TypesAre, ReadIs DEF Good, TypeInv, WorkInv
  <2>2. entry \in Entry
    BY <2>1
  <2> HIDE DEF entry
  <2> QED
    BY <1>0, <2>1, <2>2, EntryIs, NoNameIsNone DEF past
<1>2. CASE ~entry.there
  <2>1. /\ Put([Value EXCEPT ![call.name] = EmptyEntry]) /\ Go("flush") /\ UNCHANGED file
    BY <1>1, <1>2 DEF LookupToOpen
  <2>2. SeenDir[call.name].size = 0
    BY <1>1, <1>2 DEF LostInv, Vacant
  <2> QED
    BY <1>0, <2>1, <2>2, EmptyLoses
<1>3. CASE entry.there
  <2>1. PICK f : f = Handle(h, entry)
    OBVIOUS
  <2>2. /\ Read
        /\ \/ entry.size = 0 /\ file' = f /\ call' = NoCall
           \/ entry.size # 0 /\ Seek(f)
    BY <1>1, <1>3, <2>1 DEF LookupToOpen
  <2>3. /\ f \in Handles /\ f.name = h /\ f.size = entry.size /\ f.first = entry.first
        /\ f.cur = 0 /\ f.pos = 0
    BY <1>1, <2>1, HandleOf
  <2>4. CardKept /\ SeenKept
    BY <1>0, <2>2, ReadsKeep
  <2>5. /\ file'.name = h /\ file'.size = entry.size /\ file'.first = entry.first
        /\ call'.at \in {"idle", "seek"}
    <3>1. CASE entry.size = 0 /\ file' = f /\ call' = NoCall
      BY <2>3, <3>1, NoCallIs
    <3>2. CASE entry.size # 0 /\ Seek(f)
      <4>1. f.size > 0 /\ (f.pos = 0 \/ f.pos >= f.size)
        BY <1>1, <2>3, <3>2
      <4> QED
        BY <1>1, <2>3, <3>2, <4>1, SeekIs
    <3> QED
      BY <2>2, <3>1, <3>2
  <2>6. \A g \in Files : Held'[g].first = Held[g].first /\ Held'[g].size = Held[g].size
    BY <1>1, <2>4, <2>5, NoHandleIs, NoNameIsNone DEF Held, SeenKept
  <2>7. Pending = {}
    BY <1>0, NothingInHand
  <2> QED
    BY <1>1, <2>4, <2>5, <2>6, <2>7, LostStays
<1> QED
  BY <1>2, <1>3

LEMMA FlushedLoses ==
  ASSUME Good, KeepInv, LostInv, Flushed
  PROVE  LostInv'
<1> DEFINE h == call.name
           n == file.name
           e == SeenDir[n]
<1>0. /\ call.at = "flush" /\ card' = card /\ cache' = cache /\ call' = NoCall
      /\ file' = IF call.op = "open" THEN Handle(h, EmptyEntry) ELSE NoHandle
      /\ faults' = faults /\ losses' = losses
  BY DEF Flushed, Ready
<1>1. /\ call.op \in {"open", "close", "remove"}
      /\ call.op \in {"open", "remove"} => file = NoHandle
      /\ call.op = "close" => n # NoName /\ ~file.dirty
  BY <1>0 DEF KeepInv, OpInv
<1>2. CardKept /\ SeenKept
  BY <1>0, NothingMoves DEF Good, TypeInv
<1>3. Pending = {}
  BY <1>0, <1>1, NothingInHand
<1>4. \A f \in Files : Held[f].size # 0 => Held'[f].first = Held[f].first /\ Held'[f].size # 0
  <2>1. CASE call.op = "open"
    <3>1. h \in Files /\ SeenDir[h].first = 0 /\ SeenDir[h].size = 0 /\ file = NoHandle
      BY <1>0, <1>1, <2>1 DEF Good, WorkInv, SoundInv, MadeInv
    <3>2. file'.name = h
      BY <1>0, <2>1 DEF Handle, NoHandle
    <3> QED
      BY <1>2, <3>1, <3>2, NoHandleIs, NoNameIsNone DEF Held, SeenKept
  <2>2. CASE call.op = "remove"
    <3>1. Held' = Held
      BY <1>0, <1>1, <1>2, <2>2 DEF Held, SeenKept
    <3> QED
      BY <3>1
  <2>3. CASE call.op = "close"
    <3>1. e.size = file.size /\ ((e.first = 0 /\ e.size = 0) \/ e.first = file.first)
      BY <1>1, <2>3 DEF KeepInv, HandleInv, Good, SoundInv, EntryInv
    <3>2. file' = NoHandle
      BY <1>0, <2>3
    <3>3. \A f \in Files : Held'[f] = SeenDir[f]
      BY <1>2, <3>2, NoHandleIs, NoNameIsNone DEF Held, SeenKept
    <3> QED
      BY <3>1, <3>3, HeldIs
  <2> QED
    BY <1>1, <2>1, <2>2, <2>3
<1> QED
  BY <1>0, <1>2, <1>3, <1>4, NoCallIs, LostStays

LEMMA PutEntryLoses ==
  ASSUME Good, KeepInv, LostInv, PutEntry
  PROVE  LostInv'
<1> DEFINE h == file.name
           v == [Value EXCEPT ![h].size = file.size, ![h].first = file.first]
           e == [there |-> SeenDir[h].there, size |-> file.size, first |-> file.first]
<1>0. /\ call.at = "entry" /\ ~MustFlush /\ card' = card /\ UNCHANGED <<start, past>>
      /\ Put(v) /\ file' = [file EXCEPT !.dirty = FALSE] /\ Go("flush")
  BY DEF PutEntry, Ready
<1>1. /\ file \in Handles /\ file.size \in Units /\ file.first \in {Free} \cup Clusters
      /\ CallOK /\ StoreOK /\ h \in Files /\ h # NoName /\ "flush" \in Places
      /\ Wanted = Dir /\ Value = SeenDir /\ SeenDir \in [Files -> Entry]
      /\ faults' = faults /\ losses' = losses
  BY <1>0, TypesAre, HandleIs, WantedIs, ReadIs DEF Good, TypeInv, WorkInv, Places, past
<1>2. e \in Entry /\ v[h] = e /\ v \in [Files -> Entry]
      /\ \A g \in Files : g # h => v[g] = Value[g]
  <2>1. e \in Entry
    BY <1>1 DEF Entry
  <2>2. v = Filled(SeenDir, h, file.size, file.first)
    BY <1>1 DEF Filled
  <2> HIDE DEF v
  <2> QED
    BY <1>1, <2>1, <2>2, FilledIs
<1>3. e.there = SeenDir[h].there
  OBVIOUS
<1> HIDE DEF v, e
<1>4. SeenFat' = SeenFat /\ SeenDir' = Marked(SeenDir, h, e) /\ CardKept
  BY <1>0, <1>1, <1>2, DirPut
<1>5. SeenDir'[h] = e /\ \A g \in Files : g # h => SeenDir'[g] = SeenDir[g]
  BY <1>1, <1>4 DEF Marked
<1>6. file'.size = file.size /\ file'.first = file.first /\ file'.name = h
  BY <1>0, <1>1 DEF Handles
<1>7. call'.at = "flush"
  BY <1>0, <1>1, GoesTo DEF Go
<1>8. SeenDir[h].there /\ call.op = "close"
  BY <1>0, <1>1 DEF KeepInv, HandleInv, OpInv
<1>9. Held' = Held
  BY <1>5, <1>6 DEF Held
<1>10. LostMove
  BY <1>0, <1>4, <1>8, <1>9, NothingInHand DEF LostMove
<1>11. Vacant(SeenDir')
  BY <1>3, <1>5, <1>8 DEF Vacant, LostInv
<1> QED
  BY <1>1, <1>4, <1>7, <1>10, <1>11, FarFromFree, LostSo

LEMMA ClearedLoses ==
  ASSUME Good, KeepInv, LostInv, Cleared
  PROVE  LostInv'
<1>1. /\ call.at = "cleared" /\ Go("erase") /\ card' = card /\ cache' = cache /\ file' = file
      /\ faults' = faults /\ losses' = losses
  BY DEF Cleared, Ready, past
<1>2. CardKept /\ SeenKept /\ CallOK /\ "erase" \in Places
  BY <1>1, NothingMoves DEF Good, TypeInv, Places
<1>3. call'.at = "erase" /\ call.op # "print"
  BY <1>1, <1>2, GoesTo DEF Go, KeepInv, OpInv, Removing
<1> QED
  BY <1>1, <1>2, <1>3, LostRests DEF Stays

(* A remove() that begins to free has freed nothing.                        *)
LEMMA LookupToRemoveLoses ==
  ASSUME Good, LostInv, LookupToRemove
  PROVE  LostInv'
<1> DEFINE h == call.name
           entry == SeenDir[h]
<1>1. /\ call.at = "lookup" /\ ~MustFlush /\ card' = card /\ UNCHANGED <<file, past>>
      /\ call.op = "remove" /\ Read /\ call # NoCall
  BY NoCallIs DEF LookupToRemove, Ready
<1>2. /\ CallOK /\ Value = SeenDir /\ {"erase", "free"} \subseteq Places
      /\ h \in Files /\ file = NoHandle /\ entry.first \in Nat
      /\ entry.first \in {Free} \cup Clusters
      /\ faults' = faults /\ losses' = losses /\ gone' = gone /\ file' = file
  <2>1. /\ h \in Files /\ SeenDir \in [Files -> Entry] /\ CallOK /\ Value = SeenDir
        /\ file = NoHandle
    BY <1>1, TypesAre, ReadIs DEF Good, WorkInv, TypeInv
  <2>2. entry \in Entry
    BY <2>1
  <2> HIDE DEF entry
  <2>3. entry.first \in {Free} \cup Clusters
    BY <2>2, EntryIs
  <2>4. Free \in Nat /\ Clusters \subseteq Nat
    BY Marks DEF Free
  <2> QED
    BY <1>1, <2>1, <2>3, <2>4 DEF past, Places
<1>3. CardKept /\ SeenKept
  BY <1>1, ReadsKeep
<1>4. \/ call'.at \in {"idle", "erase"}
      \/ call'.at = "free" /\ call'.name = h
  <2>1. CASE entry.there /\ entry.size = 0 /\ Go("erase")
    BY <1>1, <1>2, <2>1, GoesTo DEF Go, Same
  <2>2. CASE entry.there /\ call' = [call EXCEPT !.at = "free", !.c = entry.first]
    <3>1. PICK x \in Nat : x = entry.first
      BY <1>2
    <3>2. Same(call') /\ call'.at = "free"
      BY <1>2, <2>2, <3>1, GoesFreeing
    <3> QED
      BY <1>1, <2>2, <3>2 DEF Same
  <2> QED
    BY <1>2, <2>1, <2>2, NoCallIs DEF LookupToRemove
<1>5. Pending = {}
  BY <1>1, NothingInHand
<1>6. Held' = Held
  BY <1>2, <1>3 DEF Held, SeenKept
<1>7. LostMove /\ Vacant(SeenDir')
  BY <1>3, <1>5, <1>6 DEF LostMove, SeenKept, LostInv
<1>8. FreedFirst'
  <2>1. CASE call'.at = "free" /\ call'.name = h /\ gone = h
    <3>1. SeenDir[h].first = 0
      BY <1>1, <1>2, <2>1, NoNameIsNone DEF Good, SoundInv, RemovalInv, Unlinking
    <3> QED
      BY <1>3, <2>1, <3>1, Marks DEF FreedFirst, SeenKept, Free
  <2> QED
    BY <1>2, <1>4, <2>1 DEF FreedFirst
<1> QED
  BY <1>2, <1>3, <1>7, <1>8, LostSo

(* The heads of chains, after a cluster that points at none is marked.      *)
LEMMA HeadsAfter ==
  ASSUME NEW F \in Fats, NEW x \in Clusters, NEW y \in FatValues, NEW c,
         Heads(Marked(F, x, y), c)
  PROVE  /\ c \in Clusters /\ c # y /\ (c = x => y # Free)
         /\ c = x \/ c = F[x] \/ Heads(F, c)
<1> DEFINE G == Marked(F, x, y)
<1>1. G[x] = y /\ \A d \in Clusters : d # x => G[d] = F[d]
  BY DEF Marked, Fats
<1>2. c \in Clusters /\ G[c] # Free /\ \A d \in Clusters : G[d] # c
  BY DEF Heads
<1> HIDE DEF G
<1>3. c # y /\ (c = x => y # Free)
  BY <1>1, <1>2
<1>4. ASSUME c # x, c # F[x] PROVE Heads(F, c)
  BY <1>1, <1>2, <1>4 DEF Heads
<1> QED
  BY <1>2, <1>3, <1>4

LEMMA TakeClusterLoses ==
  ASSUME Good, KeepInv, LostInv, TakeCluster
  PROVE  LostInv'
<1> DEFINE F == SeenFat
           G == SeenFat'
           x == call.c
<1>0. /\ call.at = "search" /\ ~MustFlush /\ card' = card
      /\ faults' = faults /\ losses' = losses
      /\ Value[x] = Free /\ Put([Value EXCEPT ![x] = EOC])
  BY DEF TakeCluster, Ready
<1>1. /\ CursorInv /\ F \in Fats /\ file.pos \in Nat /\ file.size \in Nat
      /\ file \in Handles /\ CallOK /\ file.name \in Files /\ StoreOK
      /\ x \in Clusters /\ {"link", "data"} \subseteq Places
      /\ Wanted = Fat(x) /\ EOC \in FatValues /\ call.op = "print"
  BY <1>0, TypesAre, HandleIs, WantedIs
     DEF Good, SoundInv, TypeInv, WorkInv, Places, FatValues, KeepInv, OpInv
<1>2. /\ G = Marked(F, x, EOC) /\ SeenDir' = SeenDir /\ F[x] = Free /\ CardKept
  BY <1>0, <1>1, FatPut
<1> HIDE DEF F, G, x
<1>3. \A c \in Clusters : Heads(G, c) => c = x \/ Heads(F, c)
  BY <1>1, <1>2, HeadsAfter, Marks
<1>4. LostMove /\ call'.at \in {"link", "data"}
  <2>1. CASE file.cur = 0
    <3>1. file' = OnFirst(file, x) /\ call' = [call EXCEPT !.at = "data"]
      BY <2>1 DEF TakeCluster, Go, x, OnFirst
    <3>2. file'.first = x /\ file'.name = file.name /\ file'.size = file.size
      BY <1>1, <3>1, AtFirst
    <3>3. Same(call') /\ call'.at = "data"
      BY <1>1, <3>1, GoesTo
    <3>4. file.first = 0 /\ file.size = 0
      BY <1>0, <1>1, <2>1 DEF CursorInv
    <3>5. x \in Pending'
      BY <1>1, <3>2, <3>3, <3>4 DEF Pending, Same
    <3>6. Pending = {}
      BY <1>0, <3>4, Marks DEF Pending, Free
    <3>7. \A f \in Files : Held[f].size # 0 => Held'[f] = Held[f]
      BY <1>2, <3>2, <3>4 DEF Held
    <3> QED
      BY <1>3, <3>3, <3>5, <3>6, <3>7 DEF LostMove, F, G
  <2>2. CASE file.cur # 0
    <3>1. file' = file /\ call' = [call EXCEPT !.at = "link"]
      BY <2>2 DEF TakeCluster, Go, x
    <3>2. Same(call') /\ call'.at = "link" /\ call'.c = x
      BY <1>1, <3>1, GoesTo DEF x
    <3>3. x \in Pending' /\ Pending \subseteq Pending'
      BY <1>0, <1>1, <3>1, <3>2 DEF Pending, Same
    <3>4. Held' = Held
      BY <1>2, <3>1 DEF Held
    <3> QED
      BY <1>3, <3>2, <3>3, <3>4 DEF LostMove, F, G
  <2> QED
    BY <2>1, <2>2
<1>5. Vacant(SeenDir')
  BY <1>2 DEF LostInv
<1> QED
  BY <1>0, <1>2, <1>4, <1>5, FarFromFree, LostSo

LEMMA LinkLoses ==
  ASSUME Good, LostInv, Link
  PROVE  LostInv'
<1> DEFINE F == SeenFat
           G == SeenFat'
           x == call.c
           e == file.cur
<1>0. /\ call.at = "link" /\ ~MustFlush /\ card' = card /\ Put([Value EXCEPT ![e] = x])
      /\ file' = [file EXCEPT !.cur = x] /\ call' = [call EXCEPT !.at = "data"]
      /\ faults' = faults /\ losses' = losses
  BY DEF Link, Ready, Go
<1>1. /\ CursorInv /\ F \in Fats /\ file \in Handles /\ CallOK /\ StoreOK
      /\ e \in Clusters /\ e # 0 /\ x \in Clusters /\ "data" \in Places
      /\ Wanted = Fat(e) /\ x \in FatValues
  BY <1>0, TypesAre, WantedIs, Marks
     DEF Good, SoundInv, TypeInv, WorkInv, Places, FatValues, Free
<1>2. G = Marked(F, e, x) /\ SeenDir' = SeenDir /\ CardKept
  BY <1>0, <1>1, FatPut
<1>3. F[e] = EOC
  BY <1>0, <1>1 DEF CursorInv
<1> HIDE DEF F, G, x, e
<1>4. \A c \in Clusters : Heads(G, c) => c # x /\ Heads(F, c)
  <2> SUFFICES ASSUME NEW c \in Clusters, Heads(G, c) PROVE c # x /\ Heads(F, c)
    OBVIOUS
  <2>1. c # x /\ (c = e \/ c = F[e] \/ Heads(F, c))
    BY <1>1, <1>2, HeadsAfter
  <2>2. c # F[e]
    BY <1>3, Marks
  <2>3. c = e => Heads(F, c)
    <3> SUFFICES ASSUME c = e PROVE Heads(F, c)
      OBVIOUS
    <3>1. \A d \in Clusters : F[d] # c
      <4>1. \A d \in Clusters : d # e => G[d] = F[d]
        BY <1>1, <1>2 DEF Marked, Fats
      <4> QED
        BY <2>2, <4>1 DEF Heads
    <3> QED
      BY <1>3, <3>1, Marks DEF Heads
  <2> QED
    BY <2>1, <2>2, <2>3
<1>5. Stays(file')
  BY <1>0, <1>1 DEF Stays, Handles
<1>6. Same(call') /\ call'.at = "data"
  BY <1>0, <1>1, GoesTo
<1>7. Held' = Held
  BY <1>2, <1>5 DEF Held, Stays
<1>8. \A c \in Pending : c \in Pending' \/ c = x
  BY <1>0, <1>5, <1>6 DEF Pending, Stays, Same, x
<1>9. LostMove
  BY <1>1, <1>4, <1>7, <1>8 DEF LostMove, F, G
<1>10. Vacant(SeenDir')
  BY <1>2 DEF LostInv
<1> QED
  BY <1>0, <1>2, <1>6, <1>9, <1>10, FarFromFree, LostSo

(* The rest of a chain whose first cluster is freed is freed next.          *)
LEMMA FreeClusterLoses ==
  ASSUME Good, KeepInv, LostInv, FreeCluster
  PROVE  LostInv'
<1> DEFINE F == SeenFat
           G == SeenFat'
           x == call.c
<1> PICK h : h = call.name
  OBVIOUS
<1>0. /\ call.at = "free" /\ ~MustFlush /\ card' = card /\ file' = file
      /\ Put([Value EXCEPT ![x] = Free]) /\ gone' = h
      /\ faults' = faults /\ losses' = losses
      /\ \/ Value[x] = EOC /\ call' = [call EXCEPT !.at = "clear"]
         \/ Value[x] # EOC /\ call' = [call EXCEPT !.c = Value[x]]
  BY DEF FreeCluster, Ready, Go
<1>1. /\ CallOK /\ StoreOK /\ h \in Files /\ file = NoHandle /\ F \in Fats
      /\ Wanted = Fat(x) /\ x \in Clusters /\ Free \in FatValues /\ "clear" \in Places
      /\ Linked(F) /\ Heads(F, x) /\ (gone # h => SeenDir[h].first = x)
      /\ call.op = "remove"
  BY <1>0, TypesAre, WantedIs
     DEF Good, SoundInv, TypeInv, WorkInv, SeenChains, Places, FreedInv, FatValues, KeepInv,
         OpInv, Removing
<1>2. /\ G = Marked(F, x, Free) /\ SeenDir' = SeenDir /\ F[x] = Value[x] /\ CardKept
  BY <1>0, <1>1, FatPut
<1>3. gone # h => call.name # gone
  OBVIOUS
<1> HIDE DEF F, G, x
<1>4. F[x] # EOC => F[x] \in Clusters
  BY <1>1, <1>2, FreeKeeps
<1>5. Same(call') /\ \/ F[x] = EOC /\ call'.at = "clear"
                     \/ F[x] # EOC /\ call'.at = "free" /\ call'.c = F[x]
  <2>1. CASE Value[x] = EOC /\ call' = [call EXCEPT !.at = "clear"]
    BY <1>1, <1>2, <2>1, GoesTo
  <2>2. CASE Value[x] # EOC /\ call' = [call EXCEPT !.c = Value[x]]
    <3>1. PICK y : y = Value[x]
      OBVIOUS
    <3>2. y \in Nat /\ call' = [call EXCEPT !.c = y]
      BY <1>2, <1>4, <2>2, <3>1, Marks
    <3> QED
      BY <1>0, <1>1, <1>2, <2>2, <3>1, <3>2, GoesAlong
  <2> QED
    BY <1>0, <2>1, <2>2
<1>6. G[x] = Free /\ \A d \in Clusters : d # x => G[d] = F[d]
  BY <1>1, <1>2 DEF Marked, Fats
<1>7. \A c \in Clusters : Heads(G, c) => c # x /\ (c \in Pending' \/ Heads(F, c))
  <2> SUFFICES ASSUME NEW c \in Clusters, Heads(G, c)
               PROVE  c # x /\ (c \in Pending' \/ Heads(F, c))
    OBVIOUS
  <2>1. c # x /\ (c = F[x] \/ Heads(F, c))
    BY <1>1, <1>2, HeadsAfter
  <2>2. c # EOC
    BY Marks
  <2> QED
    BY <1>5, <2>1, <2>2 DEF Pending
<1>8. Held' = Held
  BY <1>0, <1>2 DEF Held
<1>9. Pending \subseteq {x}
  BY <1>1 DEF Pending, x
<1>10. LostMove
  BY <1>1, <1>7, <1>8, <1>9 DEF LostMove, F, G
<1>11. FreedFirst'
  <2> SUFFICES ASSUME NEW c \in Clusters, SeenDir[h].first = c PROVE G[c] = Free
    BY <1>2, <1>5 DEF FreedFirst, Same, G
  <2>1. CASE gone # h
    BY <1>1, <1>6, <2>1
  <2>2. CASE gone = h
    <3>1. F[c] = Free
      BY <1>0, <2>2 DEF LostInv, FreedFirst, F
    <3> QED
      BY <1>6, <3>1
  <2> QED
    BY <2>1, <2>2
<1>12. Vacant(SeenDir')
  BY <1>2 DEF LostInv
<1> QED
  BY <1>0, <1>2, <1>10, <1>11, <1>12, LostSo

LEMMA StoreLoses ==
  ASSUME Good, KeepInv, LostInv, Store
  PROVE  LostInv'
<1>1. PICK n \in Nat :
        /\ call.at = "data" /\ ~MustFlush /\ card' = card
        /\ Room(n) /\ Put(Filling(n))
        /\ file'.name = file.name /\ file'.first = file.first
        /\ \/ /\ file'.size = file.size /\ Same(call') /\ call'.at \in {"next", "data"}
           \/ file'.size = file.pos + n /\ call' = NoCall
  BY StoreIs
<1>2. SeenFat' = SeenFat /\ SeenDir' = SeenDir /\ CardKept
  BY <1>1, StoredBlocks, CardKeeps
<1>3. /\ file.name \in Files /\ file.pos \in Nat /\ faults' = faults /\ losses' = losses
  BY <1>1, HandleIs, TypesAre DEF Good, WorkInv, TypeInv, Store
<1>4. call'.at \in {"next", "data", "idle"}
  BY <1>1, NoCallIs
<1>5. CASE file'.size = file.size /\ Same(call')
  <2>1. Held' = Held /\ Pending \subseteq Pending'
    BY <1>1, <1>2, <1>5 DEF Held, Pending, Same
  <2> QED
    BY <1>2, <1>3, <1>4, <2>1, LostStays DEF SeenKept
<1>6. CASE file'.size = file.pos + n
  <2>1. file'.size # 0
    BY <1>1, <1>3, <1>6 DEF Room
  <2>2. /\ Held'[file.name].first = file.first /\ Held'[file.name].size # 0
        /\ \A f \in Files : f # file.name => Held'[f] = Held[f]
    BY <1>1, <1>2, <1>3, <2>1 DEF Held
  <2>3. \A c \in Pending : c = file.first
    BY <1>1 DEF Pending
  <2>4. LostMove
    BY <1>2, <1>3, <2>2, <2>3, HeldIs DEF LostMove
  <2>5. Vacant(SeenDir')
    BY <1>2 DEF LostInv
  <2> QED
    BY <1>2, <1>3, <1>4, <2>4, <2>5, FarFromFree, LostSo
<1> QED
  BY <1>1, <1>5, <1>6
-----------------------------------------------------------------------------
(* A flush brings the card to what is seen, with what is in hand lost to it *)
(* until the call is over.                                                  *)
LEMMA FlushBlockLoses ==
  ASSUME Good, LostInv, FlushBlock
  PROVE  LostInv'
<1>1. /\ call' = call /\ file' = file /\ faults' = faults /\ losses' = losses
      /\ gone' \in {gone, NoName}
  BY DEF FlushBlock
<1>2. SeenKept /\ CardFat' = SeenFat /\ CardDir' = SeenDir
  BY FlushSaves DEF Good, TypeInv
<1>3. Pending' = Pending /\ Held' = Held /\ Troubles' = Troubles
  BY <1>1, <1>2 DEF Pending, Held, Troubles, SeenKept
<1>4. LostBound'
  <2>1. Cardinality(Lost(SeenFat, SeenDir)) <= 2 * Troubles + 2
    BY AtMostTwo DEF LostInv, Good
  <2> QED
    BY <1>2, <1>3, <2>1 DEF LostInv, LostBound, SeenKept
<1>5. FreedFirst'
  <2>1. call.at = "free" => call.name # NoName
    BY NoNameIsNone DEF Good, WorkInv
  <2> QED
    BY <1>1, <1>2, <2>1 DEF LostInv, FreedFirst, SeenKept
<1> QED
  BY <1>2, <1>4, <1>5 DEF LostInv, SeenKept

LEMMA FlushMirrorLoses ==
  ASSUME Good, LostInv, FlushMirror
  PROVE  LostInv'
<1>1. /\ call' = call /\ file' = file /\ faults' = faults /\ losses' = losses /\ gone' = gone
  BY DEF FlushMirror, past
<1>2. SeenKept /\ CardKept
  BY MirrorSaves DEF Good, TypeInv
<1>3. Pending' = Pending /\ Held' = Held /\ Troubles' = Troubles
  BY <1>1, <1>2 DEF Pending, Held, Troubles, SeenKept
<1> QED
  BY <1>1, <1>2, <1>3 DEF LostInv, LostBound, FreedFirst, SeenKept, CardKept

(* A failure leaves to nobody what the call had in hand.                    *)
LEMMA CardFailsLoses ==
  ASSUME Good, LostInv, CardFails
  PROVE  LostInv'
<1>1. /\ card' = card /\ losses' = losses /\ faults' = faults + 1 /\ call' = NoCall
      /\ cache' = [cache EXCEPT !.state = IF cache.state = "mirror" THEN "dirty" ELSE @]
      /\ file' = IF call.op = "close" THEN NoHandle ELSE file
  BY DEF CardFails
<1>2. CacheShape(cache) /\ faults \in Nat /\ losses \in Nat
  BY DEF Good, TypeInv, PastOK, StoreOK, CacheOK
<1>3. cache'.block = cache.block /\ cache'.value = cache.value
  BY <1>1, <1>2 DEF CacheShape
<1>4. Seen' = Seen
  BY <1>1, <1>3 DEF Seen
<1>5. SeenKept /\ CardKept
  BY <1>1, <1>4, SeenKeeps, CardKeeps
<1>6. \/ Lost(SeenFat', Held') = Lost(SeenFat, Held)
      \/ Lost(SeenFat', Held') = Lost(SeenFat, SeenDir)
  <2>1. CASE call.op = "close"
    <3>1. \A f \in Files : Held'[f] = SeenDir[f]
      BY <1>1, <1>5, <2>1, NoHandleIs, NoNameIsNone DEF Held, SeenKept
    <3> QED
      BY <1>5, <3>1 DEF Lost, SeenKept
  <2>2. CASE call.op # "close"
    <3>1. Held' = Held
      BY <1>1, <1>5, <2>2 DEF Held, SeenKept
    <3> QED
      BY <1>5, <3>1 DEF SeenKept
  <2> QED
    BY <2>1, <2>2
<1>7. Cardinality(Lost(SeenFat', Held')) <= 2 * Troubles + 2
  BY <1>6, AtMostTwo DEF LostInv, Good
<1>8. 2 * Troubles' = 2 * Troubles + 2 /\ Troubles \in Nat
  <2>1. faults' = faults + 1 /\ losses' = losses
    BY <1>1
  <2> QED
    BY <1>2, <2>1 DEF Troubles
<1>9. call'.at = "idle" /\ call'.op = "none"
  BY <1>1, NoCallIs
<1>10. Pending' = {}
  BY <1>9 DEF Pending
<1>11. LostBound'
  <2>1. Lost(SeenFat', Held') \ Pending' = Lost(SeenFat', Held')
    BY <1>10
  <2>2. Cardinality(Lost(CardFat', CardDir')) <= 2 * Troubles + 2
    BY <1>5 DEF LostInv, LostBound, CardKept
  <2>3. Lost(CardFat', CardDir') \in SUBSET Clusters
    BY DEF Lost
  <2>4. Cardinality(Lost(CardFat', CardDir')) \in Nat
    BY <2>3, LostFinite
  <2> QED
    BY <1>7, <1>8, <2>1, <2>2, <2>4 DEF LostBound
<1> QED
  BY <1>5, <1>9, <1>11, FarFromFree DEF LostInv, SeenKept, CardKept

LEMMA PowerFailsLoses ==
  ASSUME Good, LostInv, PowerFails
  PROVE  LostInv'
<1>1. /\ card' = card /\ losses' = losses + 1 /\ faults' = faults /\ call' = NoCall
      /\ cache' = Unused /\ file' = NoHandle
  BY DEF PowerFails
<1>2. faults \in Nat /\ losses \in Nat
  BY DEF Good, TypeInv, PastOK
<1>3. Seen' = card
  BY <1>1 DEF Seen, Unused
<1>4. SeenFat' = CardFat /\ SeenDir' = CardDir /\ CardKept
  BY <1>1, <1>3, CardKeeps DEF SeenFat, CardFat, SeenDir, CardDir
<1>5. \A f \in Files : Held'[f] = CardDir[f]
  BY <1>1, <1>4, NoHandleIs, NoNameIsNone DEF Held
<1>6. Lost(SeenFat', Held') = Lost(CardFat, CardDir)
  BY <1>4, <1>5 DEF Lost
<1>7. Cardinality(Lost(CardFat, CardDir)) <= 2 * Troubles + 2
  BY DEF LostInv, LostBound
<1>8. Lost(CardFat, CardDir) \in SUBSET Clusters
  BY DEF Lost
<1>9. Cardinality(Lost(CardFat, CardDir)) \in Nat
  BY <1>8, LostFinite
<1>10. 2 * Troubles' = 2 * Troubles + 2 /\ Troubles \in Nat
  BY <1>1, <1>2 DEF Troubles
<1>11. call'.at = "idle" /\ call'.op = "none"
  BY <1>1, NoCallIs
<1>12. Pending' = {}
  BY <1>11 DEF Pending
<1>13. Lost(SeenFat', Held') \ Pending' = Lost(CardFat, CardDir)
  BY <1>6, <1>12
<1>14. LostBound'
  BY <1>4, <1>7, <1>9, <1>10, <1>13 DEF LostBound, CardKept
<1> QED
  BY <1>4, <1>11, <1>14, FarFromFree DEF LostInv, CardKept
-----------------------------------------------------------------------------
LEMMA StepLoses ==
  ASSUME Good, Good', KeepInv, KeepInv', LostInv, Fitting, Step
  PROVE  LostInv'
<1>1. CASE FlushBlock \/ FlushMirror
  BY <1>1, FlushBlockLoses, FlushMirrorLoses
<1>2. CASE LookupToOpen \/ Begin \/ SeekStep \/ SeekEnd \/ NextCluster \/ SearchOn \/ CardFull
  BY <1>2, LookupToOpenLoses, ReadingLoses, FullCardLoses
<1>3. CASE TakeCluster \/ Link \/ Store \/ PutEntry \/ Flushed
  BY <1>3, TakeClusterLoses, LinkLoses, StoreLoses, PutEntryLoses, FlushedLoses
<1>4. CASE LookupToRemove \/ FreeCluster \/ ClearEntry \/ Cleared \/ EraseEntry
  BY <1>4, LookupToRemoveLoses, FreeClusterLoses, ClearEntryLoses, ClearedLoses, EraseEntryLoses
<1> QED
  BY <1>1, <1>2, <1>3, <1>4 DEF Step

LosesLittle == ~broken => LostInv

LEMMA NextLoses ==
  ASSUME FatInv, FatInv', KeepsInv, KeepsInv', Fitting, LosesLittle, [Next]_vars
  PROVE  LosesLittle'
<1> SUFFICES ASSUME ~broken' PROVE LostInv'
  BY DEF LosesLittle
<1>1. ~broken
  BY DamageStays
<1>2. Good /\ Good' /\ KeepInv /\ KeepInv' /\ LostInv
  BY <1>1 DEF FatInv, ChainInv, Sound, Good, KeepsInv, LosesLittle
<1>3. CASE Step
  BY <1>2, <1>3, StepLoses
<1>4. CASE \/ \E f \in Files : Open(f) \/ Remove(f)
           \/ (\E k \in 1 .. MaxPrint : Write(k)) \/ Close
  BY <1>2, <1>4, CallsLose
<1>5. CASE CardFails \/ PowerFails
  BY <1>2, <1>5, CardFailsLoses, PowerFailsLoses
<1>6. CASE UNCHANGED vars
  <2>1. /\ CardKept /\ SeenKept /\ Pending' = Pending /\ Held' = Held /\ Troubles' = Troubles
        /\ call' = call /\ gone' = gone
    BY <1>6 DEF vars, ram, past, CardKept, SeenKept, CardFat, SeenFat, CardDir, SeenDir, Seen,
         FatEntry, Pending, Held, Troubles
  <2> QED
    BY <1>2, <2>1 DEF LostInv, LostBound, FreedFirst, SeenKept, CardKept
<1> QED
  BY <1>3, <1>4, <1>5, <1>6 DEF Next

LEMMA NothingLostYet ==
  ASSUME Init
  PROVE  LostInv
<1>0. /\ card = [b \in Blocks |-> Blank(b)] /\ cache = Unused
      /\ file = NoHandle /\ call = NoCall /\ faults = 0 /\ losses = 0
  BY DEF Init, Blocks
<1>1. Seen = card
  BY <1>0 DEF Seen, Unused
<1>2. \A c \in Clusters : SeenFat[c] = Free /\ CardFat[c] = Free
  <2> TAKE c \in Clusters
  <2>1. Fat(c) \in Blocks /\ Fat(c) # Dir /\ Fat(c) \notin DataBlocks
    BY BlocksApart DEF DataBlocks
  <2>2. Fat(c)[2] = FatIndex(c)
    BY DEF Fat
  <2>3. card[Fat(c)] = [d \in {d \in Clusters : FatIndex(d) = FatIndex(c)} |-> Free]
    BY <1>0, <2>1, <2>2 DEF Blank
  <2> QED
    BY <1>1, <2>3 DEF SeenFat, CardFat, FatEntry
<1>3. \A f \in Files : SeenDir[f] = Absent /\ CardDir[f] = Absent
  <2>1. Dir \notin DataBlocks
    BY BlocksApart DEF DataBlocks
  <2> QED
    BY <1>0, <1>1, <2>1, BlocksApart DEF Blank, SeenDir, CardDir, Blocks
<1>4. Lost(SeenFat, Held) \ Pending = {} /\ Lost(CardFat, CardDir) = {}
  BY <1>2 DEF Lost, Heads
<1>5. Cardinality({}) = 0
  BY FS_EmptySet
<1>6. LostBound
  BY <1>0, <1>4, <1>5 DEF LostBound, Troubles
<1>7. FreedFirst
  BY <1>0, NoCallIs DEF FreedFirst
<1> QED
  BY <1>3, <1>6, <1>7, EmptyIs DEF LostInv, Vacant

(* However often the card or the power fails, each time a call was under    *)
(* way costs at most two chains that belong to no file: what write() had    *)
(* allocated and neither linked nor entered, and what remove() had left to  *)
(* free.  No legal sequence of calls loses any.                             *)
THEOREM LittleIsLost == Spec => []LostChains
<1>1. Spec => []LosesLittle
  <2>1. Init => LosesLittle
    BY NothingLostYet DEF LosesLittle
  <2>2. FatInv /\ FatInv' /\ KeepsInv /\ KeepsInv' /\ Fitting /\ LosesLittle /\ [Next]_vars
          => LosesLittle'
    BY NextLoses
  <2> QED
    BY <2>1, <2>2, FatAlways, KeepsAlways, PrintsFit, PTL DEF Spec
<1>2. FatInv /\ LosesLittle => LostChains
  <2> DEFINE taken == {c \in Clusters : FatEntry(Seen, c) # Free}
             owned == UNION {Reach(Seen, Seen[Dir][f].first) : f \in Files}
             heads == {c \in taken \ owned : \A d \in taken : FatEntry(Seen, d) # c}
  <2> SUFFICES ASSUME FatInv, LosesLittle, call = NoCall, file = NoHandle, ~broken
               PROVE  Cardinality(heads) <= 2 * (faults + losses)
    BY DEF LostChains
  <2>1. LostInv /\ TypeInv
    BY DEF LosesLittle, FatInv
  <2>2. \A c \in Clusters : SeenFat[c] = FatEntry(Seen, c)
    BY DEF SeenFat
  <2>3. \A c \in heads : Heads(SeenFat, c)
    BY <2>2, Marks DEF Heads
  <2>4. \A c \in heads, f \in Files : SeenDir[f].first # c
    <3> SUFFICES ASSUME NEW f \in Files PROVE SeenDir[f].first \in Reach(Seen, SeenDir[f].first)
      BY DEF SeenDir
    <3>1. /\ SeenDir[f].first \in {Free} \cup Clusters /\ FatOf(Seen) \in Fats
          /\ Longest \in Nat
      <4>1. SeenDir[f] \in Entry
        BY <2>1, TypesAre
      <4> QED
        BY <2>1, <4>1, EntryIs, FatsAre, ClustersFinite
    <3>2. Chain(Seen, SeenDir[f].first)[0] = SeenDir[f].first
      BY <3>1, ChainIsWalk DEF Walks
    <3>3. 0 \in 0 .. Cardinality(Clusters)
      BY <3>1 DEF Longest
    <3> QED
      BY <3>2, <3>3 DEF Reach
  <2>5. Held = SeenDir
    BY <2>1, NoHandleIs, NoNameIsNone, TypesAre DEF Held
  <2>6. Pending = {}
    BY NothingInHand
  <2> DEFINE S == Lost(SeenFat, Held) \ Pending
  <2>7. heads \subseteq S
    BY <2>3, <2>4, <2>5, <2>6 DEF Lost, Heads
  <2>8. S \in SUBSET Clusters /\ Cardinality(S) <= 2 * Troubles
    BY <2>1 DEF LostInv, LostBound, Lost
  <2> HIDE DEF heads, S
  <2>9. Cardinality(heads) <= Cardinality(S) /\ Cardinality(S) \in Nat
    BY <2>7, <2>8, CountLess, LostFinite
  <2>10. heads \in SUBSET Clusters /\ Troubles \in Nat
    BY <2>1, <2>7, <2>8 DEF Troubles, TypeInv, PastOK
  <2>11. Cardinality(heads) \in Nat
    BY <2>10, LostFinite
  <2> QED
    BY <2>8, <2>9, <2>10, <2>11 DEF Troubles
<1> QED
  BY <1>1, <1>2, FatAlways, PTL
-----------------------------------------------------------------------------
(* What a call leaves in the cache.  While no access has failed, a call     *)
(* that leaves no file open leaves nothing there that is not on the card.   *)
Quiet == file = NoHandle /\ (call = NoCall \/ call.at = "lookup")

IdleInv == faults = 0 /\ Quiet => cache.state # "dirty"

LEMMA StillOpen ==
  ASSUME Good, KeepInv, file.name # NoName,
         \/ Begin \/ SeekStep \/ SeekEnd \/ NextCluster \/ SearchOn \/ CardFull
         \/ TakeCluster \/ Link \/ Store
  PROVE  file' # NoHandle
<1>1. file \in Handles
  BY DEF Good, TypeInv
<1>2. file'.name = file.name
  <2>1. CASE Store
    BY <2>1, StoreIs
  <2>2. CASE TakeCluster
    BY <1>1, <2>2 DEF TakeCluster, Handles
  <2>3. CASE Begin \/ SeekStep \/ SeekEnd \/ NextCluster \/ SearchOn \/ CardFull \/ Link
    BY <1>1, <2>3, FileStays DEF Stays
  <2> QED
    BY <2>1, <2>2, <2>3
<1> QED
  BY <1>2, NoHandleIs

LEMMA StillAtWork ==
  ASSUME CallOK, PutEntry \/ FreeCluster \/ ClearEntry \/ Cleared \/ EraseEntry
  PROVE  call'.at \notin {"idle", "lookup"}
  BY DEF CallOK, CallType, Go, Ready, PutEntry, FreeCluster, ClearEntry, Cleared, EraseEntry

LEMMA IdleStep ==
  ASSUME Good, KeepInv, IdleInv, Step
  PROVE  IdleInv'
<1> SUFFICES ASSUME faults' = 0, Quiet' PROVE cache'.state # "dirty"
  BY DEF IdleInv
<1>0. CallOK /\ StoreOK /\ call'.at \in {"idle", "lookup"} /\ file' = NoHandle
  BY NoCallIs DEF Good, TypeInv, Quiet
<1>1. CASE FlushBlock \/ FlushMirror
  BY <1>0, <1>1, FlushSaves, MirrorSaves
<1>2. CASE \/ Begin \/ SeekStep \/ SeekEnd \/ NextCluster \/ SearchOn \/ CardFull
           \/ TakeCluster \/ Link \/ Store
  <2>1. call.at \in {"begin", "seek", "next", "search", "link", "data"}
    BY <1>2 DEF Begin, SeekStep, SeekEnd, NextCluster, SearchOn, CardFull, TakeCluster, Link,
         Store, Ready
  <2> QED
    BY <1>0, <1>2, <2>1, StillOpen DEF Good, WorkInv
<1>3. CASE PutEntry \/ FreeCluster \/ ClearEntry \/ Cleared \/ EraseEntry
  BY <1>0, <1>3, StillAtWork
<1>4. CASE Flushed
  BY <1>4 DEF Flushed, Ready, MustFlush, Flushing
<1>5. CASE LookupToOpen
  <2>1. call.at = "lookup" /\ call.name # NoName
    BY <1>5, NoNameIsNone DEF LookupToOpen, Ready, Good, WorkInv
  <2>2. ASSUME NEW entry, file' = Handle(call.name, entry) PROVE FALSE
    BY <1>0, <2>1, <2>2, NoHandleIs DEF Handle, NoHandle
  <2>3. ASSUME NEW entry, Seek(Handle(call.name, entry)) PROVE FALSE
    BY <1>0, <2>1, <2>3, NoHandleIs DEF Seek, Handle, NoHandle
  <2>4. Go("flush") => FALSE
    BY <1>0 DEF Go, CallOK, CallType
  <2> QED
    BY <1>5, <2>2, <2>3, <2>4 DEF LookupToOpen
<1>6. CASE LookupToRemove
  <2>1. Quiet /\ faults = 0
    BY <1>6 DEF LookupToRemove, Ready, Quiet, Good, WorkInv, past
  <2> QED
    BY <1>6, <2>1 DEF IdleInv, LookupToRemove, Read
<1> QED
  BY <1>1, <1>2, <1>3, <1>4, <1>5, <1>6 DEF Step

LEMMA IdleKept ==
  ASSUME Good, KeepInv, IdleInv, [Next]_vars
  PROVE  IdleInv'
<1>1. CASE Step
  BY <1>1, IdleStep
<1>2. CASE \E f \in Files : Open(f) \/ Remove(f)
  BY <1>2 DEF IdleInv, Quiet, Open, Remove, past
<1>3. CASE (\E k \in 1 .. MaxPrint : Write(k)) \/ Close
  BY <1>3 DEF IdleInv, Quiet, Write, Close
<1>4. CASE CardFails
  BY <1>4 DEF IdleInv, CardFails, Good, TypeInv, PastOK
<1>5. CASE PowerFails
  BY <1>5 DEF IdleInv, PowerFails, Unused
<1>6. CASE UNCHANGED vars
  BY <1>6 DEF IdleInv, Quiet, vars, ram, past
<1> QED
  BY <1>1, <1>2, <1>3, <1>4, <1>5, <1>6 DEF Next

(* What close() (SdFile::sync() behind it) is trusted for: once no file is  *)
(* open and no access has failed, every file reads the same through the     *)
(* cache and from the card, whatever calls and losses of power came before. *)
(* So the power may go there and nothing is lost.                           *)
THEOREM ClosedFilesAreSaved == Spec => []ClosedIsSaved
<1>1. Init => (~broken => IdleInv)
  BY DEF Init, IdleInv, Unused
<1>2. FatInv /\ KeepsInv /\ (~broken => IdleInv) /\ [Next]_vars => (~broken => IdleInv)'
  BY DamageStays, IdleKept DEF FatInv, ChainInv, Sound, Good, KeepsInv
<1>3. FatInv /\ (~broken => IdleInv) => ClosedIsSaved
  <2> SUFFICES ASSUME FatInv, IdleInv, call = NoCall, file = NoHandle, faults = 0, ~broken,
                      NEW f \in Files
               PROVE  View(f) = CardView(f)
    BY DEF ClosedIsSaved
  <2>1. Good
    BY DEF FatInv, ChainInv, Sound, Good
  <2>2. cache.state # "dirty"
    BY DEF IdleInv, Quiet
  <2>3. Seen = card
    BY <2>1, <2>2, SeenIsCard DEF Good, TypeInv, StoreOK
  <2>4. gone = NoName
    BY <2>1, <2>2, NoCallIs DEF Good, SoundInv, RemovalInv, Unlinking
  <2>5. file.name # f /\ gone # f
    BY <2>4, NoHandleIs, NoNameIsNone
  <2> QED
    BY <2>3, <2>5 DEF View, CardView
<1> QED
  BY <1>1, <1>2, <1>3, FatAlways, KeepsAlways, PTL DEF Spec
=============================================================================
