-------------------------------- MODULE SdFat --------------------------------
(***************************************************************************)
(* The SD library under the loggers: SdFile and SdVolume with their one    *)
(* block of cache, the two copies of the FAT, the directory and the data   *)
(* blocks.  A call (open, print, close, remove) is the sequence of block   *)
(* accesses the code makes; each may fail, and the power may go between    *)
(* any two.  One block is written whole or not at all.                     *)
(*                                                                         *)
(* One file is open at a time, opened with FILE_WRITE, as in all sketches  *)
(* that log; a print is shorter than a block, so write() never bypasses    *)
(* the cache; the directory is one block with room for all Files.          *)
(***************************************************************************)
EXTENDS Naturals, Sequences, FiniteSets, FiniteSetsExt

CONSTANTS
  Files, NoName,
  LastCluster,        (* clusters are 2 .. LastCluster                       *)
  PerFat,             (* FAT entries in a block of the FAT                   *)
  PerBlock,           (* units of print in a block of data                   *)
  BlocksPerCluster,
  MaxPrint,           (* bounds: units of one print, of all prints,          *)
  MaxUnits,           (* and failures of the card or the power               *)
  MaxTroubles

(* A print is shorter than a block.  NoName is no file, and stands apart    *)
(* from what a file can hold where the contents of an absent one are asked. *)
ASSUME GeometryAssumption ==
  /\ NoName \notin Files \cup Seq(Nat) /\ LastCluster \in Nat \ {0, 1}
  /\ {PerFat, PerBlock, BlocksPerCluster} \subseteq Nat \ {0}
  /\ {MaxPrint, MaxUnits, MaxTroubles} \subseteq Nat /\ MaxPrint < PerBlock

Clusters == 2 .. LastCluster
Free == 0             (* FAT entries that are no cluster                     *)
EOC  == 1

FatIndex(c) == c \div PerFat
Fat(c)      == <<"fat", FatIndex(c)>>
Data(c, b)  == <<"data", c, b>>
Dir         == <<"dir">>
BootSector  == <<"boot">>
Mirror(b)   == <<"copy", b[2]>>
FatBlocks   == {Fat(c) : c \in Clusters}
DataBlocks  == {Data(c, b) : c \in Clusters, b \in 0 .. BlocksPerCluster - 1}

PerCluster == PerBlock * BlocksPerCluster
Units      == 0 .. MaxUnits   (* 0: whatever the block held before           *)

Absent   == [there |-> FALSE, size |-> 0, first |-> 0]
EmptyEntry == [Absent EXCEPT !.there = TRUE]
NoHandle == [name |-> NoName, size |-> 0, first |-> 0, cur |-> 0, pos |-> 0,
             dirty |-> FALSE]
NoCall   == [op |-> "none", at |-> "idle", name |-> NoName, out |-> <<>>,
             left |-> 0, c |-> 0, n |-> 0]

VARIABLES
  card,               (* the value of every block                            *)
  cache,              (* cacheBlockNumber_, cacheBuffer_; cacheDirty_, and   *)
                      (* "mirror" between the two writes of a FAT block      *)
  start,              (* allocSearchStart_                                   *)
  file,               (* the open SdFile: fileSize_, firstCluster_,          *)
                      (* curCluster_, curPosition_, F_FILE_DIR_DIRTY         *)
  call,               (* the call under way; at: the access it is about to   *)
                      (* make                                                *)
  printed,            (* units printed so far, which number the units        *)
  ahead,              (* curCluster_ is one ahead of curPosition_            *)
  gone,               (* a file whose clusters are freed before its entry    *)
  broken,             (* the chains no longer fit the entries                *)
  faults, losses

ram  == <<cache, start, file, call>>
past == <<printed, ahead, gone, broken, faults, losses>>
vars == <<card, ram, past>>

Blank(b) ==
  CASE b = Dir -> [f \in Files |-> Absent]
    [] b \in DataBlocks -> [i \in 1 .. PerBlock |-> 0]
    [] OTHER -> [c \in {c \in Clusters : FatIndex(c) = b[2]} |-> Free]

Unused == [block |-> BootSector, value |-> <<>>, state |-> "clean"]

Init ==
  /\ card = [b \in {Dir} \cup FatBlocks \cup DataBlocks
                   \cup {Mirror(b) : b \in FatBlocks} |-> Blank(b)]
  /\ cache = Unused /\ start = 2 /\ file = NoHandle /\ call = NoCall
  /\ printed = 0 /\ ahead = FALSE /\ gone = NoName /\ broken = FALSE
  /\ faults = 0 /\ losses = 0

----------------------------------------------------------------------------
(* The block cache.                                                         *)

Wanted ==
  CASE call.at \in {"lookup", "entry", "clear", "erase"} -> Dir
    [] call.at \in {"seek", "next", "link"} -> Fat(file.cur)
    [] call.at \in {"search", "free"} -> Fat(call.c)
    [] call.at = "data" ->
         Data(file.cur, (file.pos \div PerBlock) % BlocksPerCluster)
    [] OTHER -> cache.block

Flushing == call.at \in {"flush", "cleared"}

(* Variant: also a block that is partly filled is not read first.           *)
FreshAnywhere == call.at = "data" /\ file.pos >= file.size

(* A new block of data replaces the cached one without being read.          *)
Fresh ==
  /\ call.at = "data"
  /\ file.pos % PerBlock = 0 /\ file.pos >= file.size

MustFlush ==
  /\ cache.state # "clean"
  /\ Flushing \/ Fresh \/ Wanted # cache.block

MustRead == ~Flushing /\ ~Fresh /\ Wanted # cache.block

Ready(at) == call.at = at /\ ~MustFlush

Value == IF Wanted = cache.block THEN cache.value ELSE card[Wanted]

Read ==
  cache' = IF Wanted = cache.block THEN cache
           ELSE [block |-> Wanted, value |-> Value, state |-> "clean"]

Put(v) == cache' = [block |-> Wanted, value |-> v, state |-> "dirty"]

Go(at) == call' = [call EXCEPT !.at = at]

FlushBlock ==
  /\ MustFlush /\ cache.state = "dirty"
  /\ card' = [card EXCEPT ![cache.block] = cache.value]
  /\ cache' = [cache EXCEPT !.state = IF cache.block \in FatBlocks
                                      THEN "mirror" ELSE "clean"]
  /\ gone' = IF cache.block = Dir THEN NoName ELSE gone
  /\ UNCHANGED <<start, file, call, printed, ahead, broken, faults, losses>>

FlushMirror ==
  /\ cache.state = "mirror"
  /\ card' = [card EXCEPT ![Mirror(cache.block)] = cache.value]
  /\ cache' = [cache EXCEPT !.state = "clean"]
  /\ UNCHANGED <<start, file, call, past>>

----------------------------------------------------------------------------
(* Open: find the entry or make one, then seek to the end.                  *)

Wrap(c) == IF c > LastCluster THEN 2 ELSE c

(* The steps seekSet(size) makes along the chain of f, from the start       *)
(* unless the position is behind none of them.                              *)
NewIndex(f) == (f.size - 1) \div PerCluster
OldIndex(f) == (f.pos - 1) \div PerCluster
FromFirst(f) == f.pos = 0 \/ NewIndex(f) < OldIndex(f)

Seek(f) ==
  /\ file' = IF FromFirst(f) THEN [f EXCEPT !.cur = f.first] ELSE f
  /\ call' = [call EXCEPT !.at = "seek",
                !.n = IF FromFirst(f) THEN NewIndex(f)
                      ELSE NewIndex(f) - OldIndex(f)]

Handle(name, entry) ==
  [NoHandle EXCEPT !.name = name, !.size = entry.size, !.first = entry.first]

Open(f) ==
  /\ call = NoCall /\ file = NoHandle /\ ~broken
  /\ call' = [NoCall EXCEPT !.op = "open", !.at = "lookup", !.name = f]
  /\ UNCHANGED <<card, cache, start, file, past>>

LookupToOpen ==
  /\ Ready("lookup") /\ call.op = "open"
  /\ LET entry == Value[call.name] IN
     IF entry.there
     THEN /\ Read
          /\ IF entry.size = 0
             THEN file' = Handle(call.name, entry) /\ call' = NoCall
             ELSE Seek(Handle(call.name, entry))
     ELSE /\ Put([Value EXCEPT ![call.name] = EmptyEntry])
          /\ Go("flush") /\ UNCHANGED file
  /\ UNCHANGED <<card, start, past>>

----------------------------------------------------------------------------
(* Print: write() appends block by block.                                   *)

(* Where the next unit goes: into the block at hand, into the next cluster  *)
(* of the chain, or into a cluster to be found.  A cluster it moves to is   *)
(* ahead of the position until a unit is stored there.                      *)
WriteOn(f) ==
  \/ /\ f.pos % PerCluster # 0
     /\ file' = f /\ Go("data") /\ ahead' = ahead
  \/ /\ f.pos % PerCluster = 0 /\ f.cur # 0
     /\ file' = f /\ Go("next") /\ ahead' = ahead
  \/ /\ f.pos % PerCluster = 0 /\ f.cur = 0 /\ f.first # 0
     /\ file' = [f EXCEPT !.cur = f.first] /\ Go("data") /\ ahead' = TRUE
  \/ /\ f.pos % PerCluster = 0 /\ f.cur = 0 /\ f.first = 0
     /\ file' = f /\ ahead' = ahead
     /\ call' = [call EXCEPT !.at = "search", !.c = Wrap(start), !.n = 0]

Write(k) ==
  /\ call = NoCall /\ file # NoHandle /\ ~broken
  /\ printed + k <= MaxUnits
  /\ call' = [NoCall EXCEPT !.op = "print", !.at = "begin", !.left = k,
                !.out = [i \in 1 .. k |-> printed + i]]
  /\ printed' = printed + k
  /\ broken' = ahead
  /\ UNCHANGED <<card, cache, start, file, ahead, gone, faults, losses>>

(* write() comes back to the end of the file if an earlier call left it.    *)
Begin ==
  /\ call.at = "begin"
  /\ IF file.pos # file.size /\ file.size # 0 THEN Seek(file) /\ ahead' = ahead
     ELSE WriteOn([file EXCEPT !.pos = file.size,
                     !.cur = IF file.pos # file.size THEN 0 ELSE @])
  /\ UNCHANGED <<card, cache, start, printed, gone, broken, faults, losses>>

SeekStep ==
  /\ Ready("seek") /\ call.n > 0
  /\ Read
  /\ file' = [file EXCEPT !.cur = Value[@]]
  /\ call' = [call EXCEPT !.n = @ - 1]
  /\ UNCHANGED <<card, start, past>>

SeekEnd ==
  /\ call.at = "seek" /\ call.n = 0
  /\ LET f == [file EXCEPT !.pos = file.size] IN
     IF call.op = "open" THEN file' = f /\ call' = NoCall /\ ahead' = ahead
     ELSE WriteOn(f)
  /\ UNCHANGED <<card, cache, start, printed, gone, broken, faults, losses>>

NextCluster ==
  /\ Ready("next")
  /\ Read
  /\ IF Value[file.cur] = EOC
     THEN /\ call' = [call EXCEPT !.at = "search", !.c = Wrap(file.cur + 1),
                        !.n = 0]
          /\ UNCHANGED <<file, ahead>>
     ELSE file' = [file EXCEPT !.cur = Value[@]] /\ Go("data") /\ ahead' = TRUE
  /\ UNCHANGED <<card, start, printed, gone, broken, faults, losses>>

(* Variant: the search does not count the clusters it has seen.             *)
SearchForever ==
  /\ Ready("search") /\ call.n < Cardinality(Clusters)
  /\ Value[call.c] # Free
  /\ Read
  /\ call' = [call EXCEPT !.c = Wrap(@ + 1)]
  /\ UNCHANGED <<card, start, file, past>>

SearchOn ==
  /\ Ready("search") /\ call.n < Cardinality(Clusters)
  /\ Value[call.c] # Free
  /\ Read
  /\ call' = [call EXCEPT !.c = Wrap(@ + 1), !.n = @ + 1]
  /\ UNCHANGED <<card, start, file, past>>

CardFull ==
  /\ call.at = "search" /\ call.n = Cardinality(Clusters)
  /\ call' = NoCall
  /\ UNCHANGED <<card, cache, start, file, past>>

(* Variant: the next search starts one cluster too far.                     *)
TakeClusterSkip ==
  /\ Ready("search") /\ call.n < Cardinality(Clusters)
  /\ Value[call.c] = Free
  /\ Put([Value EXCEPT ![call.c] = EOC])
  /\ IF file.cur = 0
     THEN /\ file' = [file EXCEPT !.cur = call.c, !.first = call.c,
                        !.dirty = TRUE]
          /\ start' = call.c + 2 /\ ahead' = TRUE
          /\ Go("data")
     ELSE Go("link") /\ UNCHANGED <<file, start, ahead>>
  /\ UNCHANGED <<card, printed, gone, broken, faults, losses>>

(* The cluster is marked as the end of a chain; the first of a file goes    *)
(* to the entry later, any other is linked to the last one.                 *)
TakeCluster ==
  /\ Ready("search") /\ call.n < Cardinality(Clusters)
  /\ Value[call.c] = Free
  /\ Put([Value EXCEPT ![call.c] = EOC])
  /\ IF file.cur = 0
     THEN /\ file' = [file EXCEPT !.cur = call.c, !.first = call.c,
                        !.dirty = TRUE]
          /\ start' = call.c + 1 /\ ahead' = TRUE
          /\ Go("data")
     ELSE Go("link") /\ UNCHANGED <<file, start, ahead>>
  /\ UNCHANGED <<card, printed, gone, broken, faults, losses>>

Link ==
  /\ Ready("link")
  /\ Put([Value EXCEPT ![file.cur] = call.c])
  /\ file' = [file EXCEPT !.cur = call.c]
  /\ ahead' = TRUE
  /\ Go("data")
  /\ UNCHANGED <<card, start, printed, gone, broken, faults, losses>>

Store ==
  /\ Ready("data")
  /\ LET from == file.pos % PerBlock
         n == Min({PerBlock - from, call.left})
         done == Len(call.out) - call.left
         f == [file EXCEPT !.pos = @ + n]
     IN /\ Put([i \in 1 .. PerBlock |->
                  IF i - from \in 1 .. n THEN call.out[done + i - from]
                  ELSE IF Fresh THEN 0 ELSE Value[i]])
        /\ IF n < call.left
           THEN \E next \in {"data", "next"} :
                  /\ next = IF f.pos % PerCluster = 0 THEN "next" ELSE "data"
                  /\ file' = f
                  /\ call' = [call EXCEPT !.at = next, !.left = @ - n]
           ELSE /\ file' = [f EXCEPT !.size = f.pos, !.dirty = TRUE]
                /\ call' = NoCall
  /\ ahead' = FALSE
  /\ UNCHANGED <<card, start, printed, gone, broken, faults, losses>>

----------------------------------------------------------------------------
(* Close: sync() writes the entry through the cache, then all that is left  *)
(* in it; File::close() frees the handle whatever came of it.               *)

Close ==
  /\ call = NoCall /\ file # NoHandle /\ ~broken
  /\ call' = [NoCall EXCEPT !.op = "close",
                !.at = IF file.dirty THEN "entry" ELSE "flush"]
  /\ UNCHANGED <<card, cache, start, file, past>>

(* Variant: close() leaves the entry in the cache.                          *)
PutEntryOnly ==
  /\ Ready("entry")
  /\ Put([Value EXCEPT ![file.name].size = file.size,
                       ![file.name].first = file.first])
  /\ file' = NoHandle /\ call' = NoCall
  /\ UNCHANGED <<card, start, past>>

PutEntry ==
  /\ Ready("entry")
  /\ Put([Value EXCEPT ![file.name].size = file.size,
                       ![file.name].first = file.first])
  /\ file' = [file EXCEPT !.dirty = FALSE]
  /\ Go("flush")
  /\ UNCHANGED <<card, start, past>>

Flushed ==
  /\ Ready("flush")
  /\ file' = IF call.op = "open" THEN Handle(call.name, EmptyEntry)
             ELSE NoHandle
  /\ call' = NoCall /\ ahead' = FALSE
  /\ UNCHANGED <<card, cache, start, printed, gone, broken, faults, losses>>

----------------------------------------------------------------------------
(* Remove: free the chain, clear the entry, then give the entry up.         *)

Remove(f) ==
  /\ call = NoCall /\ file = NoHandle /\ ~broken
  /\ call' = [NoCall EXCEPT !.op = "remove", !.at = "lookup", !.name = f]
  /\ UNCHANGED <<card, cache, start, file, past>>

LookupToRemove ==
  /\ Ready("lookup") /\ call.op = "remove"
  /\ Read
  /\ LET entry == Value[call.name] IN
     \/ ~entry.there /\ call' = NoCall /\ UNCHANGED start
     \/ entry.there /\ entry.size = 0 /\ Go("erase") /\ UNCHANGED start
     \/ /\ entry.there /\ entry.size # 0
        /\ call' = [call EXCEPT !.at = "free", !.c = entry.first]
        /\ start' = 2
  /\ UNCHANGED <<card, file, past>>

(* Variant: only the first cluster of the chain is freed.                   *)
FreeFirst ==
  /\ Ready("free")
  /\ Put([Value EXCEPT ![call.c] = Free])
  /\ Go("clear")
  /\ gone' = call.name
  /\ UNCHANGED <<card, start, file, printed, ahead, broken, faults, losses>>

FreeCluster ==
  /\ Ready("free")
  /\ Put([Value EXCEPT ![call.c] = Free])
  /\ IF Value[call.c] = EOC THEN Go("clear")
     ELSE call' = [call EXCEPT !.c = Value[@]]
  /\ gone' = call.name
  /\ UNCHANGED <<card, start, file, printed, ahead, broken, faults, losses>>

(* Variant: the entry keeps its first cluster.                              *)
ClearSizeOnly ==
  /\ Ready("clear")
  /\ Put([Value EXCEPT ![call.name].size = 0])
  /\ Go("cleared")
  /\ UNCHANGED <<card, start, file, past>>

ClearEntry ==
  /\ Ready("clear")
  /\ Put([Value EXCEPT ![call.name] = EmptyEntry])
  /\ Go("cleared")
  /\ UNCHANGED <<card, start, file, past>>

Cleared ==
  /\ Ready("cleared") /\ Go("erase")
  /\ UNCHANGED <<card, cache, start, file, past>>

EraseEntry ==
  /\ Ready("erase")
  /\ Put([Value EXCEPT ![call.name] = Absent])
  /\ Go("flush")
  /\ UNCHANGED <<card, start, file, past>>

----------------------------------------------------------------------------
(* An access that fails ends the call.  What close() and remove() have done *)
(* to the handle stays done, as does the seek of an open(); a remove cut    *)
(* short leaves an entry that points at freed clusters.                     *)
CardFails ==
  /\ MustFlush \/ MustRead
  /\ faults + losses < MaxTroubles
  /\ faults' = faults + 1
  /\ cache' = [cache EXCEPT !.state = IF @ = "mirror" THEN "dirty" ELSE @]
  /\ file' = IF call.op = "close" THEN NoHandle ELSE file
  /\ ahead' = (ahead /\ call.op # "close")
  /\ call' = NoCall
  /\ broken' = (broken \/ (gone # NoName /\ call.at \in {"free", "clear"}))
  /\ UNCHANGED <<card, start, printed, gone, losses>>

PowerFails ==
  /\ faults + losses < MaxTroubles
  /\ losses' = losses + 1
  /\ cache' = Unused /\ start' = 2 /\ file' = NoHandle /\ call' = NoCall
  /\ ahead' = FALSE
  /\ broken' = (broken \/ gone # NoName)
  /\ UNCHANGED <<card, printed, gone, faults>>

Step ==
  \/ FlushBlock \/ FlushMirror
  \/ LookupToOpen \/ Begin \/ SeekStep \/ SeekEnd
  \/ NextCluster \/ SearchOn \/ CardFull \/ TakeCluster \/ Link \/ Store
  \/ PutEntry \/ Flushed
  \/ LookupToRemove \/ FreeCluster \/ ClearEntry \/ Cleared \/ EraseEntry

Next ==
  \/ Step
  \/ \E f \in Files : Open(f) \/ Remove(f)
  \/ \E k \in 1 .. MaxPrint : Write(k)
  \/ Close
  \/ CardFails \/ PowerFails

(* A call runs on for as long as there is power.                            *)
Spec == Init /\ [][Next]_vars /\ WF_vars(Step)

----------------------------------------------------------------------------
(* What the files hold: through the handle and the cache, and on the card.  *)

Seen == IF cache.block = BootSector THEN card
        ELSE [card EXCEPT ![cache.block] = cache.value]

FatEntry(store, c) == store[Fat(c)][c]

(* The n-th cluster of the chain that starts at c; not a cluster behind     *)
(* its end.                                                                 *)
Chain(store, c) ==
  LET nth[n \in 0 .. Cardinality(Clusters)] ==
        IF n = 0 THEN c
        ELSE IF nth[n - 1] \in Clusters THEN FatEntry(store, nth[n - 1])
        ELSE EOC
  IN nth

Contents(store, entry) ==
  LET nth == Chain(store, entry.first)
      Unit(i) == LET c == nth[i \div PerCluster] IN
                 IF c \in Clusters
                 THEN store[Data(c, (i % PerCluster) \div PerBlock)]
                           [(i % PerBlock) + 1]
                 ELSE 0
  IN IF ~entry.there THEN NoName
     ELSE [i \in 1 .. entry.size |-> Unit(i - 1)]

View(f) ==
  IF gone = f /\ Seen[Dir][f].there THEN <<>>
  ELSE Contents(Seen,
         IF file.name = f
         THEN [there |-> TRUE, size |-> file.size, first |-> file.first]
         ELSE Seen[Dir][f])

CardView(f) == IF gone = f THEN <<>> ELSE Contents(card, card[Dir][f])

----------------------------------------------------------------------------
(* Properties.                                                              *)

(* Every variable keeps its type; allocSearchStart_ may point one behind    *)
(* the last cluster, where allocContiguous() wraps.                         *)
TypeOK ==
  /\ DOMAIN card = {Dir} \cup FatBlocks \cup DataBlocks
                    \cup {Mirror(b) : b \in FatBlocks}
  /\ cache.block \in DOMAIN card \cup {BootSector}
  /\ cache.state \in {"clean", "dirty", "mirror"}
  /\ start \in 2 .. LastCluster + 1
  /\ file.name \in Files \cup {NoName}
  /\ file.size \in Units /\ file.pos \in Units
  /\ {file.first, file.cur} \subseteq {Free} \cup Clusters
  /\ file.dirty \in BOOLEAN
  /\ call.name \in Files \cup {NoName} /\ call.left \in 0 .. Len(call.out)
  /\ printed \in Units /\ gone \in Files \cup {NoName}
  /\ {ahead, broken} \subseteq BOOLEAN
  /\ faults + losses \in 0 .. MaxTroubles

(* For the sketches the library is CardFile: prints come back in order and  *)
(* whole, a loss of power costs what was printed since the last close() and *)
(* nothing of another file.                                                 *)
Abstract ==
  INSTANCE CardFile
    WITH NoFile <- NoName,
         volatile <- [f \in Files |-> View(f)],
         durable <- [f \in Files |-> CardView(f)],
         out <- call.out, trouble <- faults + losses, sound <- ~broken

KeepsFiles == Abstract!Spec

(* SdFile.cpp: "For success write() returns the number of bytes written";   *)
(* so what the program reads of the file is then longer by that print.      *)
PrintedIsThere ==
  [][\A f \in Files :
       call.op = "print" /\ file.name = f /\ file'.size > file.size
         => View(f)' = View(f) \o call.out]_vars

(* close() has written everything: between calls with no file open, the     *)
(* card holds what the program sees, unless an access failed.               *)
ClosedIsSaved ==
  call = NoCall /\ file = NoHandle /\ faults = 0 /\ ~broken
    => \A f \in Files : View(f) = CardView(f)

(* On the card, whenever the power goes, the chains of the files have no    *)
(* cluster in common and none that is free, and they are as long as the     *)
(* entries say: until a remove() is cut short, or a print is made on a      *)
(* handle that a failed one has left ahead.                                 *)
Reach(store, c) ==
  {Chain(store, c)[n] : n \in 0 .. Cardinality(Clusters)}

ChainsApart ==
  ~broken /\ gone = NoName =>
    /\ \A f \in Files :
         LET e == card[Dir][f] IN
         /\ e.first # 0 => Free \notin Reach(card, e.first)
         /\ e.size <= PerCluster
                       * Cardinality(Reach(card, e.first) \cap Clusters)
    /\ \A f, g \in Files :
         f # g => Reach(card, card[Dir][f].first)
                    \cap Reach(card, card[Dir][g].first) \cap Clusters = {}

(* Space is only lost to trouble: each failure leaves at most two chains    *)
(* that belong to no file.                                                  *)
LostChains ==
  LET taken == {c \in Clusters : FatEntry(Seen, c) # Free}
      owned == UNION {Reach(Seen, Seen[Dir][f].first) : f \in Files}
      heads == {c \in taken \ owned : \A d \in taken : FatEntry(Seen, d) # c}
  IN call = NoCall /\ file = NoHandle /\ ~broken
       => Cardinality(heads) <= 2 * (faults + losses)

(* Every call returns, also on a full card, or the power fails.             *)
CallsReturn == (call # NoCall) ~> (call = NoCall)
=============================================================================
