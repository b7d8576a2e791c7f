--------------------------- MODULE SaveGameProofs ---------------------------
(***************************************************************************)
(* The save files for any number of files and stages of progress, any      *)
(* contents and names, whatever they weigh, and any media.                 *)
(***************************************************************************)
EXTENDS SaveGame, SequenceTheorems, WellFoundedInduction, TLAPS

\* What may be read from a file.
Sound == {save \in Settings : \E later \in Saves : PassesFor(save, later)}

Good(file)  == \E save \in Sound : file = FileOf(save)
Clean(file) == file = ErasedFile

\* A file over which save may be written.
Below(file, save) ==
    \/ Clean(file)
    \/ \E old \in Sound : file = FileOf(old) /\ Leads(old, save)

\* The first k blocks are new.
Mixed(old, new, k) == IF k = 0 THEN old ELSE CutShort(old, new, k)

\* The first k blocks are erased.
Wiped(file, k) ==
    /\ k > 0 => file.sum = 65535
    /\ \A b \in 1 .. k : file.data.block[b] = Erased
    /\ k = Size => file.data.name = Erased

Sane(file) == file \in File /\ Read(file) \subseteq Sound
SaneImage(i) == i \in Images /\ \A f \in Files : Sane(i.file[f])
-----------------------------------------------------------------------------
ConfigOps == {"readConfig", "writeConfig"}
FileOps   == {"readAll", "read", "write", "erase", "clean"}
Ops       == [op : ConfigOps, file : {0}] \cup [op : FileOps, file : Files]

\* Files are read one after the other; anything else done to a file comes first
\* and once.
Queued(q) ==
    /\ q \in Seq(Ops)
    /\ \A i, j \in 1 .. Len(q) : i < j /\ q[j].op \in FileOps =>
          /\ q[j].op = "readAll" /\ q[i].op \in {"readAll", "clean"}
          /\ q[i].file # q[j].file

Quiet        == flags \subseteq {WriteConfig}
AsksAll      == flags \ {WriteConfig} = {ReadAll}
AsksRead(f)  == f \in Files /\ flags = {ReadFile} \cup Bits(f, 8)
AsksWrite(f) == f \in Files /\ flags \ {WriteConfig} = {WriteSave} \cup Bits(f, 10)
AsksErase(f) == f \in Files /\ flags = {EraseSave} \cup Bits(f, 10)

AsksBoot == AsksRead(1)
AsksGame == AsksRead(saveFile)
AsksCopy == \E f \in started : AsksRead(f)
AsksSave == AsksWrite(saveFile)
AsksWipe == AsksErase(saveFile)

Types ==
    /\ flags \subseteq 0 .. 11 /\ block \in Blocks
    /\ inLogic \in BOOLEAN /\ loaded \in BOOLEAN /\ faulted \in BOOLEAN
    /\ settings \in Settings /\ config \in Configs
    /\ screen \in {"title", "files", "copy", "game"}
    /\ saveFile \in Files \cup {0} /\ started \subseteq Files /\ present \subseteq Media

\* What each screen may ask for, at what time of the frame.
Protocol ==
    /\ ~loaded => screen = "title" /\ todo = <<>> /\ ~inLogic /\ AsksBoot
    /\ inLogic => loaded
    /\ todo # <<>> => inLogic /\ flags = {}
    /\ screen = "title" => Quiet \/ (~inLogic /\ (AsksBoot \/ AsksSave))
    /\ screen = "files" => flags = {} \/ (~inLogic /\ (AsksAll \/ AsksSave \/ AsksWipe))
    /\ screen = "copy"  => flags = {} \/ (~inLogic /\ AsksCopy)
    /\ screen = "game"  => /\ Quiet \/ AsksSave \/ (~inLogic /\ AsksGame)
                           /\ saveFile \in Files

InBlocks ==
    block > 1 => todo # <<>> /\ Head(todo).op \in {"write", "erase", "clean"}

Control == Types /\ Queued(todo) /\ Protocol /\ InBlocks

\* A frame asks for one thing to be done to files at most.
Forms ==
    \/ Quiet \/ AsksAll
    \/ \E f \in Files : AsksRead(f) \/ AsksWrite(f) \/ AsksErase(f)

\* What is still to be done to files, in this frame or the next.
Asked ==
    (IF ReadAll \in flags THEN [op : {"readAll"}, file : Files] ELSE {})
    \cup (IF ReadFile \in flags THEN {Op("read", Number(8))} ELSE {})
    \cup (IF WriteSave \in flags THEN {Op("write", Number(10))} ELSE {})
    \cup (IF EraseSave \in flags THEN {Op("erase", Number(10))} ELSE {})
FileOpsOf(q) == {q[i] : i \in {j \in 1 .. Len(q) : q[j].op \in FileOps}}
Jobs == FileOpsOf(todo) \cup Asked

\* Part of save has been written over what it may be written over.
PartOf(file, save, k) ==
    \E old \in File : Below(old, save) /\ file = Mixed(old, FileOf(save), k)

\* What is written is written over what it may be written over.
JobsDone ==
    \A f \in Files :
       /\ Op("write", f) \in Jobs =>
             /\ f = saveFile /\ settings \in Sound
             /\ PartOf(image.file[f], settings, block - 1)
       /\ Op("erase", f) \in Jobs \/ Op("clean", f) \in Jobs =>
             Wiped(image.file[f], block - 1)

\* The file menu shows what there is.
FilesShown ==
    screen \in {"files", "copy"} =>
       \A f \in Files :
          /\ Op("erase", f) \in Jobs \/ Op("clean", f) \in Jobs => f \notin started
          /\ Op("write", f) \in Jobs => f \in started
          /\ Jobs \cap [op : {"readAll", "erase", "clean", "write"}, file : {f}] = {} =>
                IF f \in started THEN Good(image.file[f]) ELSE Clean(image.file[f])

MenuJobs ==
    /\ screen = "files" => Jobs \subseteq [op : {"readAll", "clean", "erase", "write"}, file : Files]
    /\ screen = "copy" =>
          /\ Jobs \subseteq [op : {"read"}, file : started]
          /\ Jobs = {} => settings \in Sound

\* The game goes on from what is in its file.
GameGoesOn ==
    screen = "game" =>
       /\ Jobs \subseteq [op : {"read", "clean", "write"}, file : {saveFile}]
       /\ Op("read", saveFile) \in Jobs =>
             \/ Good(image.file[saveFile])
             \/ Clean(image.file[saveFile]) /\ settings.name \in Names
       /\ Op("clean", saveFile) \in Jobs =>
             Clean(image.file[saveFile]) /\ settings \in Sound
       /\ Jobs = {} => settings \in Sound /\ Below(image.file[saveFile], settings)

Shown == JobsDone /\ FilesShown /\ MenuJobs /\ GameGoesOn

SaneImages ==
    /\ SaneImage(image) /\ blob \in [Media -> Images \cup {NoBlob}]
    /\ \A m \in Media : blob[m] # NoBlob => SaneImage(blob[m])

\* What a boot would load.
BootImage ==
    IF Stored(present) = {} THEN ZeroImage
    ELSE blob[CHOOSE m \in First(Stored(present)) : TRUE]

BootFinds ==
    /\ outcome \in [Files -> SUBSET SUBSET Data]
    /\ loaded => \A f \in Files : Read(image.file[f]) \in outcome[f]
    /\ ~faulted => /\ Stored(Media) \subseteq present
                   /\ loaded => BootImage = image
                   /\ \A f \in Files : Read(BootImage.file[f]) \in outcome[f]

HasConfig(q) == \E i \in 1 .. Len(q) : q[i].op \in ConfigOps
ConfigAsked  == flags \cap {ReadConfig, WriteConfig} # {} \/ HasConfig(todo)

EffectiveConfig(i) == IF i.config = NoConfig THEN Default ELSE i.config
ConfigKept == config = EffectiveConfig(image) \/ ConfigAsked

SaveInv == Control /\ Shown /\ SaneImages /\ BootFinds /\ ConfigKept
-----------------------------------------------------------------------------
(* Checksums.                                                              *)

LEMMA SizeIs == Size \in 2 .. 5 /\ Blocks = 1 .. Size
BY Zenon, SaveGameAssumption DEF Blocks

\* Nothing weighs more than an erased block, and the progress in the last block
\* weighs less.
LEMMA WeighIs ==
    ASSUME NEW b \in Blocks, NEW c \in Content \cup {Erased}
    PROVE  /\ Weigh(b, c) \in Nat /\ Weigh(b, c) <= Weigh(b, Erased)
           /\ Weigh(b, Erased) \in Nat /\ Weigh(b, Erased) <= 2040
           /\ b = Size /\ c # Erased => Weigh(b, c) < Weigh(b, Erased)
<1>1. Bytes(b) \in {6, 8}
  BY DEF Bytes
<1>2. Weigh(b, Erased) = 255 * Bytes(b)
  BY DEF Weigh
<1>3. CASE c = Erased
  BY <1>1, <1>2, <1>3
<1>4. CASE c # Erased
  <2>1. c \in Content
    BY <1>4
  <2>2. PICK w : w = Weight[b][c]
    OBVIOUS
  <2>3. w \in Nat
    <3>1. Weight \in [Blocks -> [Content -> Nat]]
      BY Zenon, SaveGameAssumption
    <3> QED BY <2>1, <2>2, <3>1
  <2>4. w <= 255 * Bytes(b)
    <3>1. \A d \in Content : \A a \in Blocks : Weight[a][d] <= 255 * Bytes(a)
      BY Zenon, SaveGameAssumption
    <3> QED BY <2>1, <2>2, <3>1
  <2>5. b = Size => w <= 255 * (Bytes(b) - 1)
    <3>1. \A d \in Content : Weight[Size][d] <= 255 * (Bytes(Size) - 1)
      BY Zenon, SaveGameAssumption
    <3> QED BY <2>1, <2>2, <3>1
  <2>6. Weigh(b, c) = w
    BY <1>4, <2>2 DEF Weigh
  <2> QED BY <1>1, <1>2, <2>3, <2>4, <2>5, <2>6
<1> QED BY <1>3, <1>4

LEMMA WeighNameIs ==
    ASSUME NEW n \in Names \cup {Blank, Erased}
    PROVE  /\ WeighName(n) \in Nat /\ WeighName(n) <= WeighName(Erased)
           /\ WeighName(Erased) = 510
<1>1. NameWeight \in [Names \cup {Blank} -> 0 .. 255 * 2]
  BY Zenon, SaveGameAssumption
<1>2. WeighName(Erased) = 510
  BY DEF WeighName
<1>3. n # Erased => NameWeight[n] \in 0 .. 510
  BY <1>1
<1> QED BY <1>2, <1>3 DEF WeighName

\* What block b weighs, nothing if there is no such block.
Heft(data, b) == IF b <= Size THEN Weigh(b, data.block[b]) ELSE 0
Total(data) ==
    Heft(data, 1) + Heft(data, 2) + Heft(data, 3) + Heft(data, 4) + Heft(data, 5)

LEMMA HeftIs ==
    ASSUME NEW data \in Data, NEW b \in 1 .. 5
    PROVE  /\ Heft(data, b) \in Nat /\ Heft(data, b) <= 2040
           /\ b <= Size => Heft(data, b) = Weigh(b, data.block[b])
<1>1. Size \in 2 .. 5 /\ Blocks = 1 .. Size
  BY SizeIs
<1>2. CASE b <= Size
  <2>1. b \in Blocks
    BY <1>1, <1>2
  <2>2. data.block[b] \in Content \cup {Erased}
    BY <2>1 DEF Data
  <2>3. PICK v, w : v = Weigh(b, data.block[b]) /\ w = Weigh(b, Erased)
    OBVIOUS
  <2>4. v \in Nat /\ v <= w /\ w \in Nat /\ w <= 2040
    BY <2>1, <2>2, <2>3, WeighIs
  <2>5. Heft(data, b) = v
    BY <1>2, <2>3 DEF Heft
  <2> QED BY <2>3, <2>4, <2>5
<1>3. CASE ~(b <= Size)
  BY <1>3 DEF Heft
<1> QED BY <1>2, <1>3

\* The recursive function is the sum.
LEMMA ChecksumIsTotal ==
    ASSUME NEW data \in Data
    PROVE  Checksum(data) = 5 + Total(data) + WeighName(data.name)
<1> DEFINE R(g) == [b \in 0 .. Size |->
                      IF b = 0 THEN 0 ELSE g[b - 1] + Weigh(b, data.block[b])]
           w(b) == Heft(data, b)
           s == [b \in 0 .. Size |->
                   IF b = 0 THEN 0
                   ELSE IF b = 1 THEN w(1)
                   ELSE IF b = 2 THEN w(1) + w(2)
                   ELSE IF b = 3 THEN w(1) + w(2) + w(3)
                   ELSE IF b = 4 THEN w(1) + w(2) + w(3) + w(4)
                   ELSE w(1) + w(2) + w(3) + w(4) + w(5)]
           upto == CHOOSE g : g = R(g)
<1>1. Weights(data) = upto
  BY DEF Weights
<1>2. /\ Size \in 2 .. 5
      /\ \A b \in 1 .. Size : w(b) = Weigh(b, data.block[b])
      /\ \A b \in 1 .. 5 : w(b) \in Nat
      /\ \A b \in 1 .. 5 : b > Size => w(b) = 0
  BY SizeIs, HeftIs DEF Heft
<1> HIDE DEF w
<1>3. s = R(s)
  <2> SUFFICES ASSUME NEW b \in 0 .. Size
               PROVE  s[b] = IF b = 0 THEN 0 ELSE s[b - 1] + Weigh(b, data.block[b])
    OBVIOUS
  <2>1. b \in 0 .. 5 /\ (b > 0 => b - 1 \in 0 .. Size /\ w(b) = Weigh(b, data.block[b]))
    BY <1>2
  <2> QED BY <1>2, <2>1
<1>4. upto = R(upto)
  BY <1>3
<1>5. \A b \in 0 .. Size : upto[b] = IF b = 0 THEN 0 ELSE upto[b - 1] + Weigh(b, data.block[b])
  BY <1>4
<1> HIDE DEF upto
<1>6. upto[Size] = w(1) + w(2) + w(3) + w(4) + w(5)
  <2>0. upto[0] = 0 /\ \A b \in 1 .. Size : upto[b] = upto[b - 1] + w(b)
    <3>1. \A b \in 1 .. Size : b \in 0 .. Size /\ b # 0
      OBVIOUS
    <3> QED BY <1>2, <1>5, <3>1
  <2>1. upto[1] = upto[0] + w(1) /\ upto[2] = upto[1] + w(2)
    BY <1>2, <2>0
  <2>2. Size >= 3 => upto[3] = upto[2] + w(3)
    BY <1>2, <2>0
  <2>3. Size >= 4 => upto[4] = upto[3] + w(4)
    BY <1>2, <2>0
  <2>4. Size >= 5 => upto[5] = upto[4] + w(5)
    BY <1>2, <2>0
  <2>5. Size = 2 \/ Size = 3 \/ Size = 4 \/ Size = 5
    BY <1>2
  <2> QED BY <1>2, <2>0, <2>1, <2>2, <2>3, <2>4, <2>5
<1> QED BY <1>1, <1>6 DEF Checksum, Total, w

\* What the blocks and the name add to the checksum.
Sums(data, v, w, x, y, z, n) ==
    /\ v = Heft(data, 1) /\ w = Heft(data, 2) /\ x = Heft(data, 3)
    /\ y = Heft(data, 4) /\ z = Heft(data, 5) /\ n = WeighName(data.name)
    /\ n <= 510 /\ Checksum(data) = 5 + (v + w + x + y + z) + n

LEMMA TotalIs ==
    ASSUME NEW data \in Data
    PROVE  \E v, w, x, y, z, n \in Nat : Sums(data, v, w, x, y, z, n)
<1>1. 1 \in 1 .. 5 /\ 2 \in 1 .. 5 /\ 3 \in 1 .. 5 /\ 4 \in 1 .. 5 /\ 5 \in 1 .. 5
  OBVIOUS
<1>2. /\ Heft(data, 1) \in Nat /\ Heft(data, 2) \in Nat /\ Heft(data, 3) \in Nat
      /\ Heft(data, 4) \in Nat /\ Heft(data, 5) \in Nat
  BY <1>1, HeftIs
<1>3. WeighName(data.name) \in Nat /\ WeighName(data.name) <= 510
  <2>1. data.name \in Names \cup {Blank, Erased}
    BY DEF Data
  <2>2. PICK v, w : v = WeighName(data.name) /\ w = WeighName(Erased)
    OBVIOUS
  <2>3. v \in Nat /\ v <= w /\ w = 510
    BY <2>1, <2>2, WeighNameIs
  <2> QED BY <2>2, <2>3
<1>4. Checksum(data) = 5 + Total(data) + WeighName(data.name)
  BY ChecksumIsTotal
<1> QED BY <1>2, <1>3, <1>4 DEF Total, Sums

\* Sums of five, one of which is less and none more.
LEMMA LessInOne ==
    ASSUME NEW u1 \in Nat, NEW u2 \in Nat, NEW u3 \in Nat, NEW u4 \in Nat, NEW u5 \in Nat,
           NEW v1 \in Nat, NEW v2 \in Nat, NEW v3 \in Nat, NEW v4 \in Nat, NEW v5 \in Nat,
           NEW m \in Nat, NEW n \in Nat,
           u1 <= v1 /\ u2 <= v2 /\ u3 <= v3 /\ u4 <= v4 /\ u5 <= v5 /\ m <= n,
           u1 < v1 \/ u2 < v2 \/ u3 < v3 \/ u4 < v4 \/ u5 < v5
    PROVE  5 + (u1 + u2 + u3 + u4 + u5) + m # 5 + (v1 + v2 + v3 + v4 + v5) + n
OBVIOUS

\* Progress over which the last block is erased weighs more.
LEMMA HeavierErased ==
    ASSUME NEW u \in Settings, NEW v \in Data, v.block[Size] = Erased, v.name = Erased,
           \A b \in Blocks : v.block[b] \in {u.block[b], Erased}
    PROVE  Checksum(u) # Checksum(v)
<1>1. Size \in 2 .. 5 /\ Blocks = 1 .. Size
  BY SizeIs
<1>2. u \in Data
  BY DEF Settings, Data
<1>3. Erased \notin Content
  BY Zenon, SaveGameAssumption
<1>4. ASSUME NEW b \in 1 .. 5
      PROVE  Heft(u, b) <= Heft(v, b) /\ (b = Size => Heft(u, b) < Heft(v, b))
  <2>1. CASE b <= Size
    <3>1. b \in Blocks
      BY <1>1, <2>1
    <3>2. u.block[b] \in Content
      BY <3>1 DEF Settings
    <3>3. PICK x, y : x = Weigh(b, u.block[b]) /\ y = Weigh(b, Erased)
      OBVIOUS
    <3>4. x \in Nat /\ y \in Nat /\ x <= y /\ (b = Size => x < y)
      BY <1>3, <3>1, <3>2, <3>3, WeighIs
    <3>5. Heft(u, b) = x
      BY <2>1, <3>3 DEF Heft
    <3>6. Heft(v, b) = x \/ Heft(v, b) = y
      BY <2>1, <3>1, <3>3 DEF Heft
    <3>7. b = Size => Heft(v, b) = y
      BY <2>1, <3>3 DEF Heft
    <3> QED BY <3>4, <3>5, <3>6, <3>7
  <2>2. CASE ~(b <= Size)
    BY <1>1, <2>2 DEF Heft
  <2> QED BY <2>1, <2>2
<1>5. PICK u1, u2, u3, u4, u5, m \in Nat : Sums(u, u1, u2, u3, u4, u5, m)
  BY <1>2, Zenon, TotalIs
<1>6. PICK v1, v2, v3, v4, v5, n \in Nat : Sums(v, v1, v2, v3, v4, v5, n)
  BY Zenon, TotalIs
<1>7. u1 <= v1 /\ u2 <= v2 /\ u3 <= v3 /\ u4 <= v4 /\ u5 <= v5
  BY <1>4, <1>5, <1>6 DEF Sums
<1>8. u1 < v1 \/ u2 < v2 \/ u3 < v3 \/ u4 < v4 \/ u5 < v5
  <2>1. Size = 1 \/ Size = 2 \/ Size = 3 \/ Size = 4 \/ Size = 5
    BY <1>1
  <2> QED BY <1>4, <1>5, <1>6, <2>1 DEF Sums
<1>9. m <= n
  <2>1. n = 510
    BY <1>6, WeighNameIs DEF Sums
  <2> QED BY <1>5, <2>1 DEF Sums
<1>10. 5 + (u1 + u2 + u3 + u4 + u5) + m # 5 + (v1 + v2 + v3 + v4 + v5) + n
  BY <1>7, <1>8, <1>9, LessInOne
<1> QED BY <1>5, <1>6, <1>10 DEF Sums

\* Nothing that fits the blocks weighs as much as an erased checksum says, nor
\* as little as one of zeros.
LEMMA DataSum ==
    ASSUME NEW data \in Data
    PROVE  Checksum(data) \in Nat /\ Checksum(data) # 0 /\ Checksum(data) # 65535
<1>1. PICK w1, w2, w3, w4, w5, n \in Nat : Sums(data, w1, w2, w3, w4, w5, n)
  BY Zenon, TotalIs
<1>2. w1 <= 2040 /\ w2 <= 2040 /\ w3 <= 2040 /\ w4 <= 2040 /\ w5 <= 2040
  <2>1. \A b \in 1 .. 5 : Heft(data, b) <= 2040
    BY HeftIs
  <2>2. 1 \in 1 .. 5 /\ 2 \in 1 .. 5 /\ 3 \in 1 .. 5 /\ 4 \in 1 .. 5 /\ 5 \in 1 .. 5
    OBVIOUS
  <2> QED BY <1>1, <2>1, <2>2 DEF Sums
<1>3. PICK t : t = 5 + (w1 + w2 + w3 + w4 + w5) + n
  OBVIOUS
<1>4. t \in Nat /\ t # 0 /\ t # 65535
  BY <1>1, <1>2, <1>3 DEF Sums
<1> QED BY <1>1, <1>3, <1>4 DEF Sums

-----------------------------------------------------------------------------
(* What a file may hold.                                                   *)

LEMMA LeadsIs ==
    /\ \A u \in Settings : Leads(u, u)
    /\ \A u, v, w \in Settings : Leads(u, v) /\ Leads(v, w) => Leads(u, w)
<1>1. /\ \A c \in Content : <<c, c>> \in Gains
      /\ \A c, d, e \in Content : <<c, d>> \in Gains /\ <<d, e>> \in Gains => <<c, e>> \in Gains
  BY Zenon, SaveGameAssumption
<1>2. \A u \in Settings : \A b \in Blocks : u.block[b] \in Content
  BY DEF Settings
<1> QED BY <1>1, <1>2 DEF Leads

LEMMA SaveIs == Saves \subseteq Sound /\ Sound \subseteq Settings /\ Settings \subseteq Data
<1>1. Settings \subseteq Data /\ Sound \subseteq Settings
  BY DEF Settings, Data, Sound
<1>2. ASSUME NEW save \in Saves PROVE save \in Sound
  <2>1. Stages \subseteq [Blocks -> Content]
    BY Zenon, SaveGameAssumption
  <2>2. save \in Settings
    BY <2>1 DEF Saves, Settings
  <2>3. Leads(save, save)
    BY <2>2, LeadsIs
  <2> QED BY <2>2, <2>3 DEF Sound, PassesFor
<1> QED BY <1>1, <1>2

LEMMA NewIs == New \in Settings /\ New \in Data /\ New.block \in Stages
<1>1. Blank \in Content /\ [b \in Blocks |-> Blank] \in Stages
  BY Zenon, SaveGameAssumption
<1>2. New \in Settings
  BY <1>1 DEF New, Settings
<1> QED BY <1>1, <1>2, SaveIs DEF New

LEMMA ClearedIs ==
    ASSUME NEW save \in Settings
    PROVE  /\ Cleared(save) \in Settings /\ Cleared(save).name = save.name
           /\ save.name \in Names => Cleared(save) \in Sound
<1>1. Cleared(save) = [block |-> New.block, name |-> save.name]
  BY DEF Cleared, Settings
<1>2. Cleared(save) \in Settings
  BY <1>1, NewIs DEF Settings
<1>3. save.name \in Names => Cleared(save) \in Saves
  BY <1>1, NewIs DEF Saves
<1> QED BY <1>1, <1>2, <1>3, SaveIs

LEMMA FileOfIs ==
    ASSUME NEW data \in Data
    PROVE  /\ FileOf(data) \in File /\ Read(FileOf(data)) = {data}
           /\ FileOf(data).data = data /\ FileOf(data).sum = Checksum(data)
BY DataSum DEF FileOf, File, Read

\* Whatever has the checksum of an erased file is read as a new game.
LEMMA WipedRead ==
    ASSUME NEW file \in File, file.sum = 65535
    PROVE  Read(file) = {}
<1>1. file.data \in Data
  BY DEF File
<1>2. Checksum(file.data) # 65535
  BY <1>1, DataSum
<1> QED BY <1>2 DEF Read

LEMMA ErasedIs ==
    /\ ErasedFile \in File /\ ErasedFile.data \in Data
    /\ ErasedFile.sum = 65535 /\ Read(ErasedFile) = {}
    /\ ErasedFile.data.name = Erased
    /\ \A b \in Blocks : ErasedFile.data.block[b] = Erased
<1>1. /\ ErasedFile.sum = 65535 /\ ErasedFile.data.name = Erased
      /\ \A b \in Blocks : ErasedFile.data.block[b] = Erased
  BY DEF ErasedFile
<1>2. ErasedFile \in File /\ ErasedFile.data \in Data
  BY DEF ErasedFile, File, Data
<1> QED BY <1>1, <1>2, WipedRead

LEMMA ZeroIs == ZeroFile \in File /\ Read(ZeroFile) = {}
<1>1. ZeroFile = [sum |-> 0, data |-> New] /\ 0 \in Nat
  BY DEF ZeroFile
<1>2. Checksum(New) # 0
  BY NewIs, DataSum
<1> QED BY <1>1, <1>2, NewIs DEF File, Read

\* The images without a save.
LEMMA PlainImages == SaneImage(ZeroImage) /\ SaneImage(ErasedImage)
<1>1. Sane(ZeroFile) /\ Sane(ErasedFile)
  BY ZeroIs, ErasedIs DEF Sane
<1>2. ASSUME NEW file, Sane(file)
      PROVE  SaneImage(Everywhere(file, NoConfig))
  BY <1>2 DEF SaneImage, Everywhere, Images, Sane
<1> QED BY <1>1, <1>2 DEF ZeroImage, ErasedImage

-----------------------------------------------------------------------------
(* Files written in part.                                                  *)

LEMMA BelowIs ==
    ASSUME NEW old, NEW new, Below(old, new)
    PROVE  /\ old \in File
           /\ \/ Clean(old) /\ Read(old) = {}
              \/ /\ old.data \in Sound /\ Leads(old.data, new)
                 /\ Read(old) = {old.data}
<1>1. CASE Clean(old)
  BY <1>1, ErasedIs DEF Clean
<1>2. CASE \E w \in Sound : old = FileOf(w) /\ Leads(w, new)
  <2>1. PICK w \in Sound : old = FileOf(w) /\ Leads(w, new)
    BY <1>2
  <2>2. w \in Data
    BY SaveIs
  <2>3. /\ old \in File /\ old.data = w /\ Read(old) = {w}
    BY <2>1, <2>2, FileOfIs
  <2> QED BY <2>1, <2>2, <2>3
<1> QED BY <1>1, <1>2 DEF Below

\* A file is its checksum, its blocks and its name.
LEMMA FileIs ==
    ASSUME NEW file \in File
    PROVE  /\ file = [sum |-> file.sum,
                      data |-> [block |-> file.data.block, name |-> file.data.name]]
           /\ file.sum \in Nat /\ file.data \in Data
           /\ file.data.block \in [Blocks -> Content \cup {Erased}]
           /\ file.data.name \in Names \cup {Blank, Erased}
<1>1. file.data \in Data /\ file = [sum |-> file.sum, data |-> file.data] /\ file.sum \in Nat
  BY DEF File
<1>2. file.data = [block |-> file.data.block, name |-> file.data.name]
  BY <1>1 DEF Data
<1> QED BY <1>1, <1>2 DEF Data

IsCut(file, old, new, k) ==
    /\ file \in File /\ file.sum = new.sum
    /\ file.data.name = IF k = Size THEN new.data.name ELSE old.data.name
    /\ \A b \in Blocks :
          file.data.block[b] = IF b <= k THEN new.data.block[b] ELSE old.data.block[b]

IsWith(file, old, new, k) ==
    /\ file \in File /\ file.sum = IF k = 1 THEN new.sum ELSE old.sum
    /\ file.data.name = IF k = Size THEN new.data.name ELSE old.data.name
    /\ \A b \in Blocks :
          file.data.block[b] = IF b = k THEN new.data.block[b] ELSE old.data.block[b]

LEMMA CutShortIs ==
    ASSUME NEW old \in File, NEW new \in File, NEW k \in Blocks
    PROVE  IsCut(CutShort(old, new, k), old, new, k)
BY FileIs DEF CutShort, File, Data, IsCut

LEMMA WithBlockIs ==
    ASSUME NEW old \in File, NEW new \in File, NEW k \in Blocks
    PROVE  IsWith(WithBlock(old, new, k), old, new, k)
BY FileIs DEF WithBlock, File, Data, IsWith

\* Files with the same checksum, blocks and name are the same.
LEMMA SameFile ==
    ASSUME NEW u \in File, NEW v \in File, u.sum = v.sum, u.data.name = v.data.name,
           \A b \in Blocks : u.data.block[b] = v.data.block[b]
    PROVE  u = v
<1>1. u.data.block = v.data.block
  BY FileIs
<1> QED BY <1>1, FileIs

\* Writing the next block.
LEMMA CutIsWith ==
    ASSUME NEW file \in File, NEW new \in File, NEW k \in Blocks,
           k > 1 => file.sum = new.sum,
           \A b \in 1 .. k - 1 : file.data.block[b] = new.data.block[b]
    PROVE  CutShort(file, new, k) = WithBlock(file, new, k)
<1> DEFINE u == CutShort(file, new, k)
           v == WithBlock(file, new, k)
<1>1. IsCut(u, file, new, k) /\ IsWith(v, file, new, k)
  BY CutShortIs, WithBlockIs
<1> HIDE DEF u, v
<1>3. Blocks = 1 .. Size /\ Size \in 2 .. 5
  BY SizeIs
<1>2. u \in File /\ v \in File /\ u.data.name = v.data.name
  BY <1>1 DEF IsCut, IsWith
<1>4. u.sum = v.sum
  BY <1>1, <1>3 DEF IsCut, IsWith
<1>5. ASSUME NEW b \in Blocks PROVE u.data.block[b] = v.data.block[b]
  <2>1. b <= k /\ b # k => b \in 1 .. k - 1
    BY <1>3
  <2>2. b = k => b <= k
    BY <1>3
  <2> QED BY <1>1, <2>1, <2>2 DEF IsCut, IsWith
<1>6. u = v
  BY <1>2, <1>4, <1>5, SameFile
<1> QED BY <1>6 DEF u, v

LEMMA MixedIs ==
    ASSUME NEW old \in File, NEW new \in File, NEW k \in 0 .. Size
    PROVE  /\ Mixed(old, new, k) \in File
           /\ Mixed(old, new, 0) = old
           /\ Mixed(old, new, Size) = new
           /\ k > 0 => Mixed(old, new, k).sum = new.sum
           /\ \A b \in Blocks : Mixed(old, new, k).data.block[b] =
                 IF b <= k THEN new.data.block[b] ELSE old.data.block[b]
           /\ k < Size => /\ WithBlock(Mixed(old, new, k), new, k + 1) = Mixed(old, new, k + 1)
                          /\ CutShort(Mixed(old, new, k), new, k + 1) = Mixed(old, new, k + 1)
<1>1. Size \in 2 .. 5 /\ Blocks = 1 .. Size
  BY SizeIs
<1>2. Mixed(old, new, 0) = old
  BY DEF Mixed
<1>3. ASSUME NEW j \in Blocks
      PROVE  /\ Mixed(old, new, j) = CutShort(old, new, j)
             /\ IsCut(Mixed(old, new, j), old, new, j)
  <2>1. j # 0
    BY <1>1
  <2>2. Mixed(old, new, j) = CutShort(old, new, j)
    BY <2>1 DEF Mixed
  <2> QED BY <2>2, CutShortIs
<1>4. Mixed(old, new, Size) = new
  <2>1. Size \in Blocks /\ \A b \in Blocks : b <= Size
    BY <1>1
  <2>2. PICK m : m = Mixed(old, new, Size)
    OBVIOUS
  <2>3. IsCut(m, old, new, Size)
    BY <1>3, <2>1, <2>2
  <2>4. m = new
    BY <2>1, <2>3, SameFile DEF IsCut
  <2> QED BY <2>2, <2>4
<1>5. CASE k = 0
  <2>1. Mixed(old, new, k) = old /\ \A b \in Blocks : ~(b <= k)
    BY <1>1, <1>2, <1>5
  <2>2. 1 \in Blocks /\ ~(1 > 1) /\ 1 .. 1 - 1 = {}
    BY <1>1
  <2>3. CutShort(old, new, 1) = WithBlock(old, new, 1)
    BY <2>2, CutIsWith
  <2>4. Mixed(old, new, 1) = CutShort(old, new, 1) /\ k + 1 = 1 /\ ~(k > 0)
    BY <1>3, <1>5, <2>2
  <2> QED BY <1>2, <1>4, <2>1, <2>3, <2>4
<1>6. CASE k # 0
  <2>1. k \in Blocks /\ k > 0
    BY <1>1, <1>6
  <2>2. PICK m : m = Mixed(old, new, k)
    OBVIOUS
  <2>3. IsCut(m, old, new, k)
    BY <1>3, <2>1, <2>2
  <2>4. ASSUME k < Size
        PROVE  /\ WithBlock(m, new, k + 1) = Mixed(old, new, k + 1)
               /\ CutShort(m, new, k + 1) = Mixed(old, new, k + 1)
    <3>1. k + 1 \in Blocks /\ \A b \in 1 .. k + 1 - 1 : b \in Blocks /\ b <= k
      BY <1>1, <2>1, <2>4
    <3>2. /\ m \in File /\ m.sum = new.sum
          /\ \A b \in 1 .. k + 1 - 1 : m.data.block[b] = new.data.block[b]
      BY <2>3, <3>1 DEF IsCut
    <3>3. CutShort(m, new, k + 1) = WithBlock(m, new, k + 1)
      BY <3>1, <3>2, CutIsWith
    <3>4. PICK j \in Blocks : j = k + 1
      BY <3>1
    <3>5. PICK n, c : n = Mixed(old, new, j) /\ c = CutShort(m, new, j)
      OBVIOUS
    <3>6. IsCut(n, old, new, j) /\ IsCut(c, m, new, j)
      BY <1>3, <3>2, <3>5, CutShortIs
    <3>7. n \in File /\ c \in File /\ c.sum = n.sum /\ c.data.name = n.data.name
      BY <2>3, <2>4, <3>6 DEF IsCut
    <3>8. \A b \in Blocks : b <= k => b <= j
      BY <1>1, <2>1, <3>4
    <3>9. ASSUME NEW b \in Blocks PROVE c.data.block[b] = n.data.block[b]
      BY <2>3, <3>6, <3>8 DEF IsCut
    <3>10. c = n
      BY <3>7, <3>9, SameFile
    <3> QED BY <3>3, <3>4, <3>5, <3>10
  <2> QED BY <1>2, <1>4, <2>1, <2>2, <2>3, <2>4 DEF IsCut
<1> QED BY <1>5, <1>6

\* A file over which part of a save has been written is read as something sound
\* or not at all.
LEMMA MixedRead ==
    ASSUME NEW new \in Sound, NEW old, Below(old, new), NEW k \in 0 .. Size
    PROVE  LET mixed == Mixed(old, FileOf(new), k)
           IN  mixed \in File /\ Read(mixed) \subseteq Sound
<1> DEFINE file == FileOf(new)
           mixed == Mixed(old, file, k)
<1>0. Size \in 2 .. 5 /\ Blocks = 1 .. Size
  BY SizeIs
<1>1. /\ new \in Settings /\ new \in Data /\ file \in File
      /\ file.data = new /\ file.sum = Checksum(new)
  BY SaveIs, FileOfIs
<1>2. /\ old \in File
      /\ \/ Clean(old) /\ Read(old) = {}
         \/ old.data \in Sound /\ Leads(old.data, new) /\ Read(old) = {old.data}
  BY BelowIs
<1> HIDE DEF file
<1>3. mixed \in File
  BY <1>1, <1>2, MixedIs
<1>4. CASE k = 0
  <2>1. mixed = old
    BY <1>4 DEF Mixed
  <2> QED BY <1>2, <1>3, <2>1 DEF file
<1>5. CASE k = Size
  <2>1. mixed = file
    BY <1>1, <1>2, <1>5, MixedIs
  <2>2. Read(mixed) = {new}
    BY <1>1, <2>1, FileOfIs DEF file
  <2> QED BY <1>3, <2>2 DEF file
<1>6. CASE k # 0 /\ k # Size
  <2>0. k \in Blocks /\ mixed = CutShort(old, file, k)
    BY <1>0, <1>6 DEF Mixed
  <2>1. /\ mixed.sum = Checksum(new) /\ mixed.data.name = old.data.name
        /\ \A b \in Blocks : mixed.data.block[b] =
              IF b <= k THEN new.block[b] ELSE old.data.block[b]
    <3>1. IsCut(mixed, old, file, k)
      BY <1>1, <1>2, <2>0, CutShortIs
    <3> QED BY <1>1, <1>6, <3>1 DEF IsCut
  <2>2. mixed.data \in Data
    BY <1>3 DEF File
  <2> HIDE DEF mixed
  <2>3. CASE Clean(old)
    <3>1. /\ old.data.name = Erased
          /\ \A b \in Blocks : old.data.block[b] = Erased
      BY <2>3, ErasedIs DEF Clean
    <3>2. \A b \in Blocks : mixed.data.block[b] \in {new.block[b], Erased}
      BY <2>1, <3>1
    <3>3. mixed.data.name = Erased
      BY <2>1, <3>1
    <3>4. Size \in Blocks /\ ~(Size <= k)
      BY <1>0, <1>6
    <3>5. mixed.data.block[Size] = Erased
      BY <2>1, <3>1, <3>4
    <3>6. Checksum(new) # Checksum(mixed.data)
      BY <1>1, <2>2, <3>2, <3>3, <3>5, HeavierErased
    <3>7. Read(mixed) = {}
      BY <2>1, <3>6 DEF Read
    <3> QED BY <1>3, <3>7 DEF mixed, file
  <2>4. CASE old.data \in Sound /\ Leads(old.data, new)
    <3>1. PICK save : save = mixed.data
      OBVIOUS
    <3>2. PICK later \in Saves : PassesFor(new, later)
      BY DEF Sound
    <3>3. old.data \in Settings /\ later \in Settings
      BY <2>4, <3>2, SaveIs
    <3>4. /\ save.name = old.data.name
          /\ \A b \in Blocks : save.block[b] = IF b <= k THEN new.block[b] ELSE old.data.block[b]
      BY <2>1, <3>1
    <3>5. save \in Settings
      <4>1. save = [block |-> save.block, name |-> save.name]
            /\ save.block \in [Blocks -> Content \cup {Erased}]
        BY <2>2, <3>1 DEF Data
      <4>2. \A b \in Blocks : new.block[b] \in Content /\ old.data.block[b] \in Content
        BY <1>1, <3>3 DEF Settings
      <4>3. \A b \in Blocks : save.block[b] \in Content
        BY <3>4, <4>2
      <4>4. save.block \in [Blocks -> Content]
        BY <4>1, <4>3
      <4>5. save.name \in Names \cup {Blank}
        BY <3>3, <3>4 DEF Settings
      <4> QED BY <4>1, <4>4, <4>5 DEF Settings
    <3>6. Leads(save, new)
      <4>1. Leads(new, new)
        BY <1>1, LeadsIs
      <4> QED BY <2>4, <3>4, <4>1 DEF Leads
    <3>7. Leads(save, later)
      BY <1>1, <3>2, <3>3, <3>5, <3>6, LeadsIs DEF PassesFor
    <3>8. save.block[1] = later.block[1]
      <4>1. 1 \in Blocks /\ 1 <= k
        BY <1>0, <2>0
      <4> QED BY <3>2, <3>4, <4>1 DEF PassesFor
    <3>9. Checksum(save) = Checksum(new) => save \in Sound
      BY <3>2, <3>5, <3>7, <3>8 DEF Sound, PassesFor
    <3>10. Read(mixed) \subseteq Sound
      BY <2>1, <3>1, <3>9 DEF Read
    <3> QED BY <1>3, <3>10 DEF mixed, file
  <2> QED BY <1>2, <2>3, <2>4
<1> QED BY <1>4, <1>5, <1>6

\* Erasing the next block.
LEMMA WipedIs ==
    ASSUME NEW file \in File, NEW k \in 0 .. Size - 1, Wiped(file, k)
    PROVE  LET next == WithBlock(file, ErasedFile, k + 1)
           IN  /\ next \in File /\ Wiped(next, k + 1)
               /\ CutShort(file, ErasedFile, k + 1) = next
               /\ Read(next) = {}
               /\ k + 1 = Size => next = ErasedFile
               /\ Clean(file) => next = ErasedFile
<1>1. /\ ErasedFile \in File /\ ErasedFile.sum = 65535 /\ ErasedFile.data.name = Erased
      /\ \A b \in Blocks : ErasedFile.data.block[b] = Erased
  BY ErasedIs
<1>2. Size \in 2 .. 5 /\ Blocks = 1 .. Size
  BY SizeIs
<1>3. PICK j \in Blocks : j = k + 1
  BY <1>2
<1>4. PICK erased \in File : erased = ErasedFile
  BY <1>1
<1>5. PICK next : next = WithBlock(file, erased, j)
  OBVIOUS
<1>6. next \in File /\ IsWith(next, file, erased, j)
  <2>1. IsWith(next, file, erased, j)
    BY <1>5, Zenon, WithBlockIs
  <2> QED BY <2>1 DEF IsWith
<1>7. \A b \in 1 .. j - 1 : b \in Blocks /\ file.data.block[b] = Erased
  BY <1>2, <1>3 DEF Wiped
<1>8. j # 1 => file.sum = 65535
  BY <1>2, <1>3 DEF Wiped
<1>9. next.sum = 65535
  BY <1>1, <1>4, <1>6, <1>8 DEF IsWith
<1>10. ASSUME NEW b \in 1 .. j PROVE b \in Blocks /\ next.data.block[b] = Erased
  <2>1. b \in Blocks /\ (b # j => b \in 1 .. j - 1)
    BY <1>2, <1>3
  <2> QED BY <1>1, <1>4, <1>6, <1>7, <2>1 DEF IsWith
<1>11. j = Size => next.data.name = Erased
  BY <1>1, <1>4, <1>6 DEF IsWith
<1>12. Wiped(next, j)
  BY <1>9, <1>10, <1>11 DEF Wiped
<1>13. CutShort(file, erased, j) = next
  <2>1. j > 1 => file.sum = erased.sum
    BY <1>1, <1>2, <1>3, <1>4, <1>8
  <2>2. \A b \in 1 .. j - 1 : file.data.block[b] = erased.data.block[b]
    BY <1>1, <1>4, <1>7
  <2> QED BY <1>5, <2>1, <2>2, CutIsWith
<1>14. ASSUME j = Size PROVE next = erased
  <2>1. \A b \in Blocks : next.data.block[b] = erased.data.block[b]
    BY <1>1, <1>2, <1>4, <1>10, <1>14
  <2> QED BY <1>1, <1>4, <1>6, <1>9, <1>11, <1>14, <2>1, SameFile
<1>15. ASSUME Clean(file) PROVE next = erased
  <2>1. file = erased
    BY <1>4, <1>15 DEF Clean
  <2> QED BY <1>6, <2>1, SameFile DEF IsWith
<1>16. Read(next) = {}
  BY <1>6, <1>9, WipedRead
<1> QED BY <1>3, <1>4, <1>5, <1>6, <1>12, <1>13, <1>14, <1>15, <1>16

-----------------------------------------------------------------------------
(* Requests.                                                               *)

LEMMA FileNumbers == Files \subseteq 0 .. 2 /\ 1 \in Files
BY Zenon, SaveGameAssumption

LEMMA BitsAre ==
    ASSUME NEW at \in Nat
    PROVE  Bits(0, at) = {} /\ Bits(1, at) = {at} /\ Bits(2, at) = {at + 1}
<1>1. /\ (0 \div (0 + 1)) % 2 = 0 /\ (0 \div (1 + 1)) % 2 = 0
      /\ (1 \div (0 + 1)) % 2 = 1 /\ (1 \div (1 + 1)) % 2 = 0
      /\ (2 \div (0 + 1)) % 2 = 0 /\ (2 \div (1 + 1)) % 2 = 1
  OBVIOUS
<1>2. 0 .. 1 = {0, 1}
  OBVIOUS
<1>3. \A n \in {0, 1, 2} :
         Bits(n, at) = {at + i : i \in {j \in {0, 1} : (n \div (j + 1)) % 2 = 1}}
  BY <1>2 DEF Bits
<1>4. {j \in {0, 1} : (0 \div (j + 1)) % 2 = 1} = {}
  BY <1>1
<1>5. {j \in {0, 1} : (1 \div (j + 1)) % 2 = 1} = {0}
  BY <1>1
<1>6. {j \in {0, 1} : (2 \div (j + 1)) % 2 = 1} = {1}
  BY <1>1
<1>7. Bits(0, at) = {at + i : i \in {}} /\ Bits(1, at) = {at + i : i \in {0}}
      /\ Bits(2, at) = {at + i : i \in {1}}
  BY <1>3, <1>4, <1>5, <1>6
<1> QED BY <1>7

LEMMA FlagsAre ==
    /\ Quiet => flags \cap {ReadAll, ReadFile, WriteSave, EraseSave, ReadConfig} = {}
    /\ AsksAll => /\ ReadAll \in flags
                  /\ flags \cap {ReadFile, WriteSave, EraseSave, ReadConfig} = {}
    /\ \A f \in Files :
          /\ AsksRead(f) => /\ ReadFile \in flags /\ Number(8) = f
                            /\ flags \cap {ReadAll, WriteSave, EraseSave} = {}
          /\ AsksWrite(f) => /\ WriteSave \in flags /\ Number(10) = f
                             /\ flags \cap {ReadAll, ReadFile, EraseSave, ReadConfig} = {}
          /\ AsksErase(f) => /\ EraseSave \in flags /\ Number(10) = f
                             /\ flags \cap {ReadAll, ReadFile, WriteSave, ReadConfig} = {}
<1> USE DEF ReadAll, ReadFile, WriteSave, EraseSave, ReadConfig, WriteConfig
<1>1. Quiet => flags \cap {3, 2, 6, 7, 8} = {}
  BY DEF Quiet
<1>2. AsksAll => 3 \in flags /\ flags \cap {2, 6, 7, 8} = {}
  BY DEF AsksAll
<1>3. ASSUME NEW f \in Files
      PROVE  /\ AsksRead(f) => /\ 2 \in flags /\ Number(8) = f
                               /\ flags \cap {3, 6, 7} = {}
             /\ AsksWrite(f) => /\ 6 \in flags /\ Number(10) = f
                                /\ flags \cap {3, 2, 7, 8} = {}
             /\ AsksErase(f) => /\ 7 \in flags /\ Number(10) = f
                                /\ flags \cap {3, 2, 6, 8} = {}
  <2>1. f = 0 \/ f = 1 \/ f = 2
    BY FileNumbers
  <2>2. Bits(f, 8) = IF f = 0 THEN {} ELSE IF f = 1 THEN {8} ELSE {9}
    BY <2>1, BitsAre
  <2>3. Bits(f, 10) = IF f = 0 THEN {} ELSE IF f = 1 THEN {10} ELSE {11}
    BY <2>1, BitsAre
  <2>4. ASSUME AsksRead(f)
        PROVE  2 \in flags /\ Number(8) = f /\ flags \cap {3, 6, 7} = {}
    BY <2>1, <2>2, <2>4 DEF AsksRead, Number
  <2>5. ASSUME AsksWrite(f)
        PROVE  6 \in flags /\ Number(10) = f /\ flags \cap {3, 2, 7, 8} = {}
    BY <2>1, <2>3, <2>5 DEF AsksWrite, Number
  <2>6. ASSUME AsksErase(f)
        PROVE  7 \in flags /\ Number(10) = f /\ flags \cap {3, 2, 6, 8} = {}
    BY <2>1, <2>3, <2>6 DEF AsksErase, Number
  <2> QED BY <2>4, <2>5, <2>6
<1> QED BY <1>1, <1>2, <1>3

LEMMA AskedIs ==
    /\ Quiet => Asked = {}
    /\ AsksAll => Asked = [op : {"readAll"}, file : Files]
    /\ \A f \in Files :
          /\ AsksRead(f) => Asked = {Op("read", f)}
          /\ AsksWrite(f) => Asked = {Op("write", f)}
          /\ AsksErase(f) => Asked = {Op("erase", f)}
<1>1. Quiet => Asked = {}
  BY FlagsAre DEF Asked
<1>2. AsksAll => Asked = [op : {"readAll"}, file : Files]
  BY FlagsAre DEF Asked
<1>3. ASSUME NEW f \in Files, AsksRead(f) PROVE Asked = {Op("read", f)}
  <2>1. ReadFile \in flags /\ Number(8) = f /\ flags \cap {ReadAll, WriteSave, EraseSave} = {}
    BY <1>3, FlagsAre
  <2> QED BY <2>1 DEF Asked
<1>4. ASSUME NEW f \in Files, AsksWrite(f) PROVE Asked = {Op("write", f)}
  <2>1. /\ WriteSave \in flags /\ Number(10) = f
        /\ flags \cap {ReadAll, ReadFile, EraseSave, ReadConfig} = {}
    BY <1>4, FlagsAre
  <2> QED BY <2>1 DEF Asked
<1>5. ASSUME NEW f \in Files, AsksErase(f) PROVE Asked = {Op("erase", f)}
  <2>1. /\ EraseSave \in flags /\ Number(10) = f
        /\ flags \cap {ReadAll, ReadFile, WriteSave, ReadConfig} = {}
    BY <1>5, FlagsAre
  <2> QED BY <2>1 DEF Asked
<1> QED BY <1>1, <1>2, <1>3, <1>4, <1>5

-----------------------------------------------------------------------------
(* The queue of what input_update does.                                    *)

LEMMA OpIs ==
    /\ \A o \in Ops :
          /\ o = Op(o.op, o.file)
          /\ o.op \in ConfigOps => o.file = 0 /\ o.op \notin FileOps
          /\ o.op \notin ConfigOps => o.file \in Files /\ o.op \in FileOps
    /\ \A k \in FileOps, f \in Files : Op(k, f) \in Ops
    /\ \A k \in ConfigOps : Op(k, 0) \in Ops
    /\ \A k, f : Op(k, f).op = k /\ Op(k, f).file = f
<1>1. \A k, f : Op(k, f).op = k /\ Op(k, f).file = f
  BY DEF Op
<1>2. \A k : ~(k \in ConfigOps /\ k \in FileOps)
  BY DEF ConfigOps, FileOps
<1>3. \A k \in FileOps, f \in Files : Op(k, f) \in Ops
  BY DEF Ops, Op
<1>4. \A k \in ConfigOps : Op(k, 0) \in Ops
  BY DEF Ops, Op
<1>5. ASSUME NEW o \in Ops
      PROVE  /\ o = Op(o.op, o.file)
             /\ o.op \in ConfigOps => o.file = 0 /\ o.op \notin FileOps
             /\ o.op \notin ConfigOps => o.file \in Files /\ o.op \in FileOps
  <2>1. CASE o \in [op : ConfigOps, file : {0}]
    <3>1. o.op \in ConfigOps /\ o.file = 0 /\ o = [op |-> o.op, file |-> o.file]
      BY <2>1
    <3> QED BY <1>2, <3>1 DEF Op
  <2>2. CASE o \in [op : FileOps, file : Files]
    <3>1. o.op \in FileOps /\ o.file \in Files /\ o = [op |-> o.op, file |-> o.file]
      BY <2>2
    <3> QED BY <1>2, <3>1 DEF Op
  <2> QED BY <2>1, <2>2 DEF Ops
<1> QED BY <1>1, <1>3, <1>4, <1>5

LEMMA QueueEmpty == Queued(<<>>) /\ FileOpsOf(<<>>) = {}
BY EmptySeq DEF Queued, FileOpsOf

LEMMA QueueOne ==
    ASSUME NEW o \in Ops, o.op \in FileOps
    PROVE  Queued(<<o>>) /\ FileOpsOf(<<o>>) = {o}
<1>1. <<o>> \in Seq(Ops) /\ Len(<<o>>) = 1 /\ <<o>>[1] = o
  OBVIOUS
<1>2. PICK q : q = <<o>>
  OBVIOUS
<1>3. q \in Seq(Ops) /\ 1 .. Len(q) = {1} /\ q[1] = o
  BY <1>1, <1>2
<1>4. Queued(q)
  BY <1>3 DEF Queued
<1>5. FileOpsOf(q) = {o}
  BY <1>3 DEF FileOpsOf
<1> QED BY <1>2, <1>4, <1>5

\* Settings come last.
LEMMA QueueConfig ==
    ASSUME NEW q, Queued(q), NEW o \in Ops, o.op \in ConfigOps
    PROVE  /\ Queued(q \o <<o>>) /\ FileOpsOf(q \o <<o>>) = FileOpsOf(q)
           /\ HasConfig(q \o <<o>>)
<1>1. q \in Seq(Ops) /\ <<o>> \in Seq(Ops) /\ Len(<<o>>) = 1 /\ <<o>>[1] = o
  BY DEF Queued
<1>2. PICK r : r = q \o <<o>>
  OBVIOUS
<1>3. PICK n \in Nat : n = Len(q)
  BY <1>1, LenProperties
<1>4. /\ r \in Seq(Ops) /\ Len(r) = n + 1 /\ r[n + 1] = o
      /\ \A i \in 1 .. n : r[i] = q[i]
  BY <1>1, <1>2, <1>3, ConcatProperties
<1>5. \A i \in 1 .. n + 1 : i = n + 1 \/ i \in 1 .. n
  OBVIOUS
<1>6. o.op \notin FileOps
  BY DEF ConfigOps, FileOps
<1>7. \A i \in 1 .. n + 1 : r[i].op \in FileOps => i \in 1 .. n /\ r[i] = q[i]
  BY <1>4, <1>5, <1>6
<1>8. \A i, j \in 1 .. n + 1 : i < j /\ r[j].op \in FileOps =>
         i \in 1 .. n /\ j \in 1 .. n /\ r[i] = q[i] /\ r[j] = q[j]
  BY <1>4, <1>7
<1>9. Queued(r)
  BY <1>3, <1>4, <1>8 DEF Queued
<1>10. FileOpsOf(r) = FileOpsOf(q)
  <2>1. {j \in 1 .. n + 1 : r[j].op \in FileOps} = {j \in 1 .. n : q[j].op \in FileOps}
    BY <1>4, <1>7
  <2> QED BY <1>3, <1>4, <2>1 DEF FileOpsOf
<1>11. HasConfig(r)
  BY <1>3, <1>4 DEF HasConfig
<1> QED BY <1>2, <1>9, <1>10, <1>11

\* Queues that read the files of a set.
Reads(q, set) ==
    /\ q \in Seq(Ops)
    /\ \A i \in 1 .. Len(q) : q[i].op = "readAll"
    /\ \A i, j \in 1 .. Len(q) : i < j => q[i].file # q[j].file
    /\ {q[i].file : i \in 1 .. Len(q)} = set

LEMMA ReadsMore ==
    ASSUME NEW q, NEW set, Reads(q, set), NEW f, f \notin set
    PROVE  Reads(q \o One(f), set \cup ({f} \cap Files))
<1>1. q \in Seq(Ops)
  BY DEF Reads
<1>2. CASE f \notin Files
  <2>1. q \o One(f) = q
    BY <1>1, <1>2, ConcatEmptySeq DEF One
  <2> QED BY <1>2, <2>1
<1>3. CASE f \in Files
  <2>1. PICK o \in Ops : o = Op("readAll", f) /\ o.op = "readAll" /\ o.file = f
    <3>1. Op("readAll", f) \in Ops
      BY <1>3, OpIs DEF FileOps
    <3> QED BY <3>1 DEF Op
  <2>2. One(f) = <<o>> /\ <<o>> \in Seq(Ops) /\ Len(<<o>>) = 1 /\ <<o>>[1] = o
    BY <1>3, <2>1 DEF One
  <2>3. PICK r : r = q \o One(f)
    OBVIOUS
  <2>4. PICK n \in Nat : n = Len(q)
    BY <1>1, LenProperties
  <2>5. /\ r \in Seq(Ops) /\ Len(r) = n + 1 /\ r[n + 1] = o
        /\ \A i \in 1 .. n : r[i] = q[i]
    BY <1>1, <2>2, <2>3, <2>4, ConcatProperties
  <2>6. \A i \in 1 .. n + 1 : i = n + 1 \/ i \in 1 .. n
    OBVIOUS
  <2>7. \A i \in 1 .. n : q[i].file # f
    BY <2>4 DEF Reads
  <2>8. \A i \in 1 .. n + 1 : r[i].op = "readAll"
    BY <2>1, <2>4, <2>5, <2>6 DEF Reads
  <2>9. \A i, j \in 1 .. n + 1 : i < j => r[i].file # r[j].file
    <3> SUFFICES ASSUME NEW i \in 1 .. n + 1, NEW j \in 1 .. n + 1, i < j
                 PROVE  r[i].file # r[j].file
      OBVIOUS
    <3>1. i \in 1 .. n
      OBVIOUS
    <3>2. CASE j = n + 1
      BY <2>1, <2>5, <2>7, <3>1, <3>2
    <3>3. CASE j \in 1 .. n
      BY <2>4, <2>5, <3>1, <3>3 DEF Reads
    <3> QED BY <2>6, <3>2, <3>3
  <2>10. {r[i].file : i \in 1 .. n + 1} = set \cup {f}
    <3>1. {q[i].file : i \in 1 .. n} = set
      BY <2>4 DEF Reads
    <3>2. \A i \in 1 .. n : r[i].file = q[i].file
      BY <2>5
    <3>3. n + 1 \in 1 .. n + 1 /\ 1 .. n \subseteq 1 .. n + 1
      OBVIOUS
    <3>4. r[n + 1].file = f
      BY <2>1, <2>5
    <3>5. \A x : x \in {r[i].file : i \in 1 .. n + 1} <=> \E i \in 1 .. n + 1 : x = r[i].file
      OBVIOUS
    <3>6. \A x : x \in set <=> \E i \in 1 .. n : x = q[i].file
      BY <3>1
    <3>7. \A x : x \in {r[i].file : i \in 1 .. n + 1} <=> x \in set \/ x = f
      BY <2>6, <3>2, <3>3, <3>4, <3>5, <3>6
    <3> QED BY <3>7
  <2>11. set \cup ({f} \cap Files) = set \cup {f}
    <3>1. \A x : x \in {f} \cap Files <=> x = f
      BY <1>3
    <3>2. {f} \cap Files = {f}
      BY <3>1
    <3> QED BY <3>2
  <2>12. PICK u : u = set \cup ({f} \cap Files)
    OBVIOUS
  <2>13. PICK m : m = n + 1
    OBVIOUS
  <2>14. r \in Seq(Ops) /\ Len(r) = m
    BY <2>5, <2>13
  <2>15. \A i \in 1 .. m : r[i].op = "readAll"
    BY <2>8, <2>13
  <2>16. \A i, j \in 1 .. m : i < j => r[i].file # r[j].file
    BY <2>9, <2>13
  <2>17. {r[i].file : i \in 1 .. m} = u
    BY <2>10, <2>11, <2>12, <2>13
  <2>18. Reads(r, u)
    BY <2>14, <2>15, <2>16, <2>17 DEF Reads
  <2> QED BY <2>3, <2>12, <2>18
<1> QED BY <1>2, <1>3

LEMMA ReadsQueued ==
    ASSUME NEW q, Reads(q, Files)
    PROVE  Queued(q) /\ FileOpsOf(q) = [op : {"readAll"}, file : Files]
<1>1. \A i \in 1 .. Len(q) : q[i].op = "readAll" /\ q[i] \in Ops
  BY ElementOfSeq DEF Reads
<1>2. Queued(q)
  BY <1>1 DEF Reads, Queued
<1>3. \A i \in 1 .. Len(q) : q[i].op \in FileOps
  BY <1>1 DEF FileOps
<1>4. FileOpsOf(q) = {q[i] : i \in 1 .. Len(q)}
  BY <1>3 DEF FileOpsOf
<1>5. \A i \in 1 .. Len(q) : q[i] = [op |-> "readAll", file |-> q[i].file]
  BY <1>1, OpIs DEF Op
<1>6. {q[i] : i \in 1 .. Len(q)} = {[op |-> "readAll", file |-> f] : f \in Files}
  <2>1. {q[i].file : i \in 1 .. Len(q)} = Files
    BY DEF Reads
  <2>2. ASSUME NEW f \in Files
        PROVE  \E i \in 1 .. Len(q) : [op |-> "readAll", file |-> f] = q[i]
    <3>1. PICK i \in 1 .. Len(q) : q[i].file = f
      BY <2>1
    <3> QED BY <1>5, <3>1
  <2>3. \A i \in 1 .. Len(q) : q[i].file \in Files
    BY <2>1
  <2>4. ASSUME NEW i \in 1 .. Len(q)
        PROVE  q[i] \in {[op |-> "readAll", file |-> f] : f \in Files}
    BY <1>5, <2>3
  <2>5. ASSUME NEW o \in {[op |-> "readAll", file |-> f] : f \in Files}
        PROVE  o \in {q[i] : i \in 1 .. Len(q)}
    BY <2>2
  <2> QED BY <2>4, <2>5
<1>7. {[op |-> "readAll", file |-> f] : f \in Files} = [op : {"readAll"}, file : Files]
  <2>1. ASSUME NEW o \in [op : {"readAll"}, file : Files]
        PROVE  o = [op |-> "readAll", file |-> o.file] /\ o.file \in Files
    OBVIOUS
  <2>2. ASSUME NEW f \in Files
        PROVE  [op |-> "readAll", file |-> f] \in [op : {"readAll"}, file : Files]
    OBVIOUS
  <2> QED BY <2>1, <2>2
<1> QED BY <1>2, <1>4, <1>6, <1>7

LEMMA ReadEveryQueued ==
    Queued(ReadEvery) /\ FileOpsOf(ReadEvery) = [op : {"readAll"}, file : Files]
<1>1. PICK s0 : s0 = <<>>
  OBVIOUS
<1>2. PICK f0 : f0 = {}
  OBVIOUS
<1>3. Reads(s0, f0)
  BY <1>1, <1>2, EmptySeq DEF Reads
<1>4. PICK s1, f1 : s1 = s0 \o One(0) /\ f1 = f0 \cup ({0} \cap Files)
  OBVIOUS
<1>5. Reads(s1, f1) /\ f1 \subseteq {0}
  BY <1>2, <1>3, <1>4, ReadsMore
<1>6. PICK s2, f2 : s2 = s1 \o One(1) /\ f2 = f1 \cup ({1} \cap Files)
  OBVIOUS
<1>7. Reads(s2, f2) /\ f2 \subseteq {0, 1}
  <2>1. 1 \notin f1
    BY <1>5
  <2> QED BY <1>5, <1>6, <2>1, ReadsMore
<1>8. PICK s3, f3 : s3 = s2 \o One(2) /\ f3 = f2 \cup ({2} \cap Files)
  OBVIOUS
<1>9. Reads(s3, f3)
  <2>1. 2 \notin f2
    BY <1>7
  <2> QED BY <1>7, <1>8, <2>1, ReadsMore
<1>10. f3 = Files
  <2>1. f3 = (({0} \cap Files) \cup ({1} \cap Files)) \cup ({2} \cap Files)
    BY <1>2, <1>4, <1>6, <1>8
  <2>2. \A f \in Files : f = 0 \/ f = 1 \/ f = 2
    BY FileNumbers
  <2>3. \A f \in Files : f \in f3
    BY <2>1, <2>2
  <2> QED BY <2>1, <2>3
<1>11. s1 = One(0)
  <2>1. One(0) \in Seq(Ops)
    BY EmptySeq, OpIs DEF One, FileOps
  <2> QED BY <1>1, <1>4, <2>1, ConcatEmptySeq
<1>12. s3 = ReadEvery
  BY <1>6, <1>8, <1>11 DEF ReadEvery
<1> QED BY <1>9, <1>10, <1>12, ReadsQueued

\* What the flags ask for is queued, the settings behind it.
LEMMA RequestsAre ==
    Forms => /\ Queued(Requests) /\ FileOpsOf(Requests) = Asked
             /\ flags \cap {ReadConfig, WriteConfig} # {} => HasConfig(Requests)
<1> SUFFICES ASSUME Forms
             PROVE  /\ Queued(Requests) /\ FileOpsOf(Requests) = Asked
                    /\ flags \cap {ReadConfig, WriteConfig} # {} => HasConfig(Requests)
  OBVIOUS
<1> DEFINE ra == If(ReadAll, ReadEvery)
           rd == If(ReadFile, <<Op("read", Number(8))>>)
           wr == If(WriteSave, <<Op("write", Number(10))>>)
           er == If(EraseSave, <<Op("erase", Number(10))>>)
           rc == If(ReadConfig, <<Op("readConfig", 0)>>)
           wc == If(WriteConfig, <<Op("writeConfig", 0)>>)
<1>1. Requests = ((((ra \o rd) \o wr) \o er) \o rc) \o wc
  BY DEF Requests
<1>2. /\ ReadAll \notin flags => ra = <<>>
      /\ ReadFile \notin flags => rd = <<>>
      /\ WriteSave \notin flags => wr = <<>>
      /\ EraseSave \notin flags => er = <<>>
      /\ ReadConfig \notin flags => rc = <<>>
      /\ WriteConfig \notin flags => wc = <<>>
      /\ ReadAll \in flags => ra = ReadEvery
      /\ ReadFile \in flags => rd = <<Op("read", Number(8))>>
      /\ WriteSave \in flags => wr = <<Op("write", Number(10))>>
      /\ EraseSave \in flags => er = <<Op("erase", Number(10))>>
      /\ ReadConfig \in flags => rc = <<Op("readConfig", 0)>>
      /\ WriteConfig \in flags => wc = <<Op("writeConfig", 0)>>
  BY DEF If
<1> HIDE DEF ra, rd, wr, er, rc, wc
<1>3. ASSUME NEW s, Queued(s) PROVE s \o <<>> = s /\ <<>> \o s = s
  BY <1>3, ConcatEmptySeq DEF Queued
<1>4. PICK g : g = ((ra \o rd) \o wr) \o er
  OBVIOUS
<1>5. Queued(g) /\ FileOpsOf(g) = Asked
  <2>1. CASE Quiet
    <3>1. ra = <<>> /\ rd = <<>> /\ wr = <<>> /\ er = <<>>
      BY <1>2, <2>1, FlagsAre
    <3>2. <<>> \o <<>> = <<>>
      BY <1>3, QueueEmpty
    <3>3. g = <<>>
      BY <1>4, <3>1, <3>2
    <3> QED BY <2>1, <3>3, AskedIs, QueueEmpty
  <2>2. CASE AsksAll
    <3>1. ra = ReadEvery /\ rd = <<>> /\ wr = <<>> /\ er = <<>>
      BY <1>2, <2>2, FlagsAre
    <3>2. ReadEvery \o <<>> = ReadEvery
      BY <1>3, ReadEveryQueued
    <3>3. g = ReadEvery
      BY <1>4, <3>1, <3>2
    <3> QED BY <2>2, <3>3, AskedIs, ReadEveryQueued
  <2>3. ASSUME NEW f \in Files, AsksRead(f) PROVE Queued(g) /\ FileOpsOf(g) = Asked
    <3>1. PICK o \in Ops : o = Op("read", f) /\ o.op \in FileOps
      BY OpIs DEF FileOps
    <3>2. ra = <<>> /\ rd = <<o>> /\ wr = <<>> /\ er = <<>>
      BY <1>2, <2>3, <3>1, FlagsAre
    <3>3. Queued(<<o>>) /\ FileOpsOf(<<o>>) = {o}
      BY <3>1, QueueOne
    <3>4. g = <<o>>
      BY <1>3, <1>4, <3>2, <3>3
    <3> QED BY <2>3, <3>1, <3>3, <3>4, AskedIs
  <2>4. ASSUME NEW f \in Files, AsksWrite(f) PROVE Queued(g) /\ FileOpsOf(g) = Asked
    <3>1. PICK o \in Ops : o = Op("write", f) /\ o.op \in FileOps
      BY OpIs DEF FileOps
    <3>2. ra = <<>> /\ rd = <<>> /\ wr = <<o>> /\ er = <<>>
      BY <1>2, <2>4, <3>1, FlagsAre
    <3>3. Queued(<<o>>) /\ FileOpsOf(<<o>>) = {o}
      BY <3>1, QueueOne
    <3>4. g = <<o>>
      BY <1>3, <1>4, <3>2, <3>3, QueueEmpty
    <3> QED BY <2>4, <3>1, <3>3, <3>4, AskedIs
  <2>5. ASSUME NEW f \in Files, AsksErase(f) PROVE Queued(g) /\ FileOpsOf(g) = Asked
    <3>1. PICK o \in Ops : o = Op("erase", f) /\ o.op \in FileOps
      BY OpIs DEF FileOps
    <3>2. ra = <<>> /\ rd = <<>> /\ wr = <<>> /\ er = <<o>>
      BY <1>2, <2>5, <3>1, FlagsAre
    <3>3. Queued(<<o>>) /\ FileOpsOf(<<o>>) = {o}
      BY <3>1, QueueOne
    <3>4. g = <<o>>
      BY <1>3, <1>4, <3>2, <3>3, QueueEmpty
    <3> QED BY <2>5, <3>1, <3>3, <3>4, AskedIs
  <2> QED BY <2>1, <2>2, <2>3, <2>4, <2>5 DEF Forms
<1>6. PICK h : h = g \o rc
  OBVIOUS
<1>7. Queued(h) /\ FileOpsOf(h) = Asked /\ (ReadConfig \in flags => HasConfig(h))
  <2>1. CASE ReadConfig \in flags
    <3>1. PICK o \in Ops : o = Op("readConfig", 0) /\ o.op \in ConfigOps
      BY OpIs DEF ConfigOps
    <3>2. h = g \o <<o>>
      BY <1>2, <1>6, <2>1, <3>1
    <3> QED BY <1>5, <3>1, <3>2, QueueConfig
  <2>2. CASE ReadConfig \notin flags
    BY <1>2, <1>3, <1>5, <1>6, <2>2
  <2> QED BY <2>1, <2>2
<1>8. Requests = h \o wc
  BY <1>1, <1>4, <1>6
<1>9. CASE WriteConfig \in flags
  <2>1. PICK o \in Ops : o = Op("writeConfig", 0) /\ o.op \in ConfigOps
    BY OpIs DEF ConfigOps
  <2>2. Requests = h \o <<o>>
    BY <1>2, <1>8, <1>9, <2>1
  <2> QED BY <1>7, <2>1, <2>2, QueueConfig
<1>10. CASE WriteConfig \notin flags
  <2>1. Requests = h
    BY <1>2, <1>3, <1>7, <1>8, <1>10
  <2> QED BY <1>7, <1>10, <2>1
<1> QED BY <1>9, <1>10

\* What comes to the front of a queue.
LEMMA QueueHead ==
    ASSUME NEW q, Queued(q), q # <<>>
    PROVE  /\ Head(q) \in Ops /\ FileOpsOf(q) \subseteq {o \in Ops : o.op \in FileOps}
           /\ Head(q).op \in FileOps => Head(q) \in FileOpsOf(q)
           /\ Head(q).op \in {"read", "write", "erase"} => FileOpsOf(q) = {Head(q)}
           /\ \A o \in FileOpsOf(q) : o # Head(q) =>
                 o.op = "readAll" /\ (Head(q).op \in FileOps => o.file # Head(q).file)
<1>1. PICK n \in Nat : n = Len(q)
  BY LenProperties DEF Queued
<1>2. /\ q \in Seq(Ops) /\ n > 0 /\ Head(q) = q[1]
      /\ \A i \in 1 .. n : q[i] \in Ops
  <2>1. q \in Seq(Ops) /\ n # 0
    BY <1>1, EmptySeq DEF Queued
  <2>2. \A i \in 1 .. n : q[i] \in Ops
    BY <1>1, <2>1, ElementOfSeq
  <2> QED BY <2>1, <2>2
<1>3. PICK h \in Ops : h = Head(q) /\ h = q[1]
  BY <1>2
<1>4. ASSUME NEW j \in 1 .. n, j # 1, q[j].op \in FileOps
      PROVE  q[j].op = "readAll" /\ h.op \in {"readAll", "clean"} \cup ConfigOps
             /\ (h.op \in FileOps => q[j].file # h.file)
  <2>1. 1 \in 1 .. n /\ 1 < j
    BY <1>4
  <2> QED BY <1>1, <1>3, <1>4, <2>1 DEF Queued
<1>5. \A o \in FileOpsOf(q) : \E j \in 1 .. n : o = q[j] /\ q[j].op \in FileOps
  BY <1>1 DEF FileOpsOf
<1>6. h.op \in FileOps => h \in FileOpsOf(q)
  BY <1>1, <1>2, <1>3 DEF FileOpsOf
<1>7. ASSUME h.op \in {"read", "write", "erase"} PROVE FileOpsOf(q) = {h}
  <2>1. h.op \in FileOps /\ h.op \notin {"readAll", "clean"} \cup ConfigOps
    BY <1>7 DEF FileOps, ConfigOps
  <2> QED BY <1>3, <1>4, <1>5, <1>6, <2>1
<1>8. ASSUME NEW o \in FileOpsOf(q), o # h
      PROVE  o.op = "readAll" /\ (h.op \in FileOps => o.file # h.file)
  BY <1>3, <1>4, <1>5, <1>8
<1>9. FileOpsOf(q) \subseteq {o \in Ops : o.op \in FileOps}
  BY <1>2, <1>5
<1> QED BY <1>3, <1>6, <1>7, <1>8, <1>9

LEMMA QueueTail ==
    ASSUME NEW q, Queued(q), q # <<>>
    PROVE  /\ Queued(Tail(q)) /\ FileOpsOf(Tail(q)) = FileOpsOf(q) \ {Head(q)}
           /\ HasConfig(q) /\ Head(q).op \in FileOps => HasConfig(Tail(q))
<1>1. PICK t : t = Tail(q)
  OBVIOUS
<1>2. q \in Seq(Ops)
  BY DEF Queued
<1>3. PICK n \in Nat : n = Len(t) /\ n + 1 = Len(q)
  <2>1. Len(q) \in Nat /\ Len(q) # 0
    BY <1>2, LenProperties, EmptySeq
  <2>2. Len(t) = Len(q) - 1
    BY <1>1, <1>2, HeadTailProperties
  <2> QED BY <2>1, <2>2
<1>4. t \in Seq(Ops) /\ \A i \in 1 .. n : t[i] = q[i + 1]
  BY <1>1, <1>2, <1>3, HeadTailProperties
<1>5. PICK h : h = Head(q) /\ h = q[1]
  BY <1>2
<1>6. \A j \in 1 .. n + 1 : j = 1 \/ (j - 1 \in 1 .. n /\ t[j - 1] = q[j])
  <2> SUFFICES ASSUME NEW j \in 1 .. n + 1, j # 1 PROVE j - 1 \in 1 .. n /\ t[j - 1] = q[j]
    OBVIOUS
  <2>1. j - 1 \in 1 .. n /\ (j - 1) + 1 = j
    OBVIOUS
  <2> QED BY <1>4, <2>1
<1>7. \A i \in 1 .. n : i + 1 \in 1 .. n + 1 /\ i + 1 # 1
  OBVIOUS
<1>8. Queued(t)
  <2> SUFFICES ASSUME NEW i \in 1 .. n, NEW j \in 1 .. n, i < j, t[j].op \in FileOps
               PROVE  /\ t[j].op = "readAll" /\ t[i].op \in {"readAll", "clean"}
                      /\ t[i].file # t[j].file
    BY <1>3, <1>4 DEF Queued
  <2>1. i + 1 \in 1 .. n + 1 /\ j + 1 \in 1 .. n + 1 /\ i + 1 < j + 1
    OBVIOUS
  <2>2. t[i] = q[i + 1] /\ t[j] = q[j + 1]
    BY <1>4
  <2> QED BY <1>3, <2>1, <2>2 DEF Queued
<1>9. ASSUME NEW j \in 1 .. n + 1, j # 1, q[j].op \in FileOps PROVE q[j] # h
  <2>1. 1 \in 1 .. n + 1 /\ 1 < j
    BY <1>9
  <2>2. q[1].file # q[j].file
    BY <1>3, <1>9, <2>1 DEF Queued
  <2> QED BY <1>5, <2>2
<1>10. \A o : o \in FileOpsOf(t) <=> o \in FileOpsOf(q) /\ o # h
  <2>1. \A o : o \in FileOpsOf(t) <=> \E i \in 1 .. n : o = t[i] /\ t[i].op \in FileOps
    BY <1>3 DEF FileOpsOf
  <2>2. \A o : o \in FileOpsOf(q) <=> \E j \in 1 .. n + 1 : o = q[j] /\ q[j].op \in FileOps
    BY <1>3 DEF FileOpsOf
  <2>3. ASSUME NEW o, NEW i \in 1 .. n, o = t[i], t[i].op \in FileOps
        PROVE  o # h /\ \E j \in 1 .. n + 1 : o = q[j] /\ q[j].op \in FileOps
    <3>1. t[i] = q[i + 1] /\ i + 1 \in 1 .. n + 1 /\ i + 1 # 1
      BY <1>4, <1>7
    <3> QED BY <1>9, <2>3, <3>1
  <2>4. ASSUME NEW o, NEW j \in 1 .. n + 1, o = q[j], q[j].op \in FileOps, o # h
        PROVE  \E i \in 1 .. n : o = t[i] /\ t[i].op \in FileOps
    <3>1. j - 1 \in 1 .. n /\ t[j - 1] = q[j]
      BY <1>5, <1>6, <2>4
    <3> QED BY <2>4, <3>1
  <2> QED BY <2>1, <2>2, <2>3, <2>4
<1>11. ASSUME HasConfig(q), h.op \in FileOps PROVE HasConfig(t)
  <2>1. PICK j \in 1 .. n + 1 : q[j].op \in ConfigOps
    BY <1>3, <1>11 DEF HasConfig
  <2>2. j # 1
    BY <1>5, <1>11, <2>1 DEF ConfigOps, FileOps
  <2>3. j - 1 \in 1 .. n /\ t[j - 1] = q[j]
    BY <1>6, <2>2
  <2> QED BY <1>3, <2>1, <2>3 DEF HasConfig
<1>12. FileOpsOf(t) = FileOpsOf(q) \ {h}
  BY <1>10
<1> QED BY <1>1, <1>5, <1>8, <1>11, <1>12

\* The file that has been read is to be erased first.
LEMMA QueueClean ==
    ASSUME NEW q, Queued(q), q # <<>>, Head(q).op \in {"readAll", "read"}
    PROVE  LET clean == Op("clean", Head(q).file)
               new   == <<clean>> \o Tail(q)
           IN  /\ Queued(new) /\ FileOpsOf(new) = {clean} \cup (FileOpsOf(q) \ {Head(q)})
               /\ HasConfig(q) => HasConfig(new)
               /\ new # <<>>
<1>1. PICK h : h = Head(q)
  OBVIOUS
<1>2. PICK t : t = Tail(q)
  OBVIOUS
<1>3. h \in Ops /\ h.op \in FileOps /\ h.file \in Files /\ (h.op = "read" => FileOpsOf(q) = {h})
      /\ \A o \in FileOpsOf(q) : o # h => o.op = "readAll" /\ o.file # h.file
  <2>1. h.op \in FileOps
    BY <1>1 DEF FileOps
  <2>2. h \in Ops /\ (h.op = "read" => FileOpsOf(q) = {h})
    BY <1>1, QueueHead
  <2>3. \A o \in FileOpsOf(q) : o # h => o.op = "readAll" /\ o.file # h.file
    BY <1>1, <2>1, QueueHead
  <2>4. h.op \notin ConfigOps
    BY <2>1 DEF FileOps, ConfigOps
  <2>5. h.file \in Files
    BY <2>2, <2>4, OpIs
  <2> QED BY <2>1, <2>2, <2>3, <2>5
<1>4. Queued(t) /\ FileOpsOf(t) = FileOpsOf(q) \ {h} /\ (HasConfig(q) => HasConfig(t))
  BY <1>1, <1>2, <1>3, QueueTail
<1>5. PICK c : c = Op("clean", h.file)
  OBVIOUS
<1>6. c \in Ops /\ c.op = "clean" /\ c.op \in FileOps /\ c.file = h.file
  BY <1>3, <1>5, OpIs DEF FileOps
<1>7. PICK r : r = <<c>> \o t
  OBVIOUS
<1>8. PICK n \in Nat : n = Len(t)
  BY <1>4, LenProperties DEF Queued
<1>9. /\ r \in Seq(Ops) /\ Len(r) = n + 1 /\ r[1] = c
      /\ \A i \in 1 .. n : r[i + 1] = t[i]
  <2>1. t \in Seq(Ops) /\ <<c>> \in Seq(Ops) /\ Len(<<c>>) = 1 /\ <<c>>[1] = c
    BY <1>4, <1>6 DEF Queued
  <2>2. PICK s : s = <<c>>
    OBVIOUS
  <2>3. /\ r \in Seq(Ops) /\ Len(r) = Len(s) + Len(t)
        /\ \A i \in 1 .. Len(s) + Len(t) : r[i] = IF i <= Len(s) THEN s[i] ELSE t[i - Len(s)]
    BY <1>7, <2>1, <2>2, ConcatProperties
  <2>4. \A i \in 1 .. n + 1 : r[i] = IF i <= 1 THEN c ELSE t[i - 1]
    <3>1. Len(s) = 1 /\ s[1] = c
      BY <2>1, <2>2
    <3> QED BY <1>8, <2>3, <3>1
  <2>5. \A i \in 1 .. n : i + 1 \in 1 .. n + 1 /\ ~(i + 1 <= 1) /\ (i + 1) - 1 = i
    OBVIOUS
  <2>6. Len(r) = n + 1
    BY <1>8, <2>1, <2>2, <2>3
  <2> QED BY <2>3, <2>4, <2>5, <2>6
<1>10. \A j \in 1 .. n + 1 : j = 1 \/ (j - 1 \in 1 .. n /\ r[j] = t[j - 1])
  <2> SUFFICES ASSUME NEW j \in 1 .. n + 1, j # 1 PROVE j - 1 \in 1 .. n /\ r[j] = t[j - 1]
    OBVIOUS
  <2>1. j - 1 \in 1 .. n /\ (j - 1) + 1 = j
    OBVIOUS
  <2> QED BY <1>9, <2>1
<1>11. \A o : o \in FileOpsOf(t) <=> \E i \in 1 .. n : o = t[i] /\ t[i].op \in FileOps
  BY <1>8 DEF FileOpsOf
<1>12. \A o : o \in FileOpsOf(r) <=> \E j \in 1 .. n + 1 : o = r[j] /\ r[j].op \in FileOps
  BY <1>9 DEF FileOpsOf
<1>13. \A o : o \in FileOpsOf(r) <=> o = c \/ o \in FileOpsOf(t)
  <2>1. c \in FileOpsOf(r)
    <3>1. 1 \in 1 .. n + 1
      OBVIOUS
    <3> QED BY <1>6, <1>9, <1>12, <3>1
  <2>2. ASSUME NEW o, NEW i \in 1 .. n, o = t[i], t[i].op \in FileOps PROVE o \in FileOpsOf(r)
    <3>1. i + 1 \in 1 .. n + 1 /\ r[i + 1] = t[i]
      BY <1>9
    <3> QED BY <1>12, <2>2, <3>1
  <2>3. ASSUME NEW o, NEW j \in 1 .. n + 1, o = r[j], r[j].op \in FileOps
        PROVE  o = c \/ o \in FileOpsOf(t)
    BY <1>9, <1>10, <1>11, <2>3
  <2> QED BY <1>11, <1>12, <2>1, <2>2, <2>3
<1>14. Queued(r)
  <2> SUFFICES ASSUME NEW i \in 1 .. n + 1, NEW j \in 1 .. n + 1, i < j, r[j].op \in FileOps
               PROVE  /\ r[j].op = "readAll" /\ r[i].op \in {"readAll", "clean"}
                      /\ r[i].file # r[j].file
    BY <1>9 DEF Queued
  <2>1. j # 1 /\ j - 1 \in 1 .. n /\ r[j] = t[j - 1]
    BY <1>10
  <2>2. CASE i = 1
    <3>1. r[j] \in FileOpsOf(t)
      BY <1>11, <2>1
    <3>2. r[j].op = "readAll" /\ r[j].file # h.file
      BY <1>3, <1>4, <3>1
    <3> QED BY <1>6, <1>9, <2>2, <3>2
  <2>3. CASE i # 1
    <3>1. i - 1 \in 1 .. n /\ r[i] = t[i - 1] /\ i - 1 < j - 1
      BY <1>10, <2>3
    <3> QED BY <1>4, <1>8, <2>1, <3>1 DEF Queued
  <2> QED BY <2>2, <2>3
<1>15. HasConfig(t) => HasConfig(r)
  <2> SUFFICES ASSUME HasConfig(t) PROVE HasConfig(r)
    OBVIOUS
  <2>1. PICK i \in 1 .. n : t[i].op \in ConfigOps
    BY <1>8 DEF HasConfig
  <2>2. i + 1 \in 1 .. n + 1 /\ r[i + 1] = t[i]
    BY <1>9
  <2> QED BY <1>9, <2>1, <2>2 DEF HasConfig
<1>16. r # <<>>
  BY <1>9, EmptySeq
<1>17. FileOpsOf(r) = {c} \cup (FileOpsOf(q) \ {h})
  BY <1>4, <1>13
<1> QED BY <1>1, <1>2, <1>4, <1>5, <1>7, <1>14, <1>15, <1>16, <1>17

-----------------------------------------------------------------------------
(* Flags and jobs, now and in the next state.                              *)

LEMMA FormsHold == Types /\ Protocol => Forms
<1> SUFFICES ASSUME Types, Protocol PROVE Forms
  OBVIOUS
<1>1. Quiet \/ AsksAll \/ AsksBoot \/ AsksSave \/ AsksWipe \/ AsksCopy \/ AsksGame
  <2>1. flags = {} => Quiet
    BY DEF Quiet
  <2> QED BY <2>1 DEF Types, Protocol
<1>2. \A f : (AsksRead(f) \/ AsksWrite(f) \/ AsksErase(f)) => f \in Files
  BY DEF AsksRead, AsksWrite, AsksErase
<1> QED BY <1>1, <1>2 DEF Forms, AsksBoot, AsksGame, AsksCopy, AsksSave, AsksWipe

JobsFit ==
    Types /\ Protocol =>
       /\ todo # <<>> => Jobs = FileOpsOf(todo)
       /\ todo = <<>> => Jobs = Asked
       /\ Quiet /\ todo = <<>> => Jobs = {}

LEMMA JobsAre == JobsFit
<1> SUFFICES ASSUME Types, Protocol
             PROVE  /\ todo # <<>> => Jobs = FileOpsOf(todo)
                    /\ todo = <<>> => Jobs = Asked
                    /\ Quiet /\ todo = <<>> => Jobs = {}
  BY DEF JobsFit
<1>1. Quiet => Asked = {}
  BY AskedIs
<1>2. flags = {} => Quiet
  BY DEF Quiet
<1>3. todo # <<>> => flags = {}
  BY DEF Protocol
<1>4. FileOpsOf(<<>>) = {}
  BY QueueEmpty
<1> QED BY <1>1, <1>2, <1>3, <1>4 DEF Jobs

LEMMA JobsNext ==
    Types' /\ Protocol' =>
       /\ todo' # <<>> => Jobs' = FileOpsOf(todo)'
       /\ todo' = <<>> => Jobs' = Asked'
       /\ Quiet' /\ todo' = <<>> => Jobs' = {}
<1>1. JobsFit'
  BY JobsAre, PTL
<1> QED BY <1>1 DEF JobsFit

\* What the requests of a screen come to.
FormsFit ==
    /\ Quiet => Asked = {}
    /\ flags = {} => Quiet
    /\ AsksAll => Asked = [op : {"readAll"}, file : Files]
    /\ AsksBoot => Asked = {Op("read", 1)}
    /\ AsksGame => Asked = {Op("read", saveFile)}
    /\ AsksCopy => \E f \in started : Asked = {Op("read", f)}
    /\ AsksSave => Asked = {Op("write", saveFile)}
    /\ AsksWipe => Asked = {Op("erase", saveFile)}

LEMMA AskedForms == FormsFit
<1>1. \A f : (AsksRead(f) \/ AsksWrite(f) \/ AsksErase(f)) => f \in Files
  BY DEF AsksRead, AsksWrite, AsksErase
<1>2. flags = {} => Quiet
  BY DEF Quiet
<1> QED BY <1>1, <1>2, AskedIs DEF AsksBoot, AsksGame, AsksCopy, AsksSave, AsksWipe, FormsFit

LEMMA AskedFormsNext ==
    /\ Quiet' => Asked' = {}
    /\ flags' = {} => Quiet'
    /\ AsksAll' => Asked' = [op : {"readAll"}, file : Files]
    /\ AsksBoot' => Asked' = {Op("read", 1)}
    /\ AsksGame' => Asked' = {Op("read", saveFile')}
    /\ AsksSave' => Asked' = {Op("write", saveFile')}
    /\ AsksWipe' => Asked' = {Op("erase", saveFile')}
    /\ AsksCopy' => \E f \in started' : Asked' = {Op("read", f)}
<1>1. FormsFit'
  BY AskedForms, PTL
<1> QED BY <1>1 DEF FormsFit, Op

LEMMA FlagsStay ==
    UNCHANGED <<flags, saveFile, started>> =>
       /\ Quiet' <=> Quiet
       /\ AsksAll' <=> AsksAll
       /\ AsksBoot' <=> AsksBoot
       /\ AsksGame' <=> AsksGame
       /\ AsksCopy' <=> AsksCopy
       /\ AsksSave' <=> AsksSave
       /\ AsksWipe' <=> AsksWipe
       /\ Asked' = Asked
BY DEF Quiet, AsksAll, AsksBoot, AsksGame, AsksCopy, AsksSave, AsksWipe, AsksRead,
       AsksWrite, AsksErase, Asked, Number

-----------------------------------------------------------------------------
(* The logic of a frame.                                                   *)

LEMMA InLogicIs ==
    Control /\ Logic =>
       /\ todo = <<>> /\ block = 1 /\ inLogic /\ loaded /\ Jobs = Asked
       /\ flags \subseteq {6, 9, 10, 11}
       /\ screen \in {"files", "copy"} => flags = {} /\ Jobs = {}
       /\ screen = "title" => Quiet /\ Jobs = {}
       /\ screen = "game" => /\ saveFile \in Files
                             /\ \/ Quiet /\ Jobs = {}
                                \/ AsksSave /\ Jobs = {Op("write", saveFile)}
<1> SUFFICES ASSUME Control, Logic
             PROVE  /\ todo = <<>> /\ block = 1 /\ inLogic /\ loaded /\ Jobs = Asked
                    /\ flags \subseteq {6, 9, 10, 11}
                    /\ screen \in {"files", "copy"} => flags = {} /\ Jobs = {}
                    /\ screen = "title" => Quiet /\ Jobs = {}
                    /\ screen = "game" => /\ saveFile \in Files
                                          /\ \/ Quiet /\ Jobs = {}
                                             \/ AsksSave /\ Jobs = {Op("write", saveFile)}
  OBVIOUS
<1>1. Types /\ Protocol /\ InBlocks
  BY DEF Control
<1>2. todo = <<>> /\ inLogic /\ loaded
  BY <1>1 DEF Logic, Protocol
<1>3. block = 1
  <2>1. block \in 1 .. Size /\ ~(block > 1)
    BY <1>1, <1>2, SizeIs DEF InBlocks, Types
  <2>2. Size \in Nat
    BY SizeIs
  <2> QED BY <2>1, <2>2
<1>4. Jobs = Asked /\ (Quiet => Jobs = {})
  BY <1>1, <1>2, JobsAre DEF JobsFit
<1>5. flags = {} => Quiet
  BY AskedForms DEF FormsFit
<1>6. screen \in {"files", "copy"} => flags = {} /\ Jobs = {}
  BY <1>1, <1>2, <1>4, <1>5 DEF Protocol
<1>7. screen = "title" => Quiet /\ Jobs = {}
  BY <1>1, <1>2, <1>4 DEF Protocol
<1>8. screen = "game" => saveFile \in Files /\ (Quiet \/ AsksSave)
  BY <1>1, <1>2 DEF Protocol
<1>9. AsksSave => Jobs = {Op("write", saveFile)}
  BY <1>4, AskedForms DEF FormsFit
<1>10. Quiet \/ AsksSave
  BY <1>1, <1>5, <1>6, <1>7, <1>8 DEF Types
<1>11. Quiet => flags \subseteq {6, 9, 10, 11}
  BY DEF Quiet, WriteConfig
<1>12. AsksSave => flags \subseteq {6, 9, 10, 11}
  <2> SUFFICES ASSUME AsksSave PROVE flags \subseteq {6, 9, 10, 11}
    OBVIOUS
  <2>1. saveFile \in Files /\ flags \ {9} = {6} \cup Bits(saveFile, 10)
    BY DEF AsksSave, AsksWrite, WriteConfig, WriteSave
  <2>2. saveFile = 0 \/ saveFile = 1 \/ saveFile = 2
    BY <2>1, FileNumbers
  <2>3. Bits(saveFile, 10) \subseteq {10, 11}
    BY <2>2, BitsAre
  <2> QED BY <2>1, <2>3
<1> QED BY <1>2, <1>3, <1>4, <1>6, <1>7, <1>8, <1>9, <1>10, <1>11, <1>12

\* How the flags of one form become those of another.
LEMMA RaiseAll ==
    Quiet /\ flags' = mark_read_all_save_files => AsksAll' /\ flags' \subseteq 0 .. 11
<1> SUFFICES ASSUME flags \subseteq {9}, flags' = flags \cup {3}
             PROVE  AsksAll' /\ flags' \subseteq 0 .. 11
  BY DEF Quiet, mark_read_all_save_files, WriteConfig, ReadAll
<1>1. \A x : x \in flags' <=> x \in flags \/ x = 3
  OBVIOUS
<1>2. \A x : x \in flags => x = 9
  OBVIOUS
<1>4. \A x : x \in flags' \ {9} <=> x = 3
  BY <1>1, <1>2
<1>5. flags' \ {9} = {3}
  BY <1>4
<1>3. flags' \subseteq 0 .. 11
  BY <1>1, <1>2
<1> QED BY <1>5, <1>3 DEF AsksAll, WriteConfig, ReadAll

LEMMA RaiseRead ==
    ASSUME NEW f \in Files, flags = {}, flags' = mark_read_save_file(f)
    PROVE  AsksRead(f)' /\ flags' \subseteq 0 .. 11
<1>1. f = 0 \/ f = 1 \/ f = 2
  BY FileNumbers
<1>2. Bits(f, 8) \subseteq {8, 9}
  BY <1>1, BitsAre
<1>3. flags' = {ReadFile} \cup Bits(f, 8)
  BY DEF mark_read_save_file
<1> QED BY <1>2, <1>3 DEF AsksRead, ReadFile

LEMMA RaiseWrite ==
    ASSUME NEW f \in Files, saveFile' = f, flags \subseteq {6, 9, 10, 11},
           flags' = force_mark_write_save_file(f)
    PROVE  AsksSave' /\ flags' \subseteq 0 .. 11
<1>1. f = 0 \/ f = 1 \/ f = 2
  BY FileNumbers
<1>2. Bits(f, 10) \subseteq {10, 11}
  BY <1>1, BitsAre
<1>3. flags' = (flags \ {10, 11}) \cup {6} \cup Bits(f, 10)
  BY DEF force_mark_write_save_file, WriteSave
<1>4. flags' \ {9} = {6} \cup Bits(f, 10)
  <2>1. \A x \in flags' : x = 9 \/ x = 6 \/ x \in Bits(f, 10)
    BY <1>3
  <2>2. \A x \in Bits(f, 10) : x # 9
    BY <1>2
  <2>3. 6 \in flags' /\ Bits(f, 10) \subseteq flags'
    BY <1>3
  <2> QED BY <2>1, <2>2, <2>3
<1>5. flags' \subseteq 0 .. 11
  <2>1. \A x \in flags' : x \in flags \/ x = 6 \/ x \in Bits(f, 10)
    BY <1>3
  <2>2. \A x \in flags : x = 6 \/ x = 9 \/ x = 10 \/ x = 11
    OBVIOUS
  <2>3. \A x \in Bits(f, 10) : x = 10 \/ x = 11
    BY <1>2
  <2>4. \A x \in flags' : x = 6 \/ x = 9 \/ x = 10 \/ x = 11
    BY <2>1, <2>2, <2>3
  <2> QED BY <2>4
<1> QED BY <1>4, <1>5 DEF AsksSave, AsksWrite, WriteSave, WriteConfig

LEMMA RaiseErase ==
    ASSUME NEW f \in Files, saveFile' = f, flags' = mark_save_file_to_erase(f)
    PROVE  AsksWipe' /\ flags' \subseteq 0 .. 11
<1>1. f = 0 \/ f = 1 \/ f = 2
  BY FileNumbers
<1>2. Bits(f, 10) \subseteq {10, 11}
  BY <1>1, BitsAre
<1>3. flags' = {7} \cup Bits(f, 10)
  BY DEF mark_save_file_to_erase, EraseSave
<1> QED BY <1>2, <1>3 DEF AsksWipe, AsksErase, EraseSave

LEMMA RaiseConfig ==
    flags' = mark_write_eeprom_settings /\ saveFile' = saveFile =>
       (Quiet => Quiet') /\ (AsksSave => AsksSave')
<1> SUFFICES ASSUME flags' = flags \cup {9}, saveFile' = saveFile
             PROVE  (Quiet => Quiet') /\ (AsksSave => AsksSave')
  BY DEF mark_write_eeprom_settings, WriteConfig
<1>1. Quiet => Quiet'
  BY DEF Quiet, WriteConfig
<1>2. flags' \ {9} = flags \ {9}
  OBVIOUS
<1>3. AsksSave => AsksSave'
  BY <1>2 DEF AsksSave, AsksWrite, WriteConfig
<1> QED BY <1>1, <1>3

LEMMA ShownStays ==
    /\ Shown /\ Jobs' = Jobs /\ image'.file = image.file
    /\ UNCHANGED <<screen, saveFile, started, settings, block>>
    => Shown'
<1> SUFFICES ASSUME Shown, Jobs' = Jobs, image'.file = image.file,
                    UNCHANGED <<screen, saveFile, started, settings, block>>
             PROVE  Shown'
  OBVIOUS
<1>1. JobsDone'
  BY DEF Shown, JobsDone
<1>2. FilesShown'
  BY DEF Shown, FilesShown
<1>3. MenuJobs'
  BY DEF Shown, MenuJobs
<1>4. GameGoesOn'
  BY DEF Shown, GameGoesOn
<1> QED BY <1>1, <1>2, <1>3, <1>4 DEF Shown

\* A frame ends, in the same screen or behind it.
LEMMA FrameEnds ==
    Control /\ Shown /\ (EndFrame \/ LeaveFiles \/ CopyBack \/ QuitGame) => Control' /\ Shown'
<1> SUFFICES ASSUME Control, Shown, EndFrame \/ LeaveFiles \/ CopyBack \/ QuitGame
             PROVE  Control' /\ Shown'
  OBVIOUS
<1>1. /\ UNCHANGED <<todo, block, config, loaded, faulted, present, flags, settings>>
      /\ UNCHANGED <<saveFile, started, image>>
      /\ inLogic' = FALSE /\ Logic
      /\ \/ screen' = screen
         \/ screen \in {"files", "game"} /\ screen' = "title"
         \/ screen = "copy" /\ screen' = "files"
  BY DEF EndFrame, LeaveFiles, CopyBack, QuitGame, NextFrame, menus, storage
<1>2. /\ todo = <<>> /\ block = 1 /\ loaded /\ Jobs = Asked
      /\ screen \in {"files", "copy"} => flags = {} /\ Jobs = {}
      /\ screen = "title" => Quiet
      /\ screen = "game" => saveFile \in Files /\ (Quiet \/ AsksSave)
  BY <1>1, InLogicIs
<1>3. Types /\ Protocol
  BY DEF Control
<1>4. /\ Quiet' <=> Quiet
      /\ AsksSave' <=> AsksSave
      /\ Asked' = Asked
  BY <1>1, FlagsStay
<1>5. flags = {} => Quiet
  BY AskedForms DEF FormsFit
<1>6. Types'
  BY <1>1, <1>3 DEF Types
<1>7. Protocol'
  BY <1>1, <1>2, <1>4, <1>5, <1>3 DEF Protocol, Types
<1>8. Control'
  BY <1>1, <1>2, <1>6, <1>7 DEF Control, InBlocks
<1>9. Jobs' = Jobs
  BY <1>1, <1>2, <1>4, <1>6, <1>7, JobsNext
<1>10. Shown'
  <2>1. CASE screen' = screen
    BY <1>1, <1>9, <2>1, ShownStays
  <2>2. CASE screen' # screen
    <3>1. JobsDone'
      BY <1>1, <1>9 DEF Shown, JobsDone
    <3>2. FilesShown'
      BY <1>1, <1>9, <2>2 DEF Shown, FilesShown
    <3>3. MenuJobs' /\ GameGoesOn'
      BY <1>1, <1>2, <1>9, <2>2 DEF MenuJobs, GameGoesOn
    <3> QED BY <3>1, <3>2, <3>3 DEF Shown
  <2> QED BY <2>1, <2>2
<1> QED BY <1>8, <1>10

\* The jobs of the next state, by what the frame's logic asks for.
LEMMA LogicNext ==
    Types' /\ Protocol' /\ todo' = <<>> /\ block' = 1 => Control' /\ Jobs' = Asked'
<1> SUFFICES ASSUME Types', Protocol', todo' = <<>>, block' = 1
             PROVE  Control' /\ Jobs' = Asked'
  OBVIOUS
<1>1. Jobs' = Asked'
  BY JobsNext
<1>2. PICK q : q = todo'
  OBVIOUS
<1>3. Queued(q)
  BY <1>2, QueueEmpty
<1>4. Queued(todo')
  BY <1>2, <1>3
<1>5. Control'
  BY <1>4 DEF Control, InBlocks
<1> QED BY <1>1, <1>5

\* Nothing written yet, all may still be.
LEMMA NotBegun ==
    ASSUME NEW file, NEW save \in Sound
    PROVE  /\ PartOf(file, save, 0) <=> Below(file, save)
           /\ Wiped(file, 0)
           /\ \A later \in Sound : Leads(save, later) /\ Below(file, save) => Below(file, later)
<1>1. FileOf(save) \in File
  BY SaveIs, FileOfIs
<1>2. PICK new \in File : new = FileOf(save)
  BY <1>1
<1>3. \A old \in File : Mixed(old, new, 0) = old
  BY DEF Mixed
<1>4. Below(file, save) => file \in File
  BY BelowIs
<1>5. PartOf(file, save, 0) <=> Below(file, save)
  BY <1>2, <1>3, <1>4 DEF PartOf
<1>6. Wiped(file, 0)
  BY SizeIs DEF Wiped
<1>7. ASSUME NEW later \in Sound, Leads(save, later), Below(file, save)
      PROVE  Below(file, later)
  <2>1. CASE Clean(file)
    BY <2>1 DEF Below
  <2>2. CASE ~Clean(file)
    <3>1. PICK old \in Sound : file = FileOf(old) /\ Leads(old, save)
      BY <1>7, <2>2 DEF Below
    <3>2. old \in Settings /\ save \in Settings /\ later \in Settings
      BY SaveIs
    <3>3. Leads(old, later)
      BY <1>7, <3>1, <3>2, LeadsIs
    <3> QED BY <3>1, <3>3 DEF Below
  <2> QED BY <2>1, <2>2
<1> QED BY <1>5, <1>6, <1>7

LEMMA OpensFiles == Control /\ Shown /\ OpenFiles => Control' /\ Shown'
<1> SUFFICES ASSUME Control, Shown, OpenFiles PROVE Control' /\ Shown'
  OBVIOUS
<1>1. /\ UNCHANGED <<todo, block, config, loaded, faulted, present, settings, saveFile, started, image>>
      /\ inLogic' = FALSE /\ Logic /\ screen = "title" /\ screen' = "files"
      /\ flags' = mark_read_all_save_files
  BY DEF OpenFiles, NextFrame, storage
<1>2. todo = <<>> /\ block = 1 /\ loaded /\ Quiet
  BY <1>1, InLogicIs
<1>3. AsksAll' /\ flags' \subseteq 0 .. 11
  BY <1>1, <1>2, RaiseAll
<1>4. Types'
  BY <1>1, <1>3 DEF Control, Types
<1>5. Protocol'
  BY <1>1, <1>2, <1>3 DEF Protocol
<1>6. Control' /\ Jobs' = [op : {"readAll"}, file : Files]
  BY <1>1, <1>2, <1>3, <1>4, <1>5, LogicNext, AskedFormsNext
<1>7. PICK jobs : jobs = Jobs'
  OBVIOUS
<1>8. /\ \A k, f : Op(k, f) \in jobs => k = "readAll"
      /\ \A f \in Files : Op("readAll", f) \in jobs
  BY <1>6, <1>7 DEF Op
<1>9. JobsDone'
  BY <1>7, <1>8 DEF JobsDone
<1>10. FilesShown'
  <2>1. \A f \in Files :
           Op("readAll", f) \in jobs \cap [op : {"readAll", "erase", "clean", "write"}, file : {f}]
    BY <1>8 DEF Op
  <2> QED BY <1>7, <1>8, <2>1 DEF FilesShown
<1>11. MenuJobs'
  <2>1. jobs \subseteq [op : {"readAll", "clean", "erase", "write"}, file : Files]
    BY <1>6, <1>7
  <2> QED BY <1>1, <1>7, <2>1 DEF MenuJobs
<1>12. GameGoesOn'
  BY <1>1 DEF GameGoesOn
<1> QED BY <1>6, <1>9, <1>10, <1>11, <1>12 DEF Shown

LEMMA PicksFile ==
    ASSUME NEW f \in Files PROVE Control /\ Shown /\ PickFile(f) => Control' /\ Shown'
<1> SUFFICES ASSUME Control, Shown, PickFile(f) PROVE Control' /\ Shown'
  OBVIOUS
<1>1. /\ UNCHANGED <<todo, block, config, loaded, faulted, present, started, image>>
      /\ inLogic' = FALSE /\ Logic /\ screen = "files" /\ screen' = "game" /\ saveFile' = f
      /\ flags' = mark_read_save_file(f)
      /\ IF f \in started THEN settings' = settings
         ELSE \E n \in Names : settings' = [settings EXCEPT !.name = n]
  BY DEF PickFile, NextFrame, storage
<1>2. todo = <<>> /\ block = 1 /\ loaded /\ flags = {} /\ Jobs = {}
  BY <1>1, InLogicIs
<1>3. AsksRead(f)' /\ flags' \subseteq 0 .. 11
  BY <1>1, <1>2, RaiseRead
<1>4. AsksGame'
  BY <1>1, <1>3 DEF AsksGame, AsksRead
<1>5. settings \in Settings /\ started \subseteq Files
  BY DEF Control, Types
<1>6. settings' \in Settings /\ (f \notin started => settings'.name \in Names)
  <2>1. CASE f \in started
    BY <1>1, <1>5, <2>1
  <2>2. CASE f \notin started
    <3>1. PICK n \in Names : settings' = [settings EXCEPT !.name = n]
      BY <1>1, <2>2
    <3> QED BY <1>5, <3>1 DEF Settings
  <2> QED BY <2>1, <2>2
<1>7. Types'
  BY <1>1, <1>3, <1>6 DEF Control, Types
<1>8. Protocol'
  BY <1>1, <1>2, <1>4 DEF Protocol
<1>9. Control' /\ Jobs' = {Op("read", f)}
  BY <1>1, <1>2, <1>4, <1>7, <1>8, LogicNext, AskedFormsNext
<1>10. PICK jobs : jobs = Jobs'
  OBVIOUS
<1>11. Op("read", f) \in jobs /\ \A k, g : Op(k, g) \in jobs => k = "read"
  BY <1>9, <1>10 DEF Op
<1>12. JobsDone'
  BY <1>10, <1>11 DEF JobsDone
<1>13. FilesShown' /\ MenuJobs'
  BY <1>1 DEF FilesShown, MenuJobs
<1>14. IF f \in started THEN Good(image.file[f]) ELSE Clean(image.file[f])
  BY <1>1, <1>2 DEF Shown, FilesShown
<1>15. GameGoesOn'
  <2>1. jobs \subseteq [op : {"read", "clean", "write"}, file : {f}]
    BY <1>9, <1>10 DEF Op
  <2>2. \/ Good(image.file[f])
        \/ Clean(image.file[f]) /\ settings'.name \in Names
    BY <1>6, <1>14
  <2>3. /\ jobs \subseteq [op : {"read", "clean", "write"}, file : {saveFile'}]
        /\ \/ Good(image'.file[saveFile'])
           \/ Clean(image'.file[saveFile']) /\ settings'.name \in Names
    BY <1>1, <2>1, <2>2
  <2>4. Op("clean", saveFile') \notin jobs /\ jobs # {}
    BY <1>11
  <2> QED BY <1>10, <2>3, <2>4 DEF GameGoesOn
<1> QED BY <1>9, <1>12, <1>13, <1>15 DEF Shown

LEMMA CopiesFrom ==
    ASSUME NEW f \in Files PROVE Control /\ Shown /\ CopyFrom(f) => Control' /\ Shown'
<1> SUFFICES ASSUME Control, Shown, CopyFrom(f) PROVE Control' /\ Shown'
  OBVIOUS
<1>1. /\ UNCHANGED <<todo, block, config, loaded, faulted, present, settings, saveFile, started, image>>
      /\ inLogic' = FALSE /\ Logic /\ screen = "files" /\ screen' = "copy"
      /\ f \in started /\ flags' = mark_read_save_file(f)
  BY DEF CopyFrom, NextFrame, storage
<1>2. todo = <<>> /\ block = 1 /\ loaded /\ flags = {} /\ Jobs = {}
  BY <1>1, InLogicIs
<1>3. AsksRead(f)' /\ flags' \subseteq 0 .. 11
  BY <1>1, <1>2, RaiseRead
<1>4. AsksCopy'
  BY <1>1, <1>3 DEF AsksCopy, AsksRead
<1>5. Types'
  BY <1>1, <1>3 DEF Control, Types
<1>6. Protocol'
  BY <1>1, <1>2, <1>4 DEF Protocol
<1>7. Control' /\ \E g \in started : Jobs' = {Op("read", g)}
  BY <1>1, <1>2, <1>4, <1>5, <1>6, LogicNext, AskedFormsNext
<1>8. PICK g \in started : Jobs' = {Op("read", g)}
  BY <1>7
<1>9. PICK jobs : jobs = Jobs'
  OBVIOUS
<1>10. Op("read", g) \in jobs /\ \A k, h : Op(k, h) \in jobs => k = "read"
  BY <1>8, <1>9 DEF Op
<1>11. JobsDone'
  BY <1>9, <1>10 DEF JobsDone
<1>12. FilesShown'
  <2>1. \A h \in Files : IF h \in started THEN Good(image.file[h]) ELSE Clean(image.file[h])
    BY <1>1, <1>2 DEF Shown, FilesShown
  <2> QED BY <1>1, <1>9, <1>10, <2>1 DEF FilesShown
<1>13. MenuJobs'
  <2>1. jobs \subseteq [op : {"read"}, file : started] /\ jobs # {}
    BY <1>8, <1>9 DEF Op
  <2> QED BY <1>1, <1>9, <2>1 DEF MenuJobs
<1>14. GameGoesOn'
  BY <1>1 DEF GameGoesOn
<1> QED BY <1>7, <1>11, <1>12, <1>13, <1>14 DEF Shown

LEMMA CopiesTo ==
    ASSUME NEW f \in Files PROVE Control /\ Shown /\ CopyTo(f) => Control' /\ Shown'
<1> SUFFICES ASSUME Control, Shown, CopyTo(f) PROVE Control' /\ Shown'
  OBVIOUS
<1>1. /\ UNCHANGED <<todo, block, config, loaded, faulted, present, settings, image>>
      /\ inLogic' = FALSE /\ Logic /\ screen = "copy" /\ screen' = "files"
      /\ f \notin started /\ saveFile' = f /\ started' = started \cup {f}
      /\ flags' = force_mark_write_save_file(f)
  BY DEF CopyTo, NextFrame, storage
<1>2. todo = <<>> /\ block = 1 /\ loaded /\ flags = {} /\ Jobs = {}
  BY <1>1, InLogicIs
<1>3. AsksSave' /\ flags' \subseteq 0 .. 11
  BY <1>1, <1>2, RaiseWrite
<1>4. Types'
  BY <1>1, <1>3 DEF Control, Types
<1>5. Protocol'
  BY <1>1, <1>2, <1>3 DEF Protocol
<1>6. Control' /\ Jobs' = {Op("write", f)}
  BY <1>1, <1>2, <1>3, <1>4, <1>5, LogicNext, AskedFormsNext
<1>7. PICK jobs : jobs = Jobs'
  OBVIOUS
<1>8. Op("write", f) \in jobs /\ \A k, h : Op(k, h) \in jobs => k = "write" /\ h = f
  BY <1>6, <1>7 DEF Op
<1>9. settings \in Sound
  BY <1>1, <1>2 DEF Shown, MenuJobs
<1>10. \A h \in Files : IF h \in started THEN Good(image.file[h]) ELSE Clean(image.file[h])
  BY <1>1, <1>2 DEF Shown, FilesShown
<1>11. JobsDone'
  <2>1. Below(image.file[f], settings)
    BY <1>1, <1>10 DEF Below
  <2>2. PartOf(image.file[f], settings, 0)
    BY <1>9, <2>1, NotBegun
  <2>3. /\ f = saveFile' /\ settings' \in Sound
        /\ PartOf(image'.file[f], settings', block' - 1)
    BY <1>1, <1>2, <1>9, <2>2
  <2> QED BY <1>7, <1>8, <2>3 DEF JobsDone
<1>12. FilesShown'
  <2>1. \A h \in Files : h # f =>
           IF h \in started' THEN Good(image'.file[h]) ELSE Clean(image'.file[h])
    BY <1>1, <1>10
  <2>2. Op("write", f) \in jobs \cap [op : {"readAll", "erase", "clean", "write"}, file : {f}]
    BY <1>8 DEF Op
  <2>3. f \in started'
    BY <1>1
  <2> QED BY <1>7, <1>8, <2>1, <2>2, <2>3 DEF FilesShown
<1>13. MenuJobs'
  <2>1. jobs \subseteq [op : {"readAll", "clean", "erase", "write"}, file : Files]
    BY <1>6, <1>7 DEF Op
  <2> QED BY <1>1, <1>7, <2>1 DEF MenuJobs
<1>14. GameGoesOn'
  BY <1>1 DEF GameGoesOn
<1> QED BY <1>6, <1>11, <1>12, <1>13, <1>14 DEF Shown

LEMMA ErasesFile ==
    ASSUME NEW f \in Files PROVE Control /\ Shown /\ EraseFile(f) => Control' /\ Shown'
<1> SUFFICES ASSUME Control, Shown, EraseFile(f) PROVE Control' /\ Shown'
  OBVIOUS
<1>1. /\ UNCHANGED <<todo, block, config, loaded, faulted, present, settings, screen, image>>
      /\ inLogic' = FALSE /\ Logic /\ screen = "files"
      /\ f \in started /\ saveFile' = f /\ started' = started \ {f}
      /\ flags' = mark_save_file_to_erase(f)
  BY DEF EraseFile, NextFrame, storage
<1>2. todo = <<>> /\ block = 1 /\ loaded /\ flags = {} /\ Jobs = {}
  BY <1>1, InLogicIs
<1>3. AsksWipe' /\ flags' \subseteq 0 .. 11
  BY <1>1, <1>2, RaiseErase
<1>4. Types'
  BY <1>1, <1>3 DEF Control, Types
<1>5. Protocol'
  BY <1>1, <1>2, <1>3 DEF Protocol
<1>6. Control' /\ Jobs' = {Op("erase", f)}
  BY <1>1, <1>2, <1>3, <1>4, <1>5, LogicNext, AskedFormsNext
<1>7. PICK jobs : jobs = Jobs'
  OBVIOUS
<1>8. Op("erase", f) \in jobs /\ \A k, h : Op(k, h) \in jobs => k = "erase" /\ h = f
  BY <1>6, <1>7 DEF Op
<1>9. \A h \in Files : IF h \in started THEN Good(image.file[h]) ELSE Clean(image.file[h])
  BY <1>1, <1>2 DEF Shown, FilesShown
<1>10. JobsDone'
  <2>1. Wiped(image.file[f], 0)
    BY SizeIs DEF Wiped
  <2>2. Wiped(image'.file[f], block' - 1)
    BY <1>1, <1>2, <2>1
  <2> QED BY <1>7, <1>8, <2>2 DEF JobsDone
<1>11. FilesShown'
  <2>1. \A h \in Files : h # f =>
           IF h \in started' THEN Good(image'.file[h]) ELSE Clean(image'.file[h])
    BY <1>1, <1>9
  <2>2. Op("erase", f) \in jobs \cap [op : {"readAll", "erase", "clean", "write"}, file : {f}]
    BY <1>8 DEF Op
  <2>3. f \notin started'
    BY <1>1
  <2> QED BY <1>7, <1>8, <2>1, <2>2, <2>3 DEF FilesShown
<1>12. MenuJobs'
  <2>1. jobs \subseteq [op : {"readAll", "clean", "erase", "write"}, file : Files]
    BY <1>6, <1>7 DEF Op
  <2> QED BY <1>1, <1>7, <2>1 DEF MenuJobs
<1>13. GameGoesOn'
  BY <1>1 DEF GameGoesOn
<1> QED BY <1>6, <1>10, <1>11, <1>12, <1>13 DEF Shown

\* In the game what is in the file may be written over.
LEMMA GameBelow ==
    Control /\ Shown /\ Logic /\ screen = "game" =>
       settings \in Sound /\ Below(image.file[saveFile], settings)
<1> SUFFICES ASSUME Control, Shown, Logic, screen = "game"
             PROVE  settings \in Sound /\ Below(image.file[saveFile], settings)
  OBVIOUS
<1>1. /\ todo = <<>> /\ block = 1 /\ saveFile \in Files
      /\ Jobs = {} \/ Jobs = {Op("write", saveFile)}
  BY InLogicIs
<1>2. CASE Jobs = {}
  BY <1>2 DEF Shown, GameGoesOn
<1>3. CASE Jobs = {Op("write", saveFile)}
  <2>1. settings \in Sound /\ PartOf(image.file[saveFile], settings, 0)
    BY <1>1, <1>3 DEF Shown, JobsDone
  <2> QED BY <2>1, NotBegun
<1> QED BY <1>1, <1>2, <1>3

\* The game's file may be written over, and that is all that may be asked for.
LEMMA GameShown ==
    ASSUME screen' = "game", saveFile' \in Files, block' = 1, settings' \in Sound,
           Below(image'.file[saveFile'], settings'),
           Jobs' = {} \/ Jobs' = {Op("write", saveFile')}
    PROVE  Shown'
<1>1. PICK jobs : jobs = Jobs'
  OBVIOUS
<1>2. PICK f \in Files : f = saveFile'
  OBVIOUS
<1>3. \A k, h : Op(k, h) \in jobs => k = "write" /\ h = f
  BY <1>1, <1>2 DEF Op
<1>4. PartOf(image'.file[f], settings', 0)
  BY <1>2, NotBegun
<1>5. JobsDone'
  <2>1. PartOf(image'.file[f], settings', block' - 1)
    BY <1>4
  <2> QED BY <1>1, <1>2, <1>3, <2>1 DEF JobsDone
<1>6. FilesShown' /\ MenuJobs'
  BY DEF FilesShown, MenuJobs
<1>7. GameGoesOn'
  <2>1. jobs \subseteq [op : {"read", "clean", "write"}, file : {f}]
    BY <1>1, <1>2 DEF Op
  <2> QED BY <1>1, <1>2, <1>3, <2>1 DEF GameGoesOn
<1> QED BY <1>5, <1>6, <1>7 DEF Shown

LEMMA Advances == Control /\ Shown /\ Advance => Control' /\ Shown'
<1> SUFFICES ASSUME Control, Shown, Advance PROVE Control' /\ Shown'
  OBVIOUS
<1>1. /\ UNCHANGED <<flags, todo, block, inLogic, config, screen, saveFile, started>>
      /\ UNCHANGED <<image, loaded, faulted, present>>
      /\ Logic /\ screen = "game" /\ settings' \in Sound /\ Leads(settings, settings')
  BY SaveIs DEF Advance, menus, storage
<1>2. /\ todo = <<>> /\ block = 1 /\ loaded /\ Jobs = Asked /\ saveFile \in Files
      /\ Jobs = {} \/ Jobs = {Op("write", saveFile)}
  BY <1>1, InLogicIs
<1>3. /\ Quiet' <=> Quiet
      /\ AsksSave' <=> AsksSave
      /\ AsksGame' <=> AsksGame
      /\ Asked' = Asked
  BY <1>1, FlagsStay
<1>4. settings' \in Settings
  BY <1>1, SaveIs
<1>5. Types'
  BY <1>1, <1>4 DEF Control, Types
<1>6. Protocol'
  BY <1>1, <1>2, <1>3 DEF Control, Protocol
<1>7. Control' /\ Jobs' = Jobs
  BY <1>1, <1>2, <1>3, <1>5, <1>6, LogicNext
<1>8. PICK later \in Sound : later = settings'
  BY <1>1
<1>9. settings \in Sound /\ Below(image.file[saveFile], settings)
  BY <1>1, GameBelow
<1>10. Below(image.file[saveFile], later)
  BY <1>1, <1>8, <1>9, NotBegun
<1> QED BY <1>1, <1>2, <1>7, <1>8, <1>10, GameShown

LEMMA SavesProgress == Control /\ Shown /\ SaveProgress => Control' /\ Shown'
<1> SUFFICES ASSUME Control, Shown, SaveProgress PROVE Control' /\ Shown'
  OBVIOUS
<1>1. /\ UNCHANGED <<todo, block, inLogic, settings, config, screen, saveFile, started>>
      /\ UNCHANGED <<image, loaded, faulted, present>>
      /\ Logic /\ screen = "game" /\ flags' = force_mark_write_save_file(saveFile)
  BY DEF SaveProgress, game, menus, storage
<1>2. /\ todo = <<>> /\ block = 1 /\ loaded /\ saveFile \in Files /\ flags \subseteq {6, 9, 10, 11}
  BY <1>1, InLogicIs
<1>3. AsksSave' /\ flags' \subseteq 0 .. 11
  BY <1>1, <1>2, RaiseWrite
<1>4. Types'
  BY <1>1, <1>3 DEF Control, Types
<1>5. Protocol'
  BY <1>1, <1>2, <1>3 DEF Control, Protocol
<1>6. Control' /\ Jobs' = {Op("write", saveFile)}
  BY <1>1, <1>2, <1>3, <1>4, <1>5, LogicNext, AskedFormsNext
<1>7. settings \in Sound /\ Below(image.file[saveFile], settings)
  BY <1>1, GameBelow
<1> QED BY <1>1, <1>2, <1>6, <1>7, GameShown

LEMMA SetsConfig ==
    ASSUME NEW c \in Configs PROVE Control /\ Shown /\ SetConfig(c) => Control' /\ Shown'
<1> SUFFICES ASSUME Control, Shown, SetConfig(c) PROVE Control' /\ Shown'
  OBVIOUS
<1>1. /\ UNCHANGED <<todo, block, inLogic, settings, screen, saveFile, started>>
      /\ UNCHANGED <<image, loaded, faulted, present>>
      /\ Logic /\ screen \in {"title", "game"} /\ flags' = mark_write_eeprom_settings
      /\ config' = c
  BY DEF SetConfig, menus, storage
<1>2. /\ todo = <<>> /\ block = 1 /\ loaded /\ flags \subseteq {6, 9, 10, 11}
      /\ screen = "title" => Quiet /\ Jobs = {}
      /\ screen = "game" => /\ saveFile \in Files
                            /\ \/ Quiet /\ Jobs = {}
                               \/ AsksSave /\ Jobs = {Op("write", saveFile)}
  BY <1>1, InLogicIs
<1>3. (Quiet => Quiet') /\ (AsksSave => AsksSave')
  BY <1>1, RaiseConfig
<1>4. flags' \subseteq 0 .. 11
  <2>1. \A x \in flags' : x \in flags \/ x = 9
    BY <1>1 DEF mark_write_eeprom_settings, WriteConfig
  <2>2. \A x \in flags : x \in 0 .. 11
    BY DEF Control, Types
  <2> QED BY <2>1, <2>2
<1>5. Types'
  BY <1>1, <1>4 DEF Control, Types
<1>6. Protocol'
  BY <1>1, <1>2, <1>3 DEF Control, Protocol
<1>7. Control' /\ Jobs' = Asked'
  BY <1>1, <1>2, <1>5, <1>6, LogicNext
<1>8. Jobs' = Jobs
  BY <1>1, <1>2, <1>3, <1>7, AskedFormsNext
<1>9. Shown'
  BY <1>1, <1>8, ShownStays
<1> QED BY <1>7, <1>9

-----------------------------------------------------------------------------
(* Storage.                                                                *)

\* The first of some media is one of them.
LEMMA FirstIs ==
    ASSUME NEW T \in SUBSET Media, T # {} PROVE First(T) # {} /\ First(T) \subseteq T
<1>1. T \in SUBSET Nat
  <2>1. Cards \subseteq Nat /\ SD \in Nat
    BY Zenon, SaveGameAssumption
  <2> QED BY <2>1 DEF Media
<1> DEFINE R == OpToRel(<, Nat)
<1>2. IsWellFoundedOn(R, Nat)
  BY NatLessThanWellFounded
<1>3. \A a, b \in Nat : <<a, b>> \in R <=> a < b
  BY DEF OpToRel
<1> HIDE DEF R
<1>4. PICK x \in T : \A y \in T : ~ (<<y, x>> \in R)
  BY <1>1, <1>2, WFMin
<1>5. \A y \in T : ~(y < x)
  BY <1>1, <1>3, <1>4
<1>6. \A y \in T : x \in Nat /\ y \in Nat
  BY <1>1
<1>7. \A y \in T : x <= y
  BY <1>5, <1>6
<1> QED BY <1>7 DEF First

\* What Store leaves on the media, and what a boot finds there unless one of
\* them failed.
LEMMA StoreIs ==
    ASSUME NEW new, SaneImage(new), Types, SaneImages, Store(new), present' = present
    PROVE  /\ blob' \in [Media -> Images \cup {NoBlob}]
           /\ \A m \in Media : blob'[m] # NoBlob => SaneImage(blob'[m])
           /\ faulted' \in BOOLEAN /\ (faulted => faulted')
           /\ ~faulted' /\ Stored(Media) \subseteq present =>
                 Stored(Media)' \subseteq present' /\ BootImage' = new
<1>1. PICK bad \in SUBSET present :
         \E torn \in SUBSET {m \in Stored(bad) : \A t \in First(present \ bad) : m < t} :
            /\ {m \in Stored(bad) : \A t \in First(present \ bad) : m < t} # {} => ~faulted
            /\ faulted' = (faulted \/ {m \in Stored(bad) : \A t \in First(present \ bad) : m < t} # {}
                                   \/ First(present \ bad) = {})
            /\ blob' = [m \in Media |->
                          IF m \in First(present \ bad) THEN new
                          ELSE IF m \notin torn THEN blob[m]
                          ELSE IF m \in Cards THEN ErasedImage ELSE NoBlob]
  BY DEF Store
<1>2. PICK target : target = First(present \ bad)
  OBVIOUS
<1>3. PICK hit : hit = {m \in Stored(bad) : \A t \in target : m < t}
  OBVIOUS
<1>4. PICK torn \in SUBSET hit :
         /\ faulted' = (faulted \/ hit # {} \/ target = {})
         /\ blob' = [m \in Media |-> IF m \in target THEN new
                                     ELSE IF m \notin torn THEN blob[m]
                                     ELSE IF m \in Cards THEN ErasedImage ELSE NoBlob]
  BY <1>1, <1>2, <1>3
<1>5. /\ blob \in [Media -> Images \cup {NoBlob}]
      /\ \A m \in Media : blob[m] # NoBlob => SaneImage(blob[m])
  BY DEF SaneImages
<1>6. SaneImage(ErasedImage)
  BY PlainImages
<1>7. new \in Images /\ ErasedImage \in Images /\ new # NoBlob
  BY <1>6, Zenon, BlobAssumption DEF SaneImage
<1>8. ASSUME NEW m \in Media
      PROVE  blob'[m] \in Images \cup {NoBlob} /\ (blob'[m] # NoBlob => SaneImage(blob'[m]))
  <2>1. blob'[m] \in {new, blob[m], ErasedImage, NoBlob}
    BY <1>4
  <2> QED BY <1>5, <1>6, <1>7, <2>1
<1>9. blob' \in [Media -> Images \cup {NoBlob}]
  BY <1>4, <1>8
<1>10. faulted' \in BOOLEAN /\ (faulted => faulted')
  BY <1>4
<1>11. ASSUME ~faulted', Stored(Media) \subseteq present
       PROVE  Stored(Media)' \subseteq present' /\ BootImage' = new
  <2>1. hit = {} /\ target # {}
    BY <1>4, <1>11
  <2>2. PICK t : t \in target
    BY <2>1
  <2>3. t \in present \ bad /\ \A n \in present \ bad : t <= n
    BY <1>2, <2>2 DEF First
  <2>4. Media \subseteq Nat /\ present \subseteq Media
    <3>1. Cards \subseteq Nat /\ SD \in Nat
      BY Zenon, SaveGameAssumption
    <3> QED BY <3>1 DEF Media, Types
  <2>5. \A n \in target : n \in present \ bad /\ \A l \in present \ bad : n <= l
    BY <1>2 DEF First
  <2>6. \A n \in target : n = t
    BY <2>2, <2>3, <2>4, <2>5
  <2>7. \A m \in Media : blob'[m] = IF m = t THEN new ELSE blob[m]
    BY <1>4, <2>1, <2>2, <2>6
  <2>8. \A m \in Media : blob'[m] # NoBlob => m \in present
    BY <1>11, <2>3, <2>7 DEF Stored
  <2>9. Stored(Media)' \subseteq present'
    BY <2>8 DEF Stored
  <2>10. PICK stored : stored = Stored(present)'
    OBVIOUS
  <2>11. stored = {m \in present : blob'[m] # NoBlob}
    BY <2>10 DEF Stored
  <2>12. t \in stored
    BY <1>7, <2>3, <2>4, <2>7, <2>11
  <2>13. ASSUME NEW n \in stored PROVE t <= n
    <3>1. n \in present /\ n \in Nat /\ t \in Nat
      BY <2>3, <2>4, <2>11
    <3>2. CASE n \in bad /\ n # t
      <4>1. blob[n] # NoBlob
        BY <2>4, <2>7, <2>11, <3>1, <3>2
      <4>2. n \in Stored(bad)
        BY <3>2, <4>1 DEF Stored
      <4>3. ~ \A x \in target : n < x
        BY <1>3, <2>1, <4>2
      <4>4. ~(n < t)
        BY <2>6, <4>3
      <4> QED BY <3>1, <4>4
    <3>3. CASE n = t
      BY <3>1, <3>3
    <3>4. CASE n \notin bad
      BY <2>3, <3>1, <3>4
    <3> QED BY <3>2, <3>3, <3>4
  <2>14. \A n \in First(stored) : n = t
    <3> SUFFICES ASSUME NEW n \in First(stored) PROVE n = t
      OBVIOUS
    <3>1. n \in stored /\ n <= t
      BY <2>12 DEF First
    <3>2. n \in Nat /\ t \in Nat
      BY <2>3, <2>4, <2>11, <3>1
    <3>3. t <= n
      BY <2>13, <3>1
    <3> QED BY <3>1, <3>2, <3>3
  <2>15. t \in First(stored)
    BY <2>12, <2>13 DEF First
  <2>16. t = CHOOSE m \in First(stored) : TRUE
    BY <2>14, <2>15
  <2>17. BootImage' = blob'[t]
    <3>1. BootImage' = IF stored = {} THEN ZeroImage
                       ELSE blob'[CHOOSE m \in First(stored) : TRUE]
      BY <2>10 DEF BootImage, Stored, First
    <3> QED BY <2>12, <2>16, <3>1
  <2>18. t \in Media
    BY <2>3, <2>4
  <2> QED BY <2>7, <2>9, <2>17, <2>18
<1> QED BY <1>8, <1>9, <1>10, <1>11

\* What a boot finds does not change with media that hold nothing.
LEMMA BootStays ==
    ASSUME Types, blob' = blob, Stored(present)' = Stored(present)
    PROVE  BootImage' = BootImage
<1>1. PICK stored : stored = Stored(present)
  OBVIOUS
<1>2. BootImage' = IF stored = {} THEN ZeroImage ELSE blob[CHOOSE m \in First(stored) : TRUE]
  BY <1>1 DEF BootImage, First
<1> QED BY <1>1, <1>2 DEF BootImage

LEMMA StorageStays ==
    Types /\ SaneImages /\ BootFinds /\ UNCHANGED <<storage, present>> => SaneImages' /\ BootFinds'
<1> SUFFICES ASSUME Types, SaneImages, BootFinds, UNCHANGED <<image, loaded, blob, faulted, outcome, present>>
             PROVE  SaneImages' /\ BootFinds'
  BY DEF storage
<1>1. SaneImages'
  BY DEF SaneImages
<1>2. Stored(Media)' = Stored(Media) /\ Stored(present)' = Stored(present)
  BY DEF Stored
<1>3. BootImage' = BootImage
  BY <1>2, BootStays
<1>4. BootFinds'
  BY <1>2, <1>3 DEF BootFinds
<1> QED BY <1>1, <1>4

\* The logic of a frame leaves the settings as they are written, or asks for
\* them to be written.
LEMMA ConfigStays ==
    /\ Control /\ ConfigKept /\ Logic
    /\ \/ EndFrame \/ OpenFiles \/ LeaveFiles \/ CopyBack \/ Advance \/ SaveProgress \/ QuitGame
       \/ \E f \in Files : PickFile(f) \/ CopyFrom(f) \/ CopyTo(f) \/ EraseFile(f)
       \/ \E c \in Configs : SetConfig(c)
    => ConfigKept'
<1> SUFFICES ASSUME Control, ConfigKept, Logic,
                    \/ EndFrame \/ OpenFiles \/ LeaveFiles \/ CopyBack
                    \/ Advance \/ SaveProgress \/ QuitGame
                    \/ \E f \in Files : PickFile(f) \/ CopyFrom(f) \/ CopyTo(f) \/ EraseFile(f)
                    \/ \E c \in Configs : SetConfig(c)
             PROVE  ConfigKept'
  OBVIOUS
<1>1. image' = image /\ todo' = todo
  BY DEF EndFrame, OpenFiles, LeaveFiles, CopyBack, Advance, SaveProgress, QuitGame, PickFile,
         CopyFrom, CopyTo, EraseFile, SetConfig, NextFrame, storage
<1>2. HasConfig(todo)' <=> HasConfig(todo)
  BY <1>1 DEF HasConfig
<1>3. EffectiveConfig(image)' = EffectiveConfig(image)
  BY <1>1 DEF EffectiveConfig
<1>4. CASE \E c \in Configs : SetConfig(c)
  <2>1. 9 \in flags'
    BY <1>4 DEF SetConfig, mark_write_eeprom_settings, WriteConfig
  <2> QED BY <2>1 DEF ConfigKept, ConfigAsked, WriteConfig
<1>5. CASE flags = {} /\ config' = config
  <2>1. ~HasConfig(todo)
    <3>1. todo = <<>>
      BY DEF Logic
    <3> QED BY <3>1 DEF HasConfig
  <2>2. config = EffectiveConfig(image)
    BY <1>5, <2>1 DEF ConfigKept, ConfigAsked
  <2> QED BY <1>3, <1>5, <2>2 DEF ConfigKept
<1>6. CASE flags \subseteq flags' /\ config' = config
  <2>1. ConfigAsked => ConfigAsked'
    BY <1>2, <1>6 DEF ConfigAsked
  <2> QED BY <1>3, <1>6, <2>1 DEF ConfigKept
<1>7. CASE SaveProgress
  <2>1. config' = config /\ flags \cap {8, 9} \subseteq flags'
    BY <1>7 DEF SaveProgress, game, force_mark_write_save_file
  <2>2. ConfigAsked => ConfigAsked'
    BY <1>2, <2>1 DEF ConfigAsked, ReadConfig, WriteConfig
  <2> QED BY <1>3, <2>1, <2>2 DEF ConfigKept
<1>8. CASE EndFrame \/ OpenFiles \/ LeaveFiles \/ CopyBack \/ Advance \/ QuitGame
  BY <1>6, <1>8 DEF EndFrame, OpenFiles, LeaveFiles, CopyBack, Advance, QuitGame, NextFrame,
                    mark_read_all_save_files
<1>9. CASE \E f \in Files : PickFile(f) \/ CopyFrom(f) \/ CopyTo(f) \/ EraseFile(f)
  <2>1. screen \in {"files", "copy"} /\ config' = config
    BY <1>9 DEF PickFile, CopyFrom, CopyTo, EraseFile, NextFrame
  <2>2. flags = {}
    BY <2>1, InLogicIs
  <2> QED BY <1>5, <2>1, <2>2
<1> QED BY <1>4, <1>7, <1>8, <1>9

\* The logic of a frame as a whole.
LEMMA LogicSteps ==
    /\ SaveInv
    /\ \/ EndFrame \/ OpenFiles \/ LeaveFiles \/ CopyBack \/ Advance \/ SaveProgress \/ QuitGame
       \/ \E f \in Files : PickFile(f) \/ CopyFrom(f) \/ CopyTo(f) \/ EraseFile(f)
       \/ \E c \in Configs : SetConfig(c)
    => SaveInv'
<1> SUFFICES ASSUME SaveInv,
                    \/ EndFrame \/ OpenFiles \/ LeaveFiles \/ CopyBack
                    \/ Advance \/ SaveProgress \/ QuitGame
                    \/ \E f \in Files : PickFile(f) \/ CopyFrom(f) \/ CopyTo(f) \/ EraseFile(f)
                    \/ \E c \in Configs : SetConfig(c)
             PROVE  SaveInv'
  OBVIOUS
<1>1. Control /\ Shown /\ SaneImages /\ BootFinds /\ ConfigKept /\ Types
  BY DEF SaveInv, Control
<1>2. Control' /\ Shown'
  BY <1>1, FrameEnds, OpensFiles, PicksFile, CopiesFrom, CopiesTo, ErasesFile, Advances,
     SavesProgress, SetsConfig
<1>3. UNCHANGED <<storage, present>> /\ Logic
  BY DEF EndFrame, OpenFiles, LeaveFiles, CopyBack, Advance, SaveProgress, QuitGame, PickFile,
         CopyFrom, CopyTo, EraseFile, SetConfig, NextFrame
<1>4. SaneImages' /\ BootFinds'
  BY <1>1, <1>3, StorageStays
<1>5. ConfigKept'
  BY <1>1, <1>3, ConfigStays
<1> QED BY <1>2, <1>4, <1>5 DEF SaveInv

-----------------------------------------------------------------------------
(* The machine starts, stops and changes its media.                        *)

LEMMA IdleBlock == Control /\ todo = <<>> => block = 1
<1> SUFFICES ASSUME Control, todo = <<>> PROVE block = 1
  OBVIOUS
<1>1. block \in 1 .. Size /\ ~(block > 1)
  BY SizeIs DEF Control, InBlocks, Types
<1>2. Size \in Nat
  BY SizeIs
<1> QED BY <1>1, <1>2

\* What the boot asks for.
LEMMA BootShown ==
    Types' /\ Protocol' /\ todo' = <<>> /\ block' = 1 /\ screen' = "title" /\ AsksBoot' =>
       Control' /\ Shown'
<1> SUFFICES ASSUME Types', Protocol', todo' = <<>>, block' = 1, screen' = "title", AsksBoot'
             PROVE  Control' /\ Shown'
  OBVIOUS
<1>1. Control' /\ Jobs' = {Op("read", 1)}
  BY LogicNext, AskedFormsNext
<1>2. PICK jobs : jobs = Jobs'
  OBVIOUS
<1>3. \A k, h : Op(k, h) \in jobs => k = "read"
  BY <1>1, <1>2 DEF Op
<1>4. JobsDone'
  BY <1>2, <1>3 DEF JobsDone
<1>5. FilesShown' /\ MenuJobs' /\ GameGoesOn'
  BY DEF FilesShown, MenuJobs, GameGoesOn
<1> QED BY <1>1, <1>4, <1>5 DEF Shown

LEMMA BootBits == BootFlags \subseteq 0 .. 11 /\ BootFlags = {ReadFile} \cup Bits(1, 8)
<1>1. Bits(1, 8) = {8}
  BY BitsAre
<1> QED BY <1>1 DEF BootFlags, ReadFile, ReadConfig

\* Whatever has been read from a sane file is what blocks may hold.
LEMMA ReadIs ==
    ASSUME NEW i, SaneImage(i), NEW f \in Files
    PROVE  Read(i.file[f]) \subseteq Data
<1>1. i.file[f] \in File
  BY DEF SaneImage, Sane
<1> QED BY <1>1 DEF File, Read

LEMMA Loads == SaveInv /\ Load => SaveInv'
<1> SUFFICES ASSUME SaveInv, Load PROVE SaveInv'
  OBVIOUS
<1>1. Control /\ SaneImages /\ BootFinds /\ Types /\ Protocol
  BY DEF SaveInv, Control
<1>2. /\ UNCHANGED <<flags, todo, block, inLogic, settings, config, screen, saveFile, started>>
      /\ UNCHANGED <<blob, present>>
      /\ ~loaded /\ loaded' = TRUE
      /\ outcome' = [f \in Files |-> {Read(image'.file[f])}]
  BY DEF Load, game, menus
<1>3. PICK bad \in SUBSET Stored(present) :
         /\ faulted' = (faulted \/ bad # {})
         /\ image' = IF First(Stored(present) \ bad) = {} THEN ZeroImage
                     ELSE blob[CHOOSE m \in First(Stored(present) \ bad) : TRUE]
  BY DEF Load
<1>4. screen = "title" /\ todo = <<>> /\ ~inLogic /\ AsksBoot /\ block = 1
  BY <1>1, <1>2, IdleBlock DEF Protocol
<1>5. AsksBoot'
  BY <1>2, <1>4, FlagsStay
<1>6. Types'
  BY <1>1, <1>2, <1>3 DEF Types
<1>7. Protocol'
  BY <1>2, <1>4, <1>5 DEF Protocol
<1>8. Control' /\ Shown'
  BY <1>2, <1>4, <1>5, <1>6, <1>7, BootShown
<1>9. SaneImage(image')
  <2>1. PICK T \in SUBSET Media : T = Stored(present) \ bad
    BY <1>1 DEF Stored, Types
  <2>2. CASE First(T) = {}
    BY <1>3, <2>1, <2>2, PlainImages
  <2>3. CASE First(T) # {}
    <3>1. PICK m : m = CHOOSE n \in First(T) : TRUE
      OBVIOUS
    <3>2. m \in T
      BY <2>3, <3>1 DEF First
    <3>3. m \in Media /\ blob[m] # NoBlob
      BY <2>1, <3>2 DEF Stored
    <3>4. image' = blob[m]
      BY <1>3, <2>1, <2>3, <3>1
    <3> QED BY <1>1, <3>3, <3>4 DEF SaneImages
  <2> QED BY <2>2, <2>3
<1>10. SaneImages'
  BY <1>1, <1>2, <1>9 DEF SaneImages
<1>11. \A f \in Files : outcome'[f] = {Read(image'.file[f])}
  BY <1>2
<1>12. outcome' \in [Files -> SUBSET SUBSET Data]
  <2>1. \A f \in Files : outcome'[f] \in SUBSET SUBSET Data
    BY <1>9, <1>11, ReadIs
  <2> QED BY <1>2, <2>1
<1>13. ASSUME ~faulted' PROVE Stored(Media)' \subseteq present' /\ BootImage' = image'
  <2>1. ~faulted /\ bad = {}
    BY <1>3, <1>13
  <2>2. Stored(Media)' = Stored(Media) /\ Stored(present)' = Stored(present)
    BY <1>2 DEF Stored
  <2>3. BootImage' = BootImage
    BY <1>1, <1>2, <2>2, BootStays
  <2>4. Stored(Media)' \subseteq present'
    BY <1>1, <1>2, <2>1, <2>2 DEF BootFinds
  <2>5. PICK T \in SUBSET Media : T = Stored(present)
    BY <1>1 DEF Stored, Types
  <2>6. image' = IF First(T) = {} THEN ZeroImage ELSE blob[CHOOSE m \in First(T) : TRUE]
    BY <1>3, <2>1, <2>5
  <2>7. First(T) = {} <=> T = {}
    BY FirstIs DEF First
  <2>8. BootImage = image'
    BY <2>5, <2>6, <2>7 DEF BootImage
  <2> QED BY <2>3, <2>4, <2>8
<1>14. BootFinds'
  BY <1>11, <1>12, <1>13 DEF BootFinds
<1>15. ConfigKept'
  <2>1. 8 \in flags
    BY <1>4, BootBits DEF AsksBoot, AsksRead, BootFlags, ReadConfig
  <2> QED BY <1>2, <2>1 DEF ConfigKept, ConfigAsked, ReadConfig
<1> QED BY <1>8, <1>10, <1>14, <1>15 DEF SaveInv

LEMMA LosesPower == SaveInv /\ LosePower => SaveInv'
<1> SUFFICES ASSUME SaveInv, LosePower PROVE SaveInv'
  OBVIOUS
<1>1. Control /\ SaneImages /\ BootFinds /\ Types
  BY DEF SaveInv, Control
<1>2. /\ flags' = BootFlags /\ todo' = <<>> /\ block' = 1 /\ inLogic' = FALSE
      /\ settings' = New /\ config' = Default
      /\ screen' = "title" /\ saveFile' = 0 /\ started' = {}
      /\ image' = ZeroImage /\ loaded' = FALSE
      /\ UNCHANGED <<outcome, present>>
  BY DEF LosePower
<1>3. PICK cut :
         /\ faulted' = (faulted \/ cut # {})
         /\ blob' = [m \in Media |-> IF m \notin cut THEN blob[m]
                                     ELSE IF m \in Cards THEN ErasedImage ELSE NoBlob]
  BY DEF LosePower
<1>4. AsksBoot'
  BY <1>2, BootBits, FileNumbers DEF AsksBoot, AsksRead
<1>5. Types'
  <2>1. Default \in Configs
    BY Zenon, SaveGameAssumption
  <2>2. 1 \in Blocks
    BY SizeIs
  <2> QED BY <1>1, <1>2, <1>3, <2>1, <2>2, BootBits, NewIs DEF Types
<1>6. Protocol'
  BY <1>2, <1>4 DEF Protocol
<1>7. Control' /\ Shown'
  BY <1>2, <1>4, <1>5, <1>6, BootShown
<1>8. SaneImages'
  <2>1. \A m \in Media : blob'[m] \in {blob[m], ErasedImage, NoBlob}
    BY <1>3
  <2>2. ErasedImage \in Images /\ SaneImage(ErasedImage) /\ SaneImage(ZeroImage)
    BY PlainImages DEF SaneImage
  <2>3. \A m \in Media : blob[m] \in Images \cup {NoBlob} /\ (blob[m] # NoBlob => SaneImage(blob[m]))
    BY <1>1 DEF SaneImages
  <2>4. \A m \in Media : blob'[m] \in Images \cup {NoBlob} /\ (blob'[m] # NoBlob => SaneImage(blob'[m]))
    BY <2>1, <2>2, <2>3
  <2>5. blob' \in [Media -> Images \cup {NoBlob}]
    BY <1>3, <2>4
  <2> QED BY <1>2, <2>2, <2>4, <2>5 DEF SaneImages
<1>9. BootFinds'
  <2>1. ASSUME ~faulted' PROVE Stored(Media)' = Stored(Media) /\ BootImage' = BootImage
    <3>1. cut = {}
      BY <1>3, <2>1
    <3>2. blob' = blob
      BY <1>1, <1>3, <3>1 DEF SaneImages
    <3>3. Stored(Media)' = Stored(Media) /\ Stored(present)' = Stored(present)
      BY <1>2, <3>2 DEF Stored
    <3> QED BY <1>1, <3>2, <3>3, BootStays
  <2>2. ~faulted' => ~faulted
    BY <1>3
  <2> QED BY <1>1, <1>2, <2>1, <2>2 DEF BootFinds
<1>10. ConfigKept'
  BY <1>2 DEF ConfigKept, ConfigAsked, BootFlags
<1> QED BY <1>7, <1>8, <1>9, <1>10 DEF SaveInv

LEMMA MediaChange ==
    ASSUME NEW m \in Media PROVE SaveInv /\ (PutIn(m) \/ TakeOut(m)) => SaveInv'
<1> SUFFICES ASSUME SaveInv, PutIn(m) \/ TakeOut(m) PROVE SaveInv'
  OBVIOUS
<1>1. Control /\ Shown /\ SaneImages /\ BootFinds /\ ConfigKept /\ Types
  BY DEF SaveInv, Control
<1>2. /\ UNCHANGED <<flags, todo, block, inLogic, settings, config, screen, saveFile, started>>
      /\ UNCHANGED <<image, loaded, blob, outcome>>
      /\ \/ m \notin present /\ present' = present \cup {m} /\ faulted' = faulted
         \/ present' = present \ {m} /\ faulted' = (faulted \/ blob[m] # NoBlob)
  BY DEF PutIn, TakeOut, game, menus, storage
<1>3. Types'
  BY <1>1, <1>2 DEF Types
<1>4. Protocol' /\ Queued(todo)' /\ InBlocks'
  <2>1. Protocol'
    BY <1>1, <1>2, FlagsStay DEF Control, Protocol
  <2>2. Queued(todo)' /\ InBlocks'
    BY <1>1, <1>2 DEF Control, InBlocks, Queued
  <2> QED BY <2>1, <2>2
<1>5. Control'
  BY <1>3, <1>4 DEF Control
<1>6. Jobs' = Jobs
  BY <1>2, FlagsStay DEF Jobs, FileOpsOf
<1>7. Shown'
  BY <1>1, <1>2, <1>6, ShownStays
<1>8. SaneImages'
  BY <1>1, <1>2 DEF SaneImages
<1>9. BootFinds'
  <2>1. ASSUME ~faulted'
        PROVE  Stored(Media)' \subseteq present' /\ BootImage' = BootImage /\ ~faulted
    <3>5. ~faulted
      BY <1>2, <2>1
    <3>1. ~faulted /\ Stored(Media) \subseteq present
      BY <1>1, <3>5 DEF BootFinds
    <3>2. blob[m] = NoBlob
      BY <1>2, <2>1, <3>1 DEF Stored
    <3>3. Stored(present)' = Stored(present)
      BY <1>2, <3>2 DEF Stored
    <3>4. Stored(Media)' \subseteq present'
      BY <1>2, <3>1, <3>2 DEF Stored
    <3> QED BY <1>1, <1>2, <3>1, <3>3, <3>4, BootStays
  <2> QED BY <1>1, <1>2, <2>1 DEF BootFinds
<1>10. ConfigKept'
  BY <1>1, <1>2 DEF ConfigKept, ConfigAsked, HasConfig, EffectiveConfig
<1> QED BY <1>5, <1>7, <1>8, <1>9, <1>10 DEF SaveInv

-----------------------------------------------------------------------------
(* input_update takes the requests and reads.                              *)

LEMMA TakesRequests == SaveInv /\ TakeRequests => SaveInv'
<1> SUFFICES ASSUME SaveInv, TakeRequests PROVE SaveInv'
  OBVIOUS
<1>1. /\ Control /\ Shown /\ SaneImages /\ BootFinds /\ ConfigKept
      /\ Types /\ Protocol
  BY DEF SaveInv, Control
<1>2. /\ UNCHANGED <<block, settings, config, screen, saveFile, started>>
      /\ UNCHANGED <<storage, present, image, loaded, faulted>>
      /\ loaded /\ todo = <<>> /\ todo' = Requests /\ flags' = {} /\ inLogic' = TRUE
  BY DEF TakeRequests, game, menus, storage
<1>3. /\ Queued(Requests) /\ FileOpsOf(Requests) = Asked
      /\ flags \cap {ReadConfig, WriteConfig} # {} => HasConfig(Requests)
  BY <1>1, FormsHold, RequestsAre
<1>4. PICK q : q = Requests
  OBVIOUS
<1>5. Types'
  BY <1>1, <1>2 DEF Types
<1>6. flags' = {} /\ Quiet'
  BY <1>2 DEF Quiet
<1>7. Protocol'
  BY <1>1, <1>2, <1>6 DEF Protocol
<1>8. block' = 1 /\ Queued(q) /\ todo' = q
  BY <1>1, <1>2, <1>3, <1>4, IdleBlock
<1>9. Control'
  BY <1>5, <1>7, <1>8 DEF Control, InBlocks
<1>10. Jobs' = FileOpsOf(q)
  <2>1. CASE q # <<>>
    <3>1. Jobs' = FileOpsOf(todo)'
      BY <1>5, <1>7, <1>8, <2>1, JobsNext
    <3>2. FileOpsOf(todo)' = FileOpsOf(q)
      BY <1>8 DEF FileOpsOf
    <3> QED BY <3>1, <3>2
  <2>2. CASE q = <<>>
    BY <1>5, <1>6, <1>7, <1>8, <2>2, JobsNext, QueueEmpty
  <2> QED BY <2>1, <2>2
<1>11. Jobs' = Jobs
  BY <1>1, <1>2, <1>3, <1>4, <1>10, JobsAre DEF JobsFit
<1>12. Shown'
  BY <1>1, <1>2, <1>11, ShownStays
<1>13. SaneImages' /\ BootFinds'
  BY <1>1, <1>2, StorageStays
<1>14. ConfigKept'
  <2>1. HasConfig(q) => HasConfig(todo)'
    BY <1>8 DEF HasConfig
  <2>2. ~HasConfig(todo)
    BY <1>2 DEF HasConfig
  <2>3. ConfigAsked => ConfigAsked'
    BY <1>3, <1>4, <2>1, <2>2 DEF ConfigAsked
  <2>4. EffectiveConfig(image)' = EffectiveConfig(image)
    BY <1>2 DEF EffectiveConfig
  <2> QED BY <1>1, <1>2, <2>3, <2>4 DEF ConfigKept
<1> QED BY <1>9, <1>12, <1>13, <1>14 DEF SaveInv

\* What serving one operation leaves.
LEMMA ServeNext ==
    ASSUME Control, todo # <<>>, UNCHANGED <<flags, inLogic, screen, saveFile, loaded>>,
           Types', NEW q, Queued(q), todo' = q,
           block' > 1 => q # <<>> /\ Head(q).op \in {"write", "erase", "clean"}
    PROVE  Control' /\ Jobs' = FileOpsOf(q)
<1>1. Types /\ Protocol
  BY DEF Control
<1>2. inLogic /\ flags = {} /\ loaded
  BY <1>1 DEF Protocol
<1>3. flags' = {} /\ Quiet'
  BY <1>2 DEF Quiet
<1>4. Protocol'
  BY <1>1, <1>2, <1>3 DEF Protocol
<1>5. Control'
  BY <1>4 DEF Control, InBlocks
<1>6. CASE q # <<>>
  <2>1. Jobs' = FileOpsOf(todo)'
    BY <1>4, <1>6, JobsNext
  <2>2. FileOpsOf(todo)' = FileOpsOf(q)
    BY DEF FileOpsOf
  <2> QED BY <1>5, <2>1, <2>2
<1>7. CASE q = <<>>
  BY <1>3, <1>4, <1>5, <1>7, JobsNext, QueueEmpty
<1> QED BY <1>6, <1>7

\* The operation that is served.
LEMMA BusyIs ==
    Control /\ todo # <<>> =>
       /\ Types /\ Queued(todo) /\ Jobs = FileOpsOf(todo)
       /\ Head(todo) \in Ops /\ Head(todo) = Op(Head(todo).op, Current)
       /\ Head(todo).op \in FileOps => Current \in Files
       /\ Head(todo).op \in FileOps \ {"write", "erase", "clean"} => block = 1
       /\ Head(todo).op \in ConfigOps => block = 1
<1> SUFFICES ASSUME Control, todo # <<>>
             PROVE  /\ Types /\ Queued(todo) /\ Jobs = FileOpsOf(todo)
                    /\ Head(todo) \in Ops /\ Head(todo) = Op(Head(todo).op, Current)
                    /\ Head(todo).op \in FileOps => Current \in Files
                    /\ Head(todo).op \in FileOps \ {"write", "erase", "clean"} => block = 1
                    /\ Head(todo).op \in ConfigOps => block = 1
  OBVIOUS
<1>1. Types /\ Protocol /\ Queued(todo)
  BY DEF Control
<1>2. Jobs = FileOpsOf(todo)
  BY <1>1, JobsAre DEF JobsFit
<1>3. PICK h : h = Head(todo)
  OBVIOUS
<1>4. h \in Ops
  BY <1>1, <1>3, QueueHead
<1>5. h = Op(h.op, h.file) /\ (h.op \in FileOps => h.file \in Files)
  BY <1>4, OpIs DEF FileOps, ConfigOps
<1>6. h.op \notin {"write", "erase", "clean"} => block = 1
  <2>1. h.op \notin {"write", "erase", "clean"} => ~(block > 1)
    BY <1>3 DEF Control, InBlocks
  <2>2. block \in 1 .. Size /\ Size \in Nat
    BY <1>1, SizeIs DEF Types
  <2> QED BY <2>1, <2>2
<1> QED BY <1>1, <1>2, <1>3, <1>4, <1>5, <1>6 DEF Current, ConfigOps

LEMMA GoodRead ==
    ASSUME NEW file, Good(file)
    PROVE  \E save \in Sound : Read(file) = {save} /\ file = FileOf(save) /\ Below(file, save)
<1>1. PICK save \in Sound : file = FileOf(save)
  BY DEF Good
<1>2. save \in Settings /\ save \in Data
  BY SaveIs
<1>3. Read(file) = {save}
  BY <1>1, <1>2, FileOfIs
<1>4. Below(file, save)
  BY <1>1, <1>2, LeadsIs DEF Below
<1> QED BY <1>1, <1>3, <1>4

\* A sane file that holds progress is a good one.
LEMMA SaneRead ==
    ASSUME NEW file, Sane(file), Read(file) # {}
    PROVE  Good(file)
<1>1. file \in File /\ Read(file) \subseteq Sound
  BY DEF Sane
<1>2. file.sum = Checksum(file.data) /\ file.data \in Sound
  BY <1>1 DEF Read
<1>3. PICK save \in Sound : save = file.data
  BY <1>2
<1>4. file = [sum |-> Checksum(save), data |-> save]
  BY <1>1, <1>2, <1>3 DEF File
<1> QED BY <1>3, <1>4 DEF Good, FileOf

LEMMA ServesReadConfig == SaveInv /\ ServeReadConfig => SaveInv'
<1> SUFFICES ASSUME SaveInv, ServeReadConfig PROVE SaveInv'
  OBVIOUS
<1>1. Control /\ Shown /\ SaneImages /\ BootFinds
  BY DEF SaveInv
<1>2. /\ UNCHANGED <<flags, block, inLogic, settings, screen, saveFile, started>>
      /\ UNCHANGED <<storage, present, image, loaded, faulted>>
      /\ todo # <<>> /\ Head(todo).op = "readConfig" /\ todo' = Tail(todo)
      /\ config' = EffectiveConfig(image)
  BY DEF ServeReadConfig, Busy, menus, storage, EffectiveConfig
<1>3. Types /\ Queued(todo) /\ Jobs = FileOpsOf(todo) /\ block = 1
  BY <1>1, <1>2, BusyIs DEF ConfigOps
<1>4. PICK q : q = Tail(todo)
  OBVIOUS
<1>5. Queued(q) /\ FileOpsOf(q) = FileOpsOf(todo) \ {Head(todo)}
  BY <1>2, <1>3, <1>4, QueueTail
<1>6. Head(todo) \notin FileOpsOf(todo)
  <2>1. FileOpsOf(todo) \subseteq {o \in Ops : o.op \in FileOps}
    BY <1>2, <1>3, QueueHead
  <2> QED BY <1>2, <2>1 DEF FileOps
<1>7. config' \in Configs
  <2>1. image.config \in Configs \cup {NoConfig}
    BY <1>1 DEF SaneImages, SaneImage, Images
  <2>2. Default \in Configs
    BY Zenon, SaveGameAssumption
  <2> QED BY <1>2, <2>1, <2>2 DEF EffectiveConfig
<1>8. Types'
  BY <1>2, <1>3, <1>7 DEF Types
<1>9. Control' /\ Jobs' = FileOpsOf(q)
  <2>1. todo' = q /\ ~(block' > 1)
    BY <1>2, <1>3, <1>4
  <2> QED BY <1>1, <1>2, <1>5, <1>8, <2>1, ServeNext
<1>10. Shown'
  <2>1. Jobs' = Jobs
    BY <1>3, <1>5, <1>6, <1>9
  <2> QED BY <1>1, <1>2, <2>1, ShownStays
<1>11. SaneImages' /\ BootFinds'
  BY <1>1, <1>2, <1>3, StorageStays
<1>12. ConfigKept'
  BY <1>2 DEF ConfigKept, EffectiveConfig
<1> QED BY <1>9, <1>10, <1>11, <1>12 DEF SaveInv

\* Serving an operation on a file leaves the settings' requests.
LEMMA ConfigWaits ==
    ASSUME ConfigKept, flags' = flags, config' = config, image'.config = image.config,
           HasConfig(todo) => HasConfig(todo')
    PROVE  ConfigKept'
<1>1. EffectiveConfig(image)' = EffectiveConfig(image)
  BY DEF EffectiveConfig
<1>2. HasConfig(todo)' <=> HasConfig(todo')
  BY DEF HasConfig
<1>3. ConfigAsked => ConfigAsked'
  BY <1>2 DEF ConfigAsked
<1> QED BY <1>1, <1>3 DEF ConfigKept

LEMMA ServesReadAll == SaveInv /\ ServeReadAll => SaveInv'
<1> SUFFICES ASSUME SaveInv, ServeReadAll PROVE SaveInv'
  OBVIOUS
<1>1. Control /\ Shown /\ SaneImages /\ BootFinds /\ ConfigKept
  BY DEF SaveInv
<1>2. /\ UNCHANGED <<flags, block, inLogic, settings, config, screen, saveFile>>
      /\ UNCHANGED <<storage, present, image, loaded, faulted>>
      /\ todo # <<>> /\ Head(todo).op = "readAll"
  BY DEF ServeReadAll, Busy, game, storage
<1>3. PICK f : f = Current
  OBVIOUS
<1>4. /\ Types /\ Queued(todo) /\ Jobs = FileOpsOf(todo) /\ block = 1
      /\ Head(todo) = Op("readAll", f) /\ f \in Files
  BY <1>1, <1>2, <1>3, BusyIs DEF FileOps
<1>5. PICK found : found = Read(image.file[f])
  OBVIOUS
<1>6. /\ started' = IF found = {} THEN started \ {f} ELSE started \cup {f}
      /\ todo' = IF found = {} THEN <<Op("clean", f)>> \o Tail(todo) ELSE Tail(todo)
  BY <1>3, <1>5 DEF ServeReadAll
<1>7. PICK q : q = todo'
  OBVIOUS
<1>8. /\ Queued(q)
      /\ FileOpsOf(q) = (IF found = {} THEN {Op("clean", f)} ELSE {}) \cup (Jobs \ {Op("readAll", f)})
      /\ HasConfig(todo) => HasConfig(q)
  <2>1. Head(todo).op \in FileOps /\ Head(todo).op \in {"readAll", "read"} /\ Head(todo).file = f
    BY <1>2, <1>3 DEF FileOps, Current
  <2>2. CASE found = {}
    BY <1>2, <1>4, <1>6, <1>7, <2>1, <2>2, QueueClean
  <2>3. CASE found # {}
    BY <1>2, <1>4, <1>6, <1>7, <2>1, <2>3, QueueTail
  <2> QED BY <2>2, <2>3
<1>9. Types'
  BY <1>2, <1>4, <1>6 DEF Types
<1>10. Control' /\ Jobs' = FileOpsOf(q)
  <2>1. ~(block' > 1)
    BY <1>2, <1>4
  <2> QED BY <1>1, <1>2, <1>7, <1>8, <1>9, <2>1, ServeNext
<1>11. PICK jobs : jobs = Jobs
  OBVIOUS
<1>12. \A o \in jobs : o # Op("readAll", f) => o.op = "readAll" /\ o.file # f
  <2>1. \A o \in FileOpsOf(todo) : o # Head(todo) =>
           o.op = "readAll" /\ (Head(todo).op \in FileOps => o.file # Head(todo).file)
    BY <1>2, <1>4, QueueHead
  <2>2. Head(todo).op \in FileOps /\ Head(todo).file = f
    BY <1>2, <1>3 DEF FileOps, Current
  <2> QED BY <1>4, <1>11, <2>1, <2>2
<1>13. PICK new : new = Jobs'
  OBVIOUS
<1>14. /\ Op("readAll", f) \in jobs
       /\ \A o : o \in new <=> \/ o \in jobs /\ o # Op("readAll", f)
                               \/ found = {} /\ o = Op("clean", f)
  <2>1. Head(todo).op \in FileOps => Head(todo) \in FileOpsOf(todo)
    BY <1>2, <1>4, QueueHead
  <2> QED BY <1>2, <1>4, <1>8, <1>10, <1>11, <1>13, <2>1 DEF FileOps
<1>15. \A k, g : Op(k, g) \in new =>
          \/ k = "readAll" /\ g # f
          \/ k = "clean" /\ g = f /\ found = {}
  BY <1>12, <1>14 DEF Op
<1>16. ~(screen = "copy") /\ ~(screen = "game")
  <2>1. screen = "copy" => Jobs \subseteq [op : {"read"}, file : started]
    BY <1>1 DEF Shown, MenuJobs
  <2>2. screen = "game" => Jobs \subseteq [op : {"read", "clean", "write"}, file : {saveFile}]
    BY <1>1 DEF Shown, GameGoesOn
  <2> QED BY <1>11, <1>14, <2>1, <2>2 DEF Op
<1>17. JobsDone'
  <2>1. \A g \in Files : Wiped(image'.file[g], block' - 1)
    BY <1>2, <1>4, SizeIs DEF Wiped
  <2> QED BY <1>13, <1>15, <2>1 DEF JobsDone
<1>18. FilesShown'
  <2> SUFFICES ASSUME screen' = "files", NEW g \in Files
               PROVE  /\ Op("erase", g) \in Jobs' \/ Op("clean", g) \in Jobs' => g \notin started'
                      /\ Op("write", g) \in Jobs' => g \in started'
                      /\ Jobs' \cap [op : {"readAll", "erase", "clean", "write"}, file : {g}] = {} =>
                            IF g \in started' THEN Good(image'.file[g]) ELSE Clean(image'.file[g])
    BY <1>2, <1>16 DEF FilesShown
  <2>1. Op("erase", g) \in new \/ Op("clean", g) \in new => g \notin started'
    BY <1>6, <1>15
  <2>2. Op("write", g) \notin new
    BY <1>15
  <2>3. ASSUME new \cap [op : {"readAll", "erase", "clean", "write"}, file : {g}] = {}
        PROVE  IF g \in started' THEN Good(image'.file[g]) ELSE Clean(image'.file[g])
    <3>1. CASE g = f
      <4>1. Op("clean", f) \notin new
        BY <2>3, <3>1 DEF Op
      <4>2. found # {}
        BY <1>14, <4>1
      <4>3. Sane(image.file[f])
        BY <1>1, <1>4 DEF SaneImages, SaneImage
      <4>4. Good(image.file[f])
        BY <1>5, <4>2, <4>3, SaneRead
      <4> QED BY <1>2, <1>6, <3>1, <4>2, <4>4
    <3>2. CASE g # f
      <4>1. \A o \in jobs : o.file = g => o \in new
        BY <1>14, <3>2 DEF Op
      <4>2. \A o \in [op : {"readAll", "erase", "clean", "write"}, file : {g}] : o.file = g
        OBVIOUS
      <4>3. jobs \cap [op : {"readAll", "erase", "clean", "write"}, file : {g}] = {}
        BY <2>3, <4>1, <4>2
      <4>4. IF g \in started THEN Good(image.file[g]) ELSE Clean(image.file[g])
        BY <1>1, <1>2, <1>11, <4>3 DEF Shown, FilesShown
      <4>5. g \in started' <=> g \in started
        BY <1>6, <3>2
      <4> QED BY <1>2, <4>4, <4>5
    <3> QED BY <3>1, <3>2
  <2> QED BY <1>13, <2>1, <2>2, <2>3
<1>19. MenuJobs'
  <2> SUFFICES ASSUME screen' = "files"
               PROVE  Jobs' \subseteq [op : {"readAll", "clean", "erase", "write"}, file : Files]
    BY <1>2, <1>16 DEF MenuJobs
  <2>1. jobs \subseteq [op : {"readAll", "clean", "erase", "write"}, file : Files]
    BY <1>1, <1>2, <1>11 DEF Shown, MenuJobs
  <2>2. Op("clean", f) \in [op : {"readAll", "clean", "erase", "write"}, file : Files]
    BY <1>4 DEF Op
  <2> QED BY <1>13, <1>14, <2>1, <2>2
<1>20. GameGoesOn'
  BY <1>2, <1>16 DEF GameGoesOn
<1>21. Shown'
  BY <1>17, <1>18, <1>19, <1>20 DEF Shown
<1>22. SaneImages' /\ BootFinds'
  BY <1>1, <1>2, <1>4, StorageStays
<1>23. ConfigKept'
  BY <1>1, <1>2, <1>7, <1>8, ConfigWaits
<1> QED BY <1>10, <1>21, <1>22, <1>23 DEF SaveInv

LEMMA ServesRead == SaveInv /\ ServeRead => SaveInv'
<1> SUFFICES ASSUME SaveInv, ServeRead PROVE SaveInv'
  OBVIOUS
<1>1. Control /\ Shown /\ SaneImages /\ BootFinds /\ ConfigKept
  BY DEF SaveInv
<1>2. /\ UNCHANGED <<flags, block, inLogic, config, screen, saveFile, started>>
      /\ UNCHANGED <<storage, present, image, loaded, faulted>>
      /\ todo # <<>> /\ Head(todo).op = "read"
  BY DEF ServeRead, Busy, menus, storage
<1>3. PICK f : f = Current
  OBVIOUS
<1>4. /\ Types /\ Queued(todo) /\ Jobs = FileOpsOf(todo) /\ block = 1
      /\ Head(todo) = Op("read", f) /\ f \in Files
  BY <1>1, <1>2, <1>3, BusyIs DEF FileOps
<1>5. PICK found : found = Read(image.file[f])
  OBVIOUS
<1>6. /\ settings' = IF found = {} THEN Cleared(settings) ELSE CHOOSE save \in found : TRUE
      /\ todo' = IF found = {} THEN <<Op("clean", f)>> \o Tail(todo) ELSE Tail(todo)
  BY <1>3, <1>5 DEF ServeRead
<1>7. PICK q : q = todo'
  OBVIOUS
<1>8. /\ Jobs = {Op("read", f)} /\ Queued(q)
      /\ FileOpsOf(q) = IF found = {} THEN {Op("clean", f)} ELSE {}
      /\ HasConfig(todo) => HasConfig(q)
  <2>1. Head(todo).op \in FileOps /\ Head(todo).op \in {"readAll", "read"} /\ Head(todo).file = f
    BY <1>2, <1>3 DEF FileOps, Current
  <2>2. Jobs = {Op("read", f)}
    BY <1>2, <1>4, QueueHead
  <2>3. CASE found = {}
    BY <1>2, <1>4, <1>6, <1>7, <2>1, <2>2, <2>3, QueueClean
  <2>4. CASE found # {}
    BY <1>2, <1>4, <1>6, <1>7, <2>1, <2>2, <2>4, QueueTail
  <2> QED BY <2>2, <2>3, <2>4
<1>9. Sane(image.file[f]) /\ SaneImage(image)
  BY <1>1, <1>4 DEF SaneImages, SaneImage
<1>10. found # {} => /\ Good(image.file[f]) /\ settings' \in Sound
                     /\ Below(image.file[f], settings')
  <2> SUFFICES ASSUME found # {}
               PROVE  /\ Good(image.file[f]) /\ settings' \in Sound
                      /\ Below(image.file[f], settings')
    OBVIOUS
  <2>1. Good(image.file[f])
    BY <1>5, <1>9, SaneRead
  <2>2. PICK save \in Sound : Read(image.file[f]) = {save} /\ Below(image.file[f], save)
    BY <2>1, GoodRead
  <2>3. settings' = save
    BY <1>5, <1>6, <2>2
  <2> QED BY <2>1, <2>2, <2>3
<1>11. settings \in Settings
  BY <1>4 DEF Types
<1>12. settings' \in Settings
  BY <1>6, <1>10, <1>11, ClearedIs, SaveIs
<1>13. Types'
  BY <1>2, <1>4, <1>12 DEF Types
<1>14. Control' /\ Jobs' = FileOpsOf(q)
  <2>1. ~(block' > 1)
    BY <1>2, <1>4
  <2> QED BY <1>1, <1>2, <1>7, <1>8, <1>13, <2>1, ServeNext
<1>15. PICK jobs : jobs = Jobs'
  OBVIOUS
<1>16. /\ jobs = IF found = {} THEN {Op("clean", f)} ELSE {}
       /\ \A k, g : Op(k, g) \in jobs => k = "clean" /\ g = f /\ found = {}
  BY <1>8, <1>14, <1>15 DEF Op
<1>17. ~(screen = "files")
  <2>1. screen = "files" => Jobs \subseteq [op : {"readAll", "clean", "erase", "write"}, file : Files]
    BY <1>1 DEF Shown, MenuJobs
  <2> QED BY <1>8, <2>1 DEF Op
<1>18. JobsDone'
  <2>1. \A g \in Files : Wiped(image'.file[g], block' - 1)
    BY <1>2, <1>4, SizeIs DEF Wiped
  <2> QED BY <1>15, <1>16, <2>1 DEF JobsDone
<1>19. screen = "copy" =>
          /\ found # {}
          /\ \A g \in Files : IF g \in started THEN Good(image.file[g]) ELSE Clean(image.file[g])
  <2> SUFFICES ASSUME screen = "copy"
               PROVE  /\ found # {}
                      /\ \A g \in Files : IF g \in started THEN Good(image.file[g])
                                                           ELSE Clean(image.file[g])
    OBVIOUS
  <2>1. f \in started
    BY <1>1, <1>8 DEF Shown, MenuJobs, Op
  <2>2. \A g \in Files : Jobs \cap [op : {"readAll", "erase", "clean", "write"}, file : {g}] = {}
    BY <1>8 DEF Op
  <2>3. \A g \in Files : IF g \in started THEN Good(image.file[g]) ELSE Clean(image.file[g])
    BY <1>1, <2>2 DEF Shown, FilesShown
  <2>4. found # {}
    BY <1>4, <1>5, <2>1, <2>3, GoodRead
  <2> QED BY <2>3, <2>4
<1>20. FilesShown'
  BY <1>2, <1>15, <1>16, <1>17, <1>19 DEF FilesShown
<1>21. MenuJobs'
  BY <1>2, <1>10, <1>15, <1>16, <1>17, <1>19 DEF MenuJobs
<1>22. GameGoesOn'
  <2> SUFFICES ASSUME screen = "game" PROVE GameGoesOn'
    BY <1>2 DEF GameGoesOn
  <2>1. f = saveFile
    BY <1>1, <1>8 DEF Shown, GameGoesOn, Op
  <2>2. \/ Good(image.file[f])
        \/ Clean(image.file[f]) /\ settings.name \in Names
    BY <1>1, <1>8, <2>1 DEF Shown, GameGoesOn
  <2>3. found = {} => Clean(image.file[f]) /\ settings' \in Sound
    BY <1>5, <1>6, <1>11, <2>2, GoodRead, ClearedIs
  <2>4. jobs \subseteq [op : {"read", "clean", "write"}, file : {f}]
    BY <1>16 DEF Op
  <2>5. jobs = {} => settings' \in Sound /\ Below(image.file[f], settings')
    BY <1>10, <1>16
  <2> QED BY <1>2, <1>15, <1>16, <2>1, <2>3, <2>4, <2>5 DEF GameGoesOn
<1>23. Shown'
  BY <1>18, <1>20, <1>21, <1>22 DEF Shown
<1>24. SaneImages' /\ BootFinds'
  BY <1>1, <1>2, <1>4, StorageStays
<1>25. ConfigKept'
  BY <1>1, <1>2, <1>7, <1>8, ConfigWaits
<1> QED BY <1>14, <1>23, <1>24, <1>25 DEF SaveInv

-----------------------------------------------------------------------------
(* input_update writes.                                                    *)

\* An image that is written is what the next boot finds.
LEMMA ImageStored ==
    ASSUME Types, SaneImages, BootFinds, loaded, loaded' = loaded, present' = present,
           NEW new, SaneImage(new), image' = new, Store(image'),
           outcome' \in [Files -> SUBSET SUBSET Data],
           \A f \in Files : Read(new.file[f]) \in outcome'[f]
    PROVE  SaneImages' /\ BootFinds' /\ faulted' \in BOOLEAN
<1>1. Store(new)
  OBVIOUS
<1>2. /\ blob' \in [Media -> Images \cup {NoBlob}]
      /\ \A m \in Media : blob'[m] # NoBlob => SaneImage(blob'[m])
      /\ faulted' \in BOOLEAN /\ (faulted => faulted')
      /\ ~faulted' /\ Stored(Media) \subseteq present =>
            Stored(Media)' \subseteq present' /\ BootImage' = new
  BY <1>1, StoreIs
<1>3. SaneImages'
  BY <1>2 DEF SaneImages
<1>4. ~faulted' => Stored(Media)' \subseteq present' /\ BootImage' = new
  BY <1>2 DEF BootFinds
<1>5. BootFinds'
  BY <1>4 DEF BootFinds
<1> QED BY <1>2, <1>3, <1>5

LEMMA ServesWriteConfig == SaveInv /\ ServeWriteConfig => SaveInv'
<1> SUFFICES ASSUME SaveInv, ServeWriteConfig PROVE SaveInv'
  OBVIOUS
<1>1. Control /\ Shown /\ SaneImages /\ BootFinds
  BY DEF SaveInv
<1>2. /\ UNCHANGED <<flags, block, inLogic, settings, config, screen, saveFile, started>>
      /\ UNCHANGED <<present, loaded, outcome>>
      /\ todo # <<>> /\ Head(todo).op = "writeConfig" /\ todo' = Tail(todo)
      /\ image' = [image EXCEPT !.config = config] /\ Store(image')
  BY DEF ServeWriteConfig, Busy, menus, game
<1>3. Types /\ Queued(todo) /\ Jobs = FileOpsOf(todo) /\ block = 1
  BY <1>1, <1>2, BusyIs DEF ConfigOps
<1>4. PICK q : q = Tail(todo)
  OBVIOUS
<1>5. Queued(q) /\ FileOpsOf(q) = FileOpsOf(todo) \ {Head(todo)}
  BY <1>2, <1>3, <1>4, QueueTail
<1>6. Head(todo) \notin FileOpsOf(todo)
  <2>1. FileOpsOf(todo) \subseteq {o \in Ops : o.op \in FileOps}
    BY <1>2, <1>3, QueueHead
  <2> QED BY <1>2, <2>1 DEF FileOps
<1>7. PICK new : new = image'
  OBVIOUS
<1>8. new \in Images /\ new.file = image.file /\ new.config = config
  <2>1. image \in Images /\ config \in Configs
    BY <1>1, <1>3 DEF SaneImages, SaneImage, Types
  <2> QED BY <1>2, <1>7, <2>1 DEF Images
<1>9. SaneImage(new)
  BY <1>1, <1>8 DEF SaneImages, SaneImage
<1>10. loaded
  BY <1>1, <1>2 DEF Control, Protocol
<1>11. SaneImages' /\ BootFinds' /\ faulted' \in BOOLEAN
  <2>1. outcome' \in [Files -> SUBSET SUBSET Data]
    BY <1>1, <1>2 DEF BootFinds
  <2>2. \A f \in Files : Read(new.file[f]) \in outcome'[f]
    BY <1>1, <1>2, <1>8, <1>10 DEF BootFinds
  <2> QED BY <1>1, <1>2, <1>3, <1>7, <1>9, <1>10, <2>1, <2>2, ImageStored
<1>12. Types'
  BY <1>2, <1>3, <1>11 DEF Types
<1>13. Control' /\ Jobs' = FileOpsOf(q)
  <2>1. todo' = q /\ ~(block' > 1)
    BY <1>2, <1>3, <1>4
  <2> QED BY <1>1, <1>2, <1>5, <1>12, <2>1, ServeNext
<1>14. Shown'
  <2>1. Jobs' = Jobs
    BY <1>3, <1>5, <1>6, <1>13
  <2> QED BY <1>1, <1>2, <1>7, <1>8, <2>1, ShownStays
<1>15. ConfigKept'
  <2>1. image'.config = config' /\ config' # NoConfig
    <3>1. NoConfig \notin Configs
      BY Zenon, SaveGameAssumption
    <3> QED BY <1>2, <1>3, <1>7, <1>8, <3>1 DEF Types
  <2> QED BY <2>1 DEF ConfigKept, EffectiveConfig
<1> QED BY <1>11, <1>13, <1>14, <1>15 DEF SaveInv

\* One block of a file is written.
LEMMA WriteBlockIs ==
    ASSUME Types, SaneImages, BootFinds, loaded, NEW f \in Files, NEW new \in File,
           WriteBlock(f, new),
           NEW file, file = WithBlock(image.file[f], new, block), Sane(file),
           file = CutShort(image.file[f], new, block), block = Size => file = new
    PROVE  /\ SaneImages' /\ BootFinds' /\ faulted' \in BOOLEAN
           /\ image'.file[f] = file /\ image'.config = image.config
           /\ \A g \in Files : g # f => image'.file[g] = image.file[g]
<1>1. /\ image' = [image EXCEPT !.file[f] = file]
      /\ Store(image')
      /\ outcome' = [outcome EXCEPT ![f] =
                        IF block = Size THEN {Read(new)}
                        ELSE @ \cup {Read(CutShort(image.file[f], new, k)) : k \in Blocks}]
      /\ loaded' = loaded /\ present' = present
  BY DEF WriteBlock
<1>2. image \in Images /\ \A g \in Files : Sane(image.file[g])
  BY DEF SaneImages, SaneImage
<1>3. PICK i : i = image'
  OBVIOUS
<1>4. file \in File
  BY DEF Sane
<1>5. /\ i \in Images /\ i.file[f] = file /\ i.config = image.config
      /\ \A g \in Files : g # f => i.file[g] = image.file[g]
  BY <1>1, <1>2, <1>3, <1>4 DEF Images
<1>6. SaneImage(i)
  BY <1>2, <1>5 DEF SaneImage
<1>7. PICK cuts : cuts = {Read(CutShort(image.file[f], new, k)) : k \in Blocks}
  OBVIOUS
<1>8. \A any \in File : Read(any) \subseteq Data
  BY DEF Read, File
<1>9. cuts \subseteq SUBSET Data /\ Read(file) \in cuts
  <2>1. image.file[f] \in File /\ block \in Blocks
    BY <1>2 DEF Sane, Types
  <2>2. ASSUME NEW k \in Blocks PROVE CutShort(image.file[f], new, k) \in File
    BY <2>1, CutShortIs DEF IsCut
  <2>3. \A k \in Blocks : Read(CutShort(image.file[f], new, k)) \subseteq Data
    BY <1>8, <2>2
  <2> QED BY <1>7, <2>1, <2>3
<1>10. PICK was : was = outcome
  OBVIOUS
<1>11. was \in [Files -> SUBSET SUBSET Data] /\ \A g \in Files : Read(image.file[g]) \in was[g]
  BY <1>10 DEF BootFinds
<1>12. PICK read : read = Read(new)
  OBVIOUS
<1>13. read \subseteq Data
  BY <1>8, <1>12
<1>14. outcome' = [was EXCEPT ![f] = IF block = Size THEN {read} ELSE @ \cup cuts]
  BY <1>1, <1>7, <1>10, <1>12
<1>15. /\ outcome'[f] = IF block = Size THEN {read} ELSE was[f] \cup cuts
       /\ \A g \in Files : g # f => outcome'[g] = was[g]
       /\ outcome' \in [Files -> SUBSET SUBSET Data]
  BY <1>9, <1>11, <1>13, <1>14
<1>16. \A g \in Files : Read(i.file[g]) \in outcome'[g]
  <2>1. Read(file) \in outcome'[f]
    BY <1>9, <1>12, <1>15
  <2> QED BY <1>5, <1>11, <1>15, <2>1
<1>17. SaneImages' /\ BootFinds' /\ faulted' \in BOOLEAN
  BY <1>1, <1>3, <1>6, <1>15, <1>16, ImageStored
<1> QED BY <1>3, <1>5, <1>17

LEMMA NextBlock ==
    ASSUME block \in Blocks
    PROVE  /\ block - 1 \in 0 .. Size - 1 /\ (block - 1) + 1 = block
           /\ block # Size => block + 1 \in Blocks /\ (block + 1) - 1 = block
           /\ block \in 0 .. Size /\ block > 0
<1>1. Size \in Nat /\ Blocks = 1 .. Size
  BY SizeIs
<1> QED BY <1>1

LEMMA ServesWrite == SaveInv /\ ServeWrite => SaveInv'
<1> SUFFICES ASSUME SaveInv, ServeWrite PROVE SaveInv'
  OBVIOUS
<1>1. Control /\ Shown /\ SaneImages /\ BootFinds /\ ConfigKept
  BY DEF SaveInv
<1>2. PICK f : f = Current
  OBVIOUS
<1>3. PICK new : new = FileOf(settings)
  OBVIOUS
<1>4. /\ UNCHANGED <<flags, inLogic, settings, config, screen, saveFile, started>>
      /\ UNCHANGED <<present, loaded>>
      /\ todo # <<>> /\ Head(todo).op = "write" /\ WriteBlock(f, new)
      /\ IF block = Size THEN block' = 1 /\ todo' = Tail(todo)
         ELSE block' = block + 1 /\ todo' = todo
  BY <1>2, <1>3 DEF ServeWrite, WriteBlock, Busy, menus
<1>5. /\ Types /\ Queued(todo) /\ Jobs = FileOpsOf(todo) /\ Jobs = {Op("write", f)}
      /\ Head(todo) = Op("write", f) /\ f \in Files
  <2>1. /\ Types /\ Queued(todo) /\ Jobs = FileOpsOf(todo)
        /\ Head(todo) = Op("write", f) /\ f \in Files
    BY <1>1, <1>2, <1>4, BusyIs DEF FileOps
  <2>2. Jobs = {Op("write", f)}
    BY <1>4, <2>1, QueueHead
  <2> QED BY <2>1, <2>2
<1>6. f = saveFile /\ settings \in Sound /\ PartOf(image.file[f], settings, block - 1)
  BY <1>1, <1>5 DEF Shown, JobsDone
<1>7. /\ block - 1 \in 0 .. Size - 1 /\ (block - 1) + 1 = block
      /\ block # Size => block + 1 \in Blocks /\ (block + 1) - 1 = block
      /\ block \in 0 .. Size /\ block > 0
  BY <1>5, NextBlock DEF Types
<1>8. PICK old \in File : Below(old, settings) /\ image.file[f] = Mixed(old, new, block - 1)
  BY <1>3, <1>6 DEF PartOf
<1>9. new \in File /\ Read(new) = {settings}
  BY <1>3, <1>6, SaveIs, FileOfIs
<1>10. PICK file : file = Mixed(old, new, block)
  OBVIOUS
<1>11. /\ file = WithBlock(image.file[f], new, block)
       /\ file = CutShort(image.file[f], new, block)
       /\ block = Size => file = new
  <2>1. PICK k : k = block - 1
    OBVIOUS
  <2>2. k \in 0 .. Size /\ k < Size /\ k + 1 = block
    <3>1. Size \in Nat
      BY SizeIs
    <3> QED BY <1>7, <2>1, <3>1
  <2>3. /\ WithBlock(Mixed(old, new, k), new, k + 1) = Mixed(old, new, k + 1)
        /\ CutShort(Mixed(old, new, k), new, k + 1) = Mixed(old, new, k + 1)
    BY <1>9, <2>2, MixedIs
  <2>4. Size \in 0 .. Size
    BY SizeIs
  <2>5. Mixed(old, new, Size) = new
    BY <1>9, <2>4, MixedIs
  <2> QED BY <1>8, <1>10, <2>1, <2>2, <2>3, <2>5
<1>12. Sane(file)
  BY <1>3, <1>6, <1>7, <1>8, <1>10, MixedRead DEF Sane
<1>13. /\ SaneImages' /\ BootFinds' /\ faulted' \in BOOLEAN
       /\ image'.file[f] = file /\ image'.config = image.config
       /\ \A g \in Files : g # f => image'.file[g] = image.file[g]
  <2>1. loaded
    BY <1>1, <1>4 DEF Control, Protocol
  <2> QED BY <1>1, <1>4, <1>5, <1>9, <1>11, <1>12, <2>1, WriteBlockIs
<1>14. 1 \in Blocks
  BY SizeIs
<1>15. Types'
  BY <1>4, <1>5, <1>7, <1>13, <1>14 DEF Types
<1>16. ~(screen = "copy")
  <2>1. screen = "copy" => Jobs \subseteq [op : {"read"}, file : started]
    BY <1>1 DEF Shown, MenuJobs
  <2> QED BY <1>5, <2>1 DEF Op
<1>17. PICK q : q = todo'
  OBVIOUS
<1>18. CASE block # Size
  <2>1. block' = block + 1 /\ todo' = todo
    BY <1>4, <1>18
  <2>2. Control' /\ Jobs' = Jobs
    BY <1>1, <1>4, <1>5, <1>15, <2>1, ServeNext
  <2>3. \A k, g : Op(k, g) \in Jobs <=> k = "write" /\ g = f
    BY <1>5 DEF Op
  <2>4. JobsDone'
    <3>1. PartOf(image'.file[f], settings', block' - 1)
      <4>1. block' - 1 = block /\ settings' = settings
        BY <1>4, <1>7, <1>18, <2>1
      <4>2. image'.file[f] = Mixed(old, FileOf(settings), block)
        BY <1>3, <1>10, <1>13
      <4> QED BY <1>8, <4>1, <4>2 DEF PartOf
    <3>2. \A k, g : Op(k, g) \in Jobs' <=> k = "write" /\ g = f
      BY <2>2, <2>3
    <3> QED BY <1>4, <1>6, <3>1, <3>2 DEF JobsDone
  <2>5. FilesShown'
    <3> SUFFICES ASSUME screen = "files", NEW g \in Files
                 PROVE  /\ Op("erase", g) \in Jobs' \/ Op("clean", g) \in Jobs' => g \notin started'
                        /\ Op("write", g) \in Jobs' => g \in started'
                        /\ Jobs' \cap [op : {"readAll", "erase", "clean", "write"}, file : {g}] = {} =>
                              IF g \in started' THEN Good(image'.file[g]) ELSE Clean(image'.file[g])
      BY <1>4, <1>16 DEF FilesShown
    <3>1. /\ Op("write", g) \in Jobs => g \in started
          /\ Jobs \cap [op : {"readAll", "erase", "clean", "write"}, file : {g}] = {} =>
                IF g \in started THEN Good(image.file[g]) ELSE Clean(image.file[g])
      BY <1>1 DEF Shown, FilesShown
    <3>2. Op("write", f) \in Jobs \cap [op : {"readAll", "erase", "clean", "write"}, file : {f}]
      BY <2>3 DEF Op
    <3> QED BY <1>4, <1>13, <2>2, <2>3, <3>1, <3>2
  <2>6. MenuJobs'
    BY <1>1, <1>4, <1>16, <2>2 DEF Shown, MenuJobs
  <2>7. GameGoesOn'
    <3>1. Op("write", f) \in Jobs' /\ \A k, g : Op(k, g) \in Jobs' => k = "write"
      BY <2>2, <2>3
    <3>2. screen = "game" => Jobs' \subseteq [op : {"read", "clean", "write"}, file : {saveFile}]
      BY <1>1, <2>2 DEF Shown, GameGoesOn
    <3> QED BY <1>4, <3>1, <3>2 DEF GameGoesOn
  <2>8. Shown'
    BY <2>4, <2>5, <2>6, <2>7 DEF Shown
  <2>9. ConfigKept'
    BY <1>1, <1>4, <1>13, <2>1, ConfigWaits
  <2> QED BY <1>13, <2>2, <2>8, <2>9 DEF SaveInv
<1>19. CASE block = Size
  <2>1. block' = 1 /\ todo' = Tail(todo)
    BY <1>4, <1>19
  <2>2. Queued(q) /\ FileOpsOf(q) = {} /\ (HasConfig(todo) => HasConfig(q))
    BY <1>4, <1>5, <1>17, <2>1, QueueTail DEF FileOps
  <2>3. Control' /\ Jobs' = {}
    <3>1. ~(block' > 1)
      BY <2>1
    <3> QED BY <1>1, <1>4, <1>15, <1>17, <2>2, <3>1, ServeNext
  <2>4. Good(image'.file[f]) /\ Below(image'.file[f], settings)
    <3>1. image'.file[f] = FileOf(settings) /\ Good(image'.file[f])
      BY <1>3, <1>6, <1>11, <1>13, <1>19 DEF Good
    <3>2. PICK save \in Sound : Read(image'.file[f]) = {save} /\ Below(image'.file[f], save)
      BY <3>1, GoodRead
    <3>3. save = settings
      BY <1>3, <1>9, <3>1, <3>2
    <3> QED BY <3>1, <3>2, <3>3
  <2>5. JobsDone'
    BY <2>3 DEF JobsDone
  <2>6. FilesShown'
    <3> SUFFICES ASSUME screen = "files", NEW g \in Files
                 PROVE  IF g \in started' THEN Good(image'.file[g]) ELSE Clean(image'.file[g])
      BY <1>4, <1>16, <2>3 DEF FilesShown
    <3>1. Op("write", f) \in Jobs => f \in started
      BY <1>1, <1>5 DEF Shown, FilesShown
    <3>2. CASE g = f
      BY <1>4, <1>5, <2>4, <3>1, <3>2
    <3>3. CASE g # f
      <4>1. Jobs \cap [op : {"readAll", "erase", "clean", "write"}, file : {g}] = {}
        BY <1>5, <3>3 DEF Op
      <4>2. IF g \in started THEN Good(image.file[g]) ELSE Clean(image.file[g])
        BY <1>1, <4>1 DEF Shown, FilesShown
      <4> QED BY <1>4, <1>13, <3>3, <4>2
    <3> QED BY <3>2, <3>3
  <2>7. MenuJobs'
    BY <1>4, <1>16, <2>3 DEF MenuJobs
  <2>8. GameGoesOn'
    BY <1>4, <1>6, <2>3, <2>4 DEF GameGoesOn
  <2>9. Shown'
    BY <2>5, <2>6, <2>7, <2>8 DEF Shown
  <2>10. ConfigKept'
    BY <1>1, <1>4, <1>13, <1>17, <2>2, ConfigWaits
  <2> QED BY <1>13, <2>3, <2>9, <2>10 DEF SaveInv
<1> QED BY <1>18, <1>19

LEMMA ServesErase == SaveInv /\ ServeErase => SaveInv'
<1> SUFFICES ASSUME SaveInv, ServeErase PROVE SaveInv'
  OBVIOUS
<1>1. Control /\ Shown /\ SaneImages /\ BootFinds /\ ConfigKept
  BY DEF SaveInv
<1>2. PICK f : f = Current
  OBVIOUS
<1>3. PICK k : k = Head(todo).op
  OBVIOUS
<1>4. /\ UNCHANGED <<flags, inLogic, config, screen, saveFile, started>>
      /\ UNCHANGED <<present, loaded>>
      /\ todo # <<>> /\ k \in {"erase", "clean"} /\ WriteBlock(f, ErasedFile)
      /\ IF block = Size THEN block' = 1 /\ todo' = Tail(todo)
         ELSE block' = block + 1 /\ todo' = todo
      /\ IF k = "erase" THEN settings' \in Remains(settings) \cup {settings}
         ELSE settings' = settings
  BY <1>2, <1>3 DEF ServeErase, WriteBlock, Busy, menus
<1>5. /\ Types /\ Queued(todo) /\ Jobs = FileOpsOf(todo)
      /\ Head(todo) = Op(k, f) /\ f \in Files
  BY <1>1, <1>2, <1>3, <1>4, BusyIs DEF FileOps
<1>6. PICK jobs : jobs = Jobs
  OBVIOUS
<1>7. /\ Op(k, f) \in jobs
      /\ \A o \in jobs : o # Op(k, f) => o.op = "readAll" /\ o.file # f
  <2>1. /\ Head(todo).op \in FileOps => Head(todo) \in FileOpsOf(todo)
        /\ \A o \in FileOpsOf(todo) : o # Head(todo) =>
              o.op = "readAll" /\ (Head(todo).op \in FileOps => o.file # Head(todo).file)
    BY <1>4, <1>5, QueueHead
  <2>2. Head(todo).op \in FileOps /\ Head(todo).file = f
    BY <1>2, <1>3, <1>4 DEF FileOps, Current
  <2> QED BY <1>5, <1>6, <2>1, <2>2
<1>8. \A l, g : Op(l, g) \in jobs => (l = k /\ g = f) \/ (l = "readAll" /\ g # f)
  BY <1>7 DEF Op
<1>9. Wiped(image.file[f], block - 1)
  <2>1. Op("erase", f) \in Jobs \/ Op("clean", f) \in Jobs
    BY <1>4, <1>6, <1>7
  <2> QED BY <1>1, <1>5, <2>1 DEF Shown, JobsDone
<1>10. /\ block - 1 \in 0 .. Size - 1 /\ (block - 1) + 1 = block
       /\ block # Size => block + 1 \in Blocks /\ (block + 1) - 1 = block
       /\ block \in 0 .. Size /\ block > 0
  BY <1>5, NextBlock DEF Types
<1>11. PICK old : old = image.file[f]
  OBVIOUS
<1>12. old \in File
  BY <1>1, <1>5, <1>11 DEF SaneImages, SaneImage, Sane
<1>13. PICK file : file = WithBlock(old, ErasedFile, block)
  OBVIOUS
<1>14. /\ file \in File /\ Wiped(file, block) /\ Read(file) = {}
       /\ file = CutShort(old, ErasedFile, block)
       /\ block = Size => file = ErasedFile
       /\ Clean(old) => file = ErasedFile
  <2>1. PICK n : n = block - 1
    OBVIOUS
  <2>2. n \in 0 .. Size - 1 /\ n + 1 = block /\ Wiped(old, n)
    BY <1>9, <1>10, <1>11, <2>1
  <2>3. PICK next : next = WithBlock(old, ErasedFile, n + 1)
    OBVIOUS
  <2>4. /\ next \in File /\ Wiped(next, n + 1) /\ Read(next) = {}
        /\ CutShort(old, ErasedFile, n + 1) = next
        /\ n + 1 = Size => next = ErasedFile
        /\ Clean(old) => next = ErasedFile
    BY <1>12, <2>2, <2>3, WipedIs
  <2>5. next = file
    BY <1>13, <2>2, <2>3
  <2> QED BY <2>2, <2>4, <2>5
<1>15. /\ SaneImages' /\ BootFinds' /\ faulted' \in BOOLEAN
       /\ image'.file[f] = file /\ image'.config = image.config
       /\ \A g \in Files : g # f => image'.file[g] = image.file[g]
  <2>1. loaded
    BY <1>1, <1>4 DEF Control, Protocol
  <2>2. ErasedFile \in File
    BY ErasedIs
  <2>3. Sane(file)
    BY <1>14 DEF Sane
  <2> QED BY <1>1, <1>4, <1>5, <1>11, <1>13, <1>14, <2>1, <2>2, <2>3, WriteBlockIs
<1>16. settings' \in Settings
  <2>1. settings \in Settings
    BY <1>5 DEF Types
  <2>2. Remains(settings) \subseteq Settings
    BY <2>1 DEF Remains, Settings
  <2> QED BY <1>4, <2>1, <2>2
<1>17. Types'
  <2>1. 1 \in Blocks
    BY SizeIs
  <2> QED BY <1>4, <1>5, <1>10, <1>15, <1>16, <2>1 DEF Types
<1>18. ~(screen = "copy")
  <2>1. screen = "copy" => Jobs \subseteq [op : {"read"}, file : started]
    BY <1>1 DEF Shown, MenuJobs
  <2> QED BY <1>4, <1>6, <1>7, <2>1 DEF Op
<1>19. screen = "game" => /\ k = "clean" /\ f = saveFile /\ settings' = settings
                          /\ file = ErasedFile /\ settings \in Sound
                          /\ jobs = {Op("clean", f)}
  <2> SUFFICES ASSUME screen = "game"
               PROVE  /\ k = "clean" /\ f = saveFile /\ settings' = settings
                      /\ file = ErasedFile /\ settings \in Sound
                      /\ jobs = {Op("clean", f)}
    OBVIOUS
  <2>1. jobs \subseteq [op : {"read", "clean", "write"}, file : {saveFile}]
    BY <1>1, <1>6 DEF Shown, GameGoesOn
  <2>2. k = "clean" /\ f = saveFile
    BY <1>4, <1>7, <2>1 DEF Op
  <2>3. Clean(image.file[f]) /\ settings \in Sound
    BY <1>1, <1>6, <1>7, <2>2 DEF Shown, GameGoesOn
  <2>4. \A o \in jobs : o = Op("clean", f)
    <3>1. \A o \in jobs : o.op # "readAll"
      BY <2>1
    <3> QED BY <1>7, <2>2, <3>1
  <2> QED BY <1>4, <1>7, <1>11, <1>14, <2>2, <2>3, <2>4
<1>20. PICK q : q = todo'
  OBVIOUS
<1>21. screen = "files" => f \notin started
  BY <1>1, <1>4, <1>5, <1>6, <1>7 DEF Shown, FilesShown
<1>22. \A g \in Files :
          screen = "files" /\ jobs \cap [op : {"readAll", "erase", "clean", "write"}, file : {g}] = {}
          => IF g \in started THEN Good(image.file[g]) ELSE Clean(image.file[g])
  BY <1>1, <1>6 DEF Shown, FilesShown
<1>23. CASE block # Size
  <2>1. block' = block + 1 /\ todo' = todo
    BY <1>4, <1>23
  <2>2. Control' /\ Jobs' = jobs
    <3>1. Head(todo).op \in {"write", "erase", "clean"}
      BY <1>3, <1>4
    <3> QED BY <1>1, <1>4, <1>5, <1>6, <1>17, <2>1, <3>1, ServeNext
  <2>3. JobsDone'
    <3>1. Wiped(image'.file[f], block' - 1)
      <4>1. block' - 1 = block
        BY <1>10, <1>23, <2>1
      <4> QED BY <1>14, <1>15, <4>1
    <3>2. \A l, g : Op(l, g) \in Jobs' => (l = k /\ g = f) \/ (l = "readAll" /\ g # f)
      BY <1>8, <2>2
    <3> QED BY <1>4, <3>1, <3>2 DEF JobsDone
  <2>4. FilesShown'
    <3> SUFFICES ASSUME screen = "files", NEW g \in Files
                 PROVE  /\ Op("erase", g) \in Jobs' \/ Op("clean", g) \in Jobs' => g \notin started'
                        /\ Op("write", g) \in Jobs' => g \in started'
                        /\ Jobs' \cap [op : {"readAll", "erase", "clean", "write"}, file : {g}] = {} =>
                              IF g \in started' THEN Good(image'.file[g]) ELSE Clean(image'.file[g])
      BY <1>4, <1>18 DEF FilesShown
    <3>1. Op("erase", g) \in jobs \/ Op("clean", g) \in jobs => g \notin started
      BY <1>8, <1>21
    <3>2. Op("write", g) \notin jobs
      BY <1>4, <1>8
    <3>3. Op(k, f) \in jobs \cap [op : {"readAll", "erase", "clean", "write"}, file : {f}]
      BY <1>4, <1>7 DEF Op
    <3>4. jobs \cap [op : {"readAll", "erase", "clean", "write"}, file : {g}] = {} => g # f
      BY <3>3
    <3> QED BY <1>4, <1>15, <1>22, <2>2, <3>1, <3>2, <3>4
  <2>5. MenuJobs'
    BY <1>1, <1>4, <1>6, <1>18, <2>2 DEF Shown, MenuJobs
  <2>6. GameGoesOn'
    <3> SUFFICES ASSUME screen = "game" PROVE GameGoesOn'
      BY <1>4 DEF GameGoesOn
    <3>1. Clean(image'.file[f])
      BY <1>15, <1>19 DEF Clean
    <3>2. jobs \subseteq [op : {"read", "clean", "write"}, file : {f}]
      BY <1>19 DEF Op
    <3>3. Op("clean", f) \in jobs /\ \A l, g : Op(l, g) \in jobs => l = "clean"
      BY <1>19 DEF Op
    <3> QED BY <1>4, <1>19, <2>2, <3>1, <3>2, <3>3 DEF GameGoesOn
  <2>7. Shown'
    BY <2>3, <2>4, <2>5, <2>6 DEF Shown
  <2>8. ConfigKept'
    BY <1>1, <1>4, <1>15, <2>1, ConfigWaits
  <2> QED BY <1>15, <2>2, <2>7, <2>8 DEF SaveInv
<1>24. CASE block = Size
  <2>1. block' = 1 /\ todo' = Tail(todo)
    BY <1>4, <1>24
  <2>2. Queued(q) /\ FileOpsOf(q) = jobs \ {Op(k, f)} /\ (HasConfig(todo) => HasConfig(q))
    <3>1. Head(todo).op \in FileOps
      BY <1>3, <1>4 DEF FileOps
    <3> QED BY <1>4, <1>5, <1>6, <1>20, <2>1, <3>1, QueueTail
  <2>3. Control' /\ Jobs' = jobs \ {Op(k, f)}
    <3>1. ~(block' > 1)
      BY <2>1
    <3> QED BY <1>1, <1>4, <1>17, <1>20, <2>2, <3>1, ServeNext
  <2>4. PICK new : new = Jobs'
    OBVIOUS
  <2>5. \A l, g : Op(l, g) \in new => l = "readAll" /\ g # f
    BY <1>8, <2>3, <2>4
  <2>6. JobsDone'
    BY <2>4, <2>5 DEF JobsDone
  <2>7. FilesShown'
    <3> SUFFICES ASSUME screen = "files", NEW g \in Files,
                        Jobs' \cap [op : {"readAll", "erase", "clean", "write"}, file : {g}] = {}
                 PROVE  IF g \in started' THEN Good(image'.file[g]) ELSE Clean(image'.file[g])
      BY <1>4, <1>18, <2>4, <2>5 DEF FilesShown
    <3>1. CASE g = f
      BY <1>4, <1>14, <1>15, <1>21, <1>24, <3>1 DEF Clean
    <3>2. CASE g # f
      <4>1. \A o \in jobs : o.file = g => o \in Jobs'
        BY <2>3, <3>2 DEF Op
      <4>2. \A o \in [op : {"readAll", "erase", "clean", "write"}, file : {g}] : o.file = g
        OBVIOUS
      <4>3. jobs \cap [op : {"readAll", "erase", "clean", "write"}, file : {g}] = {}
        BY <4>1, <4>2
      <4> QED BY <1>4, <1>15, <1>22, <3>2, <4>3
    <3> QED BY <3>1, <3>2
  <2>8. MenuJobs'
    BY <1>1, <1>4, <1>6, <1>18, <2>3 DEF Shown, MenuJobs
  <2>9. GameGoesOn'
    <3> SUFFICES ASSUME screen = "game" PROVE GameGoesOn'
      BY <1>4 DEF GameGoesOn
    <3>1. new = {}
      BY <1>19, <2>3, <2>4
    <3>2. Below(image'.file[f], settings)
      BY <1>15, <1>19 DEF Below, Clean
    <3> QED BY <1>4, <1>19, <2>4, <3>1, <3>2 DEF GameGoesOn
  <2>10. Shown'
    BY <2>6, <2>7, <2>8, <2>9 DEF Shown
  <2>11. ConfigKept'
    BY <1>1, <1>4, <1>15, <1>20, <2>2, ConfigWaits
  <2> QED BY <1>15, <2>3, <2>10, <2>11 DEF SaveInv
<1> QED BY <1>23, <1>24

-----------------------------------------------------------------------------
(* The invariant.                                                          *)

LEMMA SaveInit == Init => SaveInv
<1> SUFFICES ASSUME Init PROVE SaveInv
  OBVIOUS
<1>1. /\ flags = BootFlags /\ todo = <<>> /\ block = 1 /\ inLogic = FALSE
      /\ settings = New /\ config = Default
      /\ screen = "title" /\ saveFile = 0 /\ started = {}
      /\ image = ZeroImage /\ loaded = FALSE /\ blob = [m \in Media |-> NoBlob]
      /\ present \in SUBSET Media /\ faulted = FALSE /\ outcome = [f \in Files |-> {{}}]
  BY DEF Init
<1>2. AsksBoot
  BY <1>1, BootBits, FileNumbers DEF AsksBoot, AsksRead
<1>3. Types
  <2>1. Default \in Configs
    BY Zenon, SaveGameAssumption
  <2>2. 1 \in Blocks
    BY SizeIs
  <2> QED BY <1>1, <2>1, <2>2, BootBits, NewIs DEF Types
<1>4. Protocol
  BY <1>1, <1>2 DEF Protocol
<1>5. Control
  <2>1. Queued(todo)
    BY <1>1, QueueEmpty
  <2> QED BY <1>1, <1>3, <1>4, <2>1 DEF Control, InBlocks
<1>6. Jobs = {Op("read", 1)}
  BY <1>1, <1>2, <1>3, <1>4, JobsAre, AskedForms DEF JobsFit, FormsFit
<1>7. JobsDone
  <2>1. \A k, h : Op(k, h) \in Jobs => k = "read"
    BY <1>6 DEF Op
  <2> QED BY <2>1 DEF JobsDone
<1>8. Shown
  BY <1>1, <1>7 DEF Shown, FilesShown, MenuJobs, GameGoesOn
<1>9. SaneImages
  BY <1>1, PlainImages DEF SaneImages
<1>10. Stored(Media) = {} /\ Stored(present) = {}
  BY <1>1 DEF Stored
<1>11. BootImage = ZeroImage
  BY <1>10 DEF BootImage
<1>12. \A f \in Files : Read(ZeroImage.file[f]) = {}
  BY ZeroIs DEF ZeroImage, Everywhere
<1>13. BootFinds
  BY <1>1, <1>10, <1>11, <1>12 DEF BootFinds
<1>14. ConfigKept
  BY <1>1 DEF ConfigKept, ConfigAsked, BootFlags
<1> QED BY <1>5, <1>8, <1>9, <1>13, <1>14 DEF SaveInv

LEMMA SaveStutter == SaveInv /\ UNCHANGED vars => SaveInv'
<1> SUFFICES ASSUME SaveInv, UNCHANGED vars PROVE SaveInv'
  OBVIOUS
<1>1. /\ Control /\ Shown /\ SaneImages /\ BootFinds /\ ConfigKept
      /\ Types /\ Protocol /\ Queued(todo) /\ InBlocks
  BY DEF SaveInv, Control
<1>2. /\ UNCHANGED <<flags, todo, block, inLogic, settings, config, screen, saveFile, started>>
      /\ UNCHANGED <<image, loaded, blob, present, faulted, outcome>>
  BY DEF vars, game, menus, storage
<1>3. Types'
  BY <1>1, <1>2 DEF Types
<1>4. Protocol'
  BY <1>1, <1>2, FlagsStay DEF Protocol
<1>5. Queued(todo)' /\ InBlocks'
  BY <1>1, <1>2 DEF InBlocks, Queued
<1>6. Jobs' = Jobs
  BY <1>2, FlagsStay DEF Jobs, FileOpsOf
<1>7. Shown'
  BY <1>1, <1>2, <1>6, ShownStays
<1>8. SaneImages' /\ BootFinds'
  BY <1>1, <1>2, StorageStays DEF storage
<1>9. ConfigKept'
  BY <1>1, <1>2 DEF ConfigKept, ConfigAsked, HasConfig, EffectiveConfig
<1> QED BY <1>3, <1>4, <1>5, <1>7, <1>8, <1>9 DEF SaveInv, Control

\* The conditions on the frame's requests, the files shown, the images and the
\* media hold in every state.
THEOREM SaveInvariant == Spec => []SaveInv
<1>1. SaveInv /\ [Next]_vars => SaveInv'
  <2> SUFFICES ASSUME SaveInv, [Next]_vars PROVE SaveInv'
    OBVIOUS
  <2>1. CASE \E m \in Media : PutIn(m) \/ TakeOut(m)
    BY <2>1, MediaChange
  <2>2. CASE UNCHANGED vars
    BY <2>2, SaveStutter
  <2> QED
    BY <2>1, <2>2, Loads, TakesRequests, ServesReadAll, ServesRead, ServesWrite, ServesErase,
       ServesReadConfig, ServesWriteConfig, LogicSteps, LosesPower DEF Next
<1> QED
  BY <1>1, SaveInit, PTL DEF Spec

-----------------------------------------------------------------------------
(* What the invariant says of the saves.                                   *)

\* The requests name files there are, and the image and the blobs are images.
THEOREM SaveTypes == Spec => []TypeOK
<1>1. SaveInv => TypeOK
  <2> SUFFICES ASSUME SaveInv PROVE TypeOK
    OBVIOUS
  <2>1. Types /\ SaneImages /\ Queued(todo)
    BY DEF SaveInv, Control
  <2>2. \A i \in DOMAIN todo : todo[i] \in Ops
    BY <2>1 DEF Queued
  <2>3. \A i \in DOMAIN todo : todo[i].file \in Files \cup {0}
    BY <2>2, OpIs
  <2> QED BY <2>1, <2>3 DEF TypeOK, Types, SaneImages, SaneImage
<1> QED BY <1>1, SaveInvariant, PTL

\* A file that passes its checksum, in memory or on any medium, is a save, or one
\* cut short over earlier progress of the same file that happens to weigh the
\* same, however many power cuts and failures it has been through: whatever the
\* blocks and the names weigh, nothing of an erased file, of zeros or of another
\* player's file passes.
THEOREM SavesPass == Spec => []PassingSaves
<1>1. SaveInv => PassingSaves
  <2> SUFFICES ASSUME SaveInv,
                      NEW i \in {image} \cup {blob[m] : m \in Stored(Media)}, NEW f \in Files
               PROVE  Read(i.file[f]) \subseteq Sound
    BY DEF PassingSaves, Sound
  <2>1. SaneImage(i)
    BY DEF SaveInv, SaneImages, Stored
  <2> QED BY <2>1 DEF SaneImage, Sane
<1> QED BY <1>1, SaveInvariant, PTL

\* What is about to be written over a file is further progress in that file,
\* unless it holds none.
THEOREM OwnProgressKept == Spec => []OwnProgress
<1>1. SaveInv => OwnProgress
  <2> SUFFICES ASSUME SaveInv, Busy("write"), block = 1, NEW save \in Read(image.file[Current])
               PROVE  Leads(save, settings)
    BY DEF OwnProgress
  <2>1. Control /\ Shown
    BY DEF SaveInv
  <2>2. PICK f : f = Current
    OBVIOUS
  <2>3. todo # <<>> /\ Head(todo).op = "write"
    BY DEF Busy
  <2>4. /\ Queued(todo) /\ Jobs = FileOpsOf(todo)
        /\ Head(todo) = Op("write", f) /\ f \in Files
    BY <2>1, <2>2, <2>3, BusyIs DEF FileOps
  <2>5. Op("write", f) \in Jobs
    BY <2>3, <2>4, QueueHead DEF FileOps
  <2>6. settings \in Sound /\ PartOf(image.file[f], settings, 0)
    BY <2>1, <2>4, <2>5 DEF Shown, JobsDone
  <2>7. Below(image.file[f], settings)
    BY <2>6, NotBegun
  <2> QED BY <2>2, <2>7, BelowIs
<1> QED BY <1>1, SaveInvariant, PTL

\* Until a medium fails or goes with its blob, a boot finds in every file what
\* was last written there, in the file being written what its checksum makes of
\* the blocks written so far over what was there, and the settings last set.
THEOREM SavesSurvive == Spec => []Survives
<1>1. SaveInv => Survives
  <2> SUFFICES ASSUME SaveInv, ~faulted
               PROVE  /\ \A f \in Files : Read(BootImage.file[f]) \in outcome[f]
                      /\ inLogic /\ todo = <<>> /\ WriteConfig \notin flags =>
                            config = EffectiveConfig(BootImage)
    BY DEF Survives, BootImage, EffectiveConfig
  <2>1. Control /\ BootFinds /\ ConfigKept
    BY DEF SaveInv
  <2>2. \A f \in Files : Read(BootImage.file[f]) \in outcome[f]
    BY <2>1 DEF BootFinds
  <2>3. ASSUME inLogic, todo = <<>>, WriteConfig \notin flags
        PROVE  config = EffectiveConfig(BootImage)
    <3>1. Logic
      BY <2>3 DEF Logic
    <3>2. loaded /\ flags \subseteq {6, 9, 10, 11}
      BY <2>1, <3>1, InLogicIs
    <3>3. ~HasConfig(todo)
      BY <2>3 DEF HasConfig
    <3>4. ~ConfigAsked
      BY <2>3, <3>2, <3>3 DEF ConfigAsked, ReadConfig, WriteConfig
    <3>5. BootImage = image
      BY <2>1, <3>2 DEF BootFinds
    <3> QED BY <2>1, <3>4, <3>5 DEF ConfigKept
  <2> QED BY <2>2, <2>3
<1> QED BY <1>1, SaveInvariant, PTL
=============================================================================
