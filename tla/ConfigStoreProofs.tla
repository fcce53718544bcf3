------------------------- MODULE ConfigStoreProofs --------------------------
(***************************************************************************)
(* Proofs about ConfigStore and about DCTable, which runs the refreshes of *)
(* the table of data centres beside it: for every set of requests,         *)
(* refreshes and configurations and any number of crashes.                 *)
(***************************************************************************)
EXTENDS DCTable, FiniteSetTheorems, TLAPS

\* A step of a request, or of main at its start.
Move(r) == (r \in Poster /\ Request(r)) \/ Save(r) \/ Update(r)

LEMMA NextIsMove == Next <=> Crash \/ \E r \in Saver : Move(r)
  BY DEF Next, Move, Saver

\* A blank proxy section and a filled one are both configurations.
LEMMA DefaultedType ==
  ASSUME NEW c \in Config
  PROVE  Defaulted(c) \in Config
  BY BlankType DEF Defaulted, Config

\* A configuration is neither a missing nor a torn file.
LEMMA ConfigIsWhole ==
  ASSUME NEW c \in Config
  PROVE  c # None /\ c # Torn
  BY FilesAreNew DEF Config

\* The panel starts with a loaded file, no request and no save.
LEMMA InvInit == Init => IInv
<1>. SUFFICES ASSUME Init PROVE IInv
  OBVIOUS
<1>1. file \in Config
  BY DEF Init, Config
<1>2. Writing = {} /\ saving = {}
  BY DEF Init, Writing
<1>3. Cardinality(saving) <= 1
  BY <1>2, FS_EmptySet
<1>4. TypeOK
  BY <1>1, <1>2, <1>3, MaxCrashesNat, DefaultedType DEF Init, TypeOK, Saver, Steps
<1>. QED
  BY <1>1, <1>2, <1>4 DEF IInv, Init

\* A step of one saver outside its save leaves saveMu and the writers alone.
LEMMA OutsideSave ==
  ASSUME IInv, NEW r \in Saver, pc[r] \notin {"write", "rename"},
         NEW to \in Steps \ {"write", "rename"},
         pc' = [pc EXCEPT ![r] = to]
  PROVE  /\ Writing' = Writing
         /\ \A q \in Saver : pc'[q] = "rename" => pc[q] = "rename" /\ q # r
  BY DEF IInv, TypeOK, Writing

\* Every step of a request's own code keeps the invariant.
LEMMA InvRequest ==
  ASSUME IInv, NEW r \in Poster, Request(r)
  PROVE  IInv'
<1>. USE DEF IInv, At
<1>. r \in Saver
  BY DEF Saver
<1>1. CASE Receive(r)
  <2>1. TypeOK'
    BY <1>1 DEF Receive, TypeOK, Steps
  <2>. QED
    BY <1>1, <2>1, OutsideSave DEF Receive, TypeOK, Steps, Done
<1>2. CASE Clone(r)
  <2>1. Changed(r) \in Config
    BY DEF Changed, mem, TypeOK, Config, Posts
  <2>2. TypeOK'
    BY <1>2, <2>1 DEF Clone, TypeOK, Steps
  <2>3. \A q \in Saver : q # r => cur'[q] = cur[q]
    BY <1>2 DEF Clone, TypeOK
  <2>. QED
    BY <1>2, <2>2, <2>3, OutsideSave DEF Clone, TypeOK, Steps, Done
<1>3. CASE CloneTorn(r)
  <2>1. TypeOK'
    BY <1>3 DEF CloneTorn, TypeOK, Steps, Done
  <2>. QED
    BY <1>3, <2>1, OutsideSave DEF CloneTorn, TypeOK, Steps, Done
<1>4. CASE SetCfg(r)
  <2>1. TypeOK'
    BY <1>4 DEF SetCfg, TypeOK, Steps
  <2>. QED
    BY <1>4, <2>1, OutsideSave DEF SetCfg, TypeOK, Steps, Done
<1>. QED
  BY <1>1, <1>2, <1>3, <1>4 DEF Request

\* A save keeps the invariant, whoever saves.
LEMMA InvSave ==
  ASSUME IInv, NEW r \in Saver, Save(r)
  PROVE  IInv'
<1>. USE DEF IInv, At
<1>3. CASE StartSave(r)
  <2>1. Writing' = {r}
    BY <1>3 DEF StartSave, TypeOK, Writing
  <2>2. saving' = {r} /\ Cardinality(saving') <= 1
    <3>1. saving' = {r}
      BY <1>3 DEF StartSave
    <3>2. Cardinality({r}) = 1
      BY FS_Singleton
    <3>. QED
      BY <3>1, <3>2
  <2>3. TypeOK'
    BY <1>3, <2>2 DEF StartSave, TypeOK, Steps
  <2>4. \A q \in Saver : pc'[q] # "rename"
    BY <1>3, <2>1 DEF StartSave, TypeOK, Writing
  <2>. QED
    BY <1>3, <2>1, <2>2, <2>3, <2>4 DEF StartSave
<1>4. CASE WriteTmp(r)
  <2>1. Writing' = Writing
    BY <1>4 DEF WriteTmp, TypeOK, Writing
  <2>2. TypeOK'
    BY <1>4 DEF WriteTmp, TypeOK, Steps
  <2>3. \A q \in Saver : pc'[q] = "rename" => q = r
    BY <1>4, <2>1 DEF WriteTmp, TypeOK, Writing
  <2>. QED
    BY <1>4, <2>1, <2>2, <2>3 DEF WriteTmp
<1>5. CASE Rename(r)
  <2>1. Writing' = {}
    BY <1>5 DEF Rename, TypeOK, Writing
  <2>2. file' \in Config
    BY <1>5 DEF Rename, TypeOK
  <2>3. TypeOK'
    BY <1>5, <2>2, FS_EmptySet DEF Rename, TypeOK, Steps, Done
  <2>. QED
    BY <1>5, <2>1, <2>2, <2>3 DEF Rename, Writing
<1>6. CASE SaveFails(r)
  <2>1. Writing' = {}
    BY <1>6 DEF SaveFails, Unsaved, TypeOK, Writing
  <2>2. TypeOK'
    BY <1>6, FS_EmptySet DEF SaveFails, Unsaved, TypeOK, Steps, Done
  <2>. QED
    BY <1>6, <2>1, <2>2 DEF SaveFails, Writing
<1>. QED
  BY <1>3, <1>4, <1>5, <1>6 DEF Save

\* UpdateConfig keeps it: what it changes in place is not about to be renamed, for it
\* is the configuration of a saver that is not writing.
LEMMA InvUpdate ==
  ASSUME IInv, NEW r \in Saver, Update(r)
  PROVE  IInv'
<1>. USE DEF IInv, At
<1>1. CASE UpdateProxy(r)
  <2>1. TypeOK'
    BY <1>1 DEF UpdateProxy, TypeOK, Steps, Done
  <2>2. pc' = [pc EXCEPT ![r] = "ok"] \/ pc' = [pc EXCEPT ![r] = "generate"]
    BY <1>1 DEF UpdateProxy
  <2>. QED
    BY <1>1, <2>1, <2>2, OutsideSave DEF UpdateProxy, TypeOK, Steps, Done
<1>2. CASE Generate(r)
  <2>1. cur' \in [Saver -> Config] /\ made' \in Nat
    BY <1>2 DEF Generate, TypeOK, Config
  <2>2. TypeOK'
    BY <1>2, <2>1 DEF Generate, TypeOK, Steps
  <2>3. \A q \in Saver : q # r => cur'[q] = cur[q]
    BY <1>2 DEF Generate, TypeOK
  <2>. QED
    BY <1>2, <2>2, <2>3, OutsideSave DEF Generate, TypeOK, Steps, Done
<1>. QED
  BY <1>1, <1>2 DEF Update

LEMMA InvMove ==
  ASSUME IInv, NEW r \in Saver, Move(r)
  PROVE  IInv'
  BY InvRequest, InvSave, InvUpdate DEF Move

\* A crash ends every save: nothing writes, and the file is what it was.
LEMMA InvCrash ==
  ASSUME IInv, Crash
  PROVE  IInv'
<1>. USE DEF IInv
<1>1. Writing' = {} /\ saving' = {}
  BY DEF Crash, Writing, Done
<1>2. Starter \in Saver /\ cur' \in [Saver -> Config]
  BY DefaultedType DEF Crash, TypeOK, Saver
<1>3. crashes' \in 0..MaxCrashes
  BY MaxCrashesNat DEF Crash, TypeOK
<1>4. pc' \in [Saver -> Steps]
  BY DEF Crash, TypeOK, Steps, Done
<1>5. TypeOK'
  BY <1>1, <1>2, <1>3, <1>4, FS_EmptySet DEF Crash, TypeOK
<1>6. \A q \in Saver : pc'[q] # "rename"
  BY DEF Crash, Done
<1>. QED
  BY <1>1, <1>5, <1>6 DEF Crash, Writing

\* The inductive invariant of the save: types, one writer, and a temporary file
\* that is complete when it is renamed (SaveToFile of internal/config).
THEOREM Invariant == Spec => []IInv
<1>1. ASSUME IInv, [Next]_vars PROVE IInv'
  <2>1. CASE UNCHANGED vars
    BY <1>1, <2>1 DEF IInv, TypeOK, Writing, vars
  <2>2. CASE Next
    BY <1>1, <2>2, InvMove, InvCrash, NextIsMove
  <2>. QED
    BY <1>1, <2>1, <2>2
<1>. QED
  BY InvInit, <1>1, PTL DEF Spec

\* Whatever the requests, the failing writes and the crashes, config.json is never
\* missing and never half written (the temporary file and rename of SaveToFile).
THEOREM FileAlwaysWhole == Spec => []FileWhole
<1>1. IInv => FileWhole
  BY ConfigIsWhole DEF IInv, FileWhole
<1>. QED
  BY <1>1, Invariant, PTL

-----------------------------------------------------------------------------
(* The answers. Once a post is past its decoding, nobody else can take a    *)
(* step as long as it is alone: the others have not come, or were over, and *)
(* main has started the panel.                                              *)

\* main at its start works on the file it has loaded, before any request.
BootInv ==
  /\ pc[Starter] \in {"update", "generate", "save", "write", "rename", "ok"}
  /\ \A r \in Poster : pc[r] \notin Done \cup {"idle"} => pc[Starter] = "ok"
  /\ pc[Starter] # "ok" =>
       /\ panel = Starter /\ running = Starter
       /\ Same(file, cur[Starter])
       /\ pc[Starter] = "update" => file.secret = cur[Starter].secret
       /\ pc[Starter] # "update" => file.secret = 0
       /\ pc[Starter] \in {"save", "write", "rename"} => Again(Starter)

\* What a post that is alone has reached at each stage.
Stage(r) ==
  /\ pc[r] \in {"set", "update", "generate"} => file = cur[r]
  /\ pc[r] \in {"update", "generate"} => panel = r
  /\ pc[r] = "generate" => cur[r].secret = 0 /\ running = r
  /\ pc[r] \in {"save", "write", "rename"} /\ Again(r) =>
       panel = r /\ running = r /\ Same(file, cur[r]) /\ file.secret = 0
  /\ pc[r] = "ok" =>
       /\ mem = served
       /\ Same(served, cur[r]) /\ Same(file, cur[r])
       /\ file.secret \in {0, served.secret}

\* With the history of answered posts, the whole invariant of the answers.
AckInv ==
  /\ \A r, q \in Poster : q \in seen[r] => pc[q] = "ok"
  /\ BootInv
  /\ \A r \in Poster : Alone(r) => Stage(r)

\* A loaded configuration is the same as the file's, and has its secret.
LEMMA DefaultedSame ==
  ASSUME NEW c \in Config
  PROVE  Same(c, Defaulted(c)) /\ Same(Defaulted(c), c) /\ Defaulted(c).secret = c.secret
  BY BlankType DEF Defaulted, Config, Same

\* Sameness is an equivalence, and a generated secret does not disturb it.
LEMMA SameRelation ==
  /\ \A c : Same(c, c)
  /\ \A c, d, e : Same(c, d) /\ Same(d, e) => Same(c, e)
  /\ \A c, d : Same(c, d) => Same(d, c)
  /\ \A c \in Config, n \in Nat : Same(c, [c EXCEPT !.secret = n])
  BY DEF Same, Defaulted, Config

LEMMA StarterIsSaver ==
  Starter \in Saver /\ Starter \notin Poster /\ \A r \in Poster : r \in Saver
  BY StarterIsNew DEF Saver

\* Who moves is not over, and no post becomes new again; nobody else moves.
LEMMA OverIsOver ==
  ASSUME TypeOK, NEW r \in Saver, Move(r)
  PROVE  /\ pc[r] \notin Done /\ pc'[r] # "idle"
         /\ pc' \in [Saver -> Steps]
         /\ \A q \in Saver \ {r} : pc'[q] = pc[q]
<1>. USE DEF TypeOK, At, Done, Steps
<1>1. CASE r \in Poster /\ Request(r)
  BY <1>1 DEF Request, Receive, Clone, CloneTorn, SetCfg
<1>2. CASE Save(r)
  BY <1>2 DEF Save, StartSave, WriteTmp, Rename, SaveFails, Unsaved
<1>3. CASE Update(r)
  BY <1>3 DEF Update, UpdateProxy, Generate
<1>. QED
  BY <1>1, <1>2, <1>3 DEF Move

\* Only a post that has just come looks at who has answered.
LEMMA SeenChanges ==
  ASSUME TypeOK, NEW r \in Saver, Move(r)
  PROVE  \/ seen' = seen
         \/ /\ r \in Poster /\ pc[r] = "idle"
            /\ seen' = [seen EXCEPT ![r] = {q \in Poster : pc[q] = "ok"}]
<1>1. CASE r \in Poster /\ Request(r)
  BY <1>1 DEF Request, Receive, Clone, CloneTorn, SetCfg, At
<1>2. CASE Save(r) \/ Update(r)
  BY <1>2 DEF Save, StartSave, WriteTmp, Rename, SaveFails, Update, UpdateProxy, Generate
<1>. QED
  BY <1>1, <1>2 DEF Move

\* Who was seen answered is still answered.
LEMMA SeenStays ==
  ASSUME IInv, AckInv, NEW r \in Saver, Move(r)
  PROVE  \A p, q \in Poster : q \in seen'[p] => pc'[q] = "ok"
<1>1. \A q \in Poster : pc[q] = "ok" => pc'[q] = "ok"
  BY OverIsOver, StarterIsSaver DEF IInv, Done
<1>2. \A p \in Poster : seen'[p] = seen[p] \/ seen'[p] = {q \in Poster : pc[q] = "ok"}
  BY SeenChanges DEF IInv, TypeOK
<1>. QED
  BY <1>1, <1>2 DEF AckInv

\* Who is alone after a step was alone before, and if it had come then the step is its
\* own, or main's at a start of the panel.
LEMMA AloneMovesItself ==
  ASSUME IInv, AckInv, NEW q \in Saver, Move(q),
         NEW r \in Poster, pc[r] # "idle", Alone(r)'
  PROVE  Alone(r) /\ q \in {r, Starter} /\ (pc[Starter] = "ok" => q = r)
<1>1. seen'[r] = seen[r]
  BY SeenChanges DEF IInv, TypeOK
<1>2. \A p \in Poster : pc'[p] = "idle" => pc[p] = "idle"
  BY OverIsOver, StarterIsSaver DEF IInv
<1>3. \A p \in Poster : p \in seen[r] => pc[p] = "ok"
  BY DEF AckInv
<1>4. Alone(r)
  BY <1>1, <1>2, <1>3 DEF Alone
<1>5. pc[q] \notin Done /\ pc'[q] # "idle"
  BY OverIsOver DEF IInv
<1>6. q \in Poster => q = r
  BY <1>1, <1>3, <1>5 DEF Alone, Done
<1>7. (pc[Starter] = "ok" => q \in Poster) /\ (q \in Poster \/ q = Starter)
  BY <1>5 DEF Saver, Done
<1>. QED
  BY <1>4, <1>6, <1>7

\* In the beginning nobody has answered, and main has loaded the file.
LEMMA AckInit == Init => AckInv
<1>. SUFFICES ASSUME Init PROVE AckInv
  OBVIOUS
<1>1. file \in Config
  BY DEF Init, Config
<1>2. BootInv
  BY <1>1, DefaultedSame, StarterIsSaver DEF Init, BootInv, Done
<1>3. \A r \in Poster : pc[r] = "idle"
  BY StarterIsSaver DEF Init
<1>. QED
  BY <1>2, <1>3 DEF AckInv, Stage, Init

\* main's start: from the loaded file, by way of a generated secret, to the panel.
LEMMA BootMove ==
  ASSUME IInv, AckInv, Move(Starter)
  PROVE  /\ BootInv'
         /\ mem' = served' /\ Same(served', served) /\ Same(file', file)
         /\ file.secret \in {0, served.secret} => file'.secret \in {0, served'.secret}
         /\ \A r \in Poster : cur'[r] = cur[r]
<1>. USE StarterIsSaver, SameRelation DEF IInv, TypeOK, At, Done
<1>0. /\ pc[Starter] # "ok" /\ panel = Starter /\ running = Starter
      /\ \A r \in Poster : pc[r] \in Done \cup {"idle"} /\ pc'[r] = pc[r]
  BY OverIsOver DEF AckInv, BootInv
<1>1. CASE StartSave(Starter) \/ WriteTmp(Starter)
  BY <1>0, <1>1 DEF StartSave, WriteTmp, AckInv, BootInv, Again, mem, served
<1>2. CASE Rename(Starter)
  BY <1>0, <1>2 DEF Rename, AckInv, BootInv, Again, mem, served
<1>3. CASE SaveFails(Starter)
  BY <1>0, <1>3 DEF SaveFails, Unsaved, AckInv, BootInv, Again, mem, served
<1>4. CASE UpdateProxy(Starter)
  BY <1>0, <1>4 DEF UpdateProxy, AckInv, BootInv, Again, mem, served
<1>5. CASE Generate(Starter)
  <2>1. /\ cur'[Starter] = [cur[Starter] EXCEPT !.secret = made + 1]
        /\ \A r \in Poster : cur'[r] = cur[r]
        /\ pc[Starter] = "generate" /\ pc'[Starter] = "save"
        /\ UNCHANGED <<file, panel, running>>
    BY <1>5 DEF Generate
  <2>2. cur[Starter] \in Config /\ made + 1 \in Nat \ {0}
    OBVIOUS
  <2>3. cur'[Starter].secret # 0 /\ Same(cur[Starter], cur'[Starter])
    BY <2>1, <2>2 DEF Config
  <2>4. Same(file, cur[Starter]) /\ file.secret = 0
    BY <1>0, <2>1 DEF AckInv, BootInv
  <2>5. Same(file', cur'[Starter])
    BY <2>1, <2>3, <2>4
  <2>6. BootInv'
    BY <1>0, <2>1, <2>3, <2>4, <2>5 DEF BootInv, Again
  <2>. QED
    BY <1>0, <2>1, <2>3, <2>4, <2>6 DEF mem, served
<1>. QED
  BY <1>1, <1>2, <1>3, <1>4, <1>5 DEF Move, Save, Update

\* A step of a post that is alone takes it to its next stage.
LEMMA StageMove ==
  ASSUME IInv, AckInv, NEW r \in Poster, Move(r), Alone(r)
  PROVE  Stage(r)'
<1>. USE StarterIsSaver, SameRelation DEF IInv, TypeOK, At
<1>1. CASE Receive(r) \/ CloneTorn(r)
  BY <1>1 DEF Receive, CloneTorn, Stage
<1>2. CASE Clone(r)
  <2>1. Changed(r) \in Config /\ Changed(r).secret = 0
    BY DEF Changed, mem, Config, Posts
  <2>. QED
    BY <1>2, <2>1 DEF Clone, Stage, Again
<1>3. CASE SetCfg(r)
  BY <1>3 DEF SetCfg, Stage, AckInv
<1>4. CASE StartSave(r) \/ WriteTmp(r)
  BY <1>4 DEF StartSave, WriteTmp, Stage, AckInv, Again
<1>5. CASE Rename(r)
  BY <1>5 DEF Rename, Stage, AckInv, Again, mem, served
<1>6. CASE SaveFails(r)
  BY <1>6 DEF SaveFails, Unsaved, Stage, AckInv, Again, mem, served
<1>7. CASE UpdateProxy(r)
  BY <1>7 DEF UpdateProxy, Stage, AckInv, Again, mem, served
<1>8. CASE Generate(r)
  <2>1. /\ cur'[r] = [cur[r] EXCEPT !.secret = made + 1]
        /\ pc[r] = "generate" /\ pc'[r] = "save"
        /\ UNCHANGED <<file, panel, running>>
    BY <1>8 DEF Generate
  <2>2. cur[r] \in Config /\ made + 1 \in Nat
    OBVIOUS
  <2>3. Same(cur[r], cur'[r])
    BY <2>1, <2>2
  <2>. QED
    BY <2>1, <2>3 DEF Stage, AckInv
<1>. QED
  BY <1>1, <1>2, <1>3, <1>4, <1>5, <1>6, <1>7, <1>8 DEF Move, Request, Save, Update

\* Every step of a post or of main keeps what is known of the answers.
LEMMA AckMove ==
  ASSUME IInv, AckInv, NEW q \in Saver, Move(q)
  PROVE  AckInv'
<1>. USE StarterIsSaver
<1>1. ASSUME q = Starter PROVE AckInv'
  <2>1. ASSUME NEW r \in Poster, Alone(r)' PROVE Stage(r)'
    <3>1. pc[r] \in Done \cup {"idle"} /\ pc'[r] = pc[r]
      BY <1>1, OverIsOver DEF IInv, AckInv, BootInv, Done
    <3>2. CASE pc[r] = "ok"
      <4>1. Alone(r)
        BY <3>2, AloneMovesItself, <2>1
      <4>2. /\ Same(served, cur[r]) /\ Same(file, cur[r])
            /\ file.secret \in {0, served.secret}
        BY <3>2, <4>1 DEF AckInv, Stage
      <4>3. /\ mem' = served' /\ Same(served', served) /\ Same(file', file)
            /\ file'.secret \in {0, served'.secret} /\ cur'[r] = cur[r]
        BY <1>1, <4>2, BootMove
      <4>. QED
        BY <3>1, <3>2, <4>2, <4>3, SameRelation DEF Stage
    <3>3. CASE pc[r] # "ok"
      BY <3>1, <3>3 DEF Stage, Done
    <3>. QED
      BY <3>2, <3>3
  <2>. QED
    BY <1>1, <2>1, BootMove, SeenStays DEF AckInv
<1>2. ASSUME q \in Poster PROVE AckInv'
  <2>1. pc[Starter] = "ok" /\ pc'[Starter] = "ok"
    <3>1. pc[q] = "idle" => pc[Starter] = "ok"
      BY <1>2 DEF Move, Request, Receive, Clone, CloneTorn, SetCfg, Save, StartSave, WriteTmp,
                  Rename, SaveFails, Update, UpdateProxy, Generate, At
    <3>2. pc[q] \notin Done
      BY OverIsOver DEF IInv
    <3>. QED
      BY <1>2, <3>1, <3>2, OverIsOver DEF IInv, AckInv, BootInv
  <2>2. BootInv'
    BY <2>1 DEF BootInv
  <2>3. ASSUME NEW r \in Poster, Alone(r)' PROVE Stage(r)'
    <3>1. CASE pc[r] # "idle"
      BY <2>1, <2>3, <3>1, AloneMovesItself, StageMove
    <3>2. CASE pc[r] = "idle"
      <4>1. pc'[r] \in {"idle", "decoded"}
        BY <1>2, <3>2 DEF Move, Request, Receive, Clone, CloneTorn, SetCfg, Save, StartSave,
              WriteTmp, Rename, SaveFails, Update, UpdateProxy, Generate, At, IInv, TypeOK
      <4>. QED
        BY <4>1 DEF Stage
    <3>. QED
      BY <3>1, <3>2
  <2>. QED
    BY <2>2, <2>3, SeenStays DEF AckInv
<1>. QED
  BY <1>1, <1>2 DEF Saver

\* A crash loads the file, which holds what the last answered post saved.
LEMMA AckCrash ==
  ASSUME IInv, AckInv, Crash
  PROVE  AckInv'
<1>. USE StarterIsSaver
<1>1. /\ \A r \in Poster : pc'[r] \in Done \cup {"idle"}
      /\ \A r \in Poster : pc'[r] \in {"idle", "ok"} => pc[r] = pc'[r]
      /\ \A r \in Poster : pc[r] = "ok" => pc'[r] = "ok"
      /\ pc'[Starter] = "update"
  BY DEF Crash, IInv, TypeOK, Done
<1>2. /\ UNCHANGED <<file, seen>> /\ panel' = Starter /\ running' = Starter
      /\ cur'[Starter] = Defaulted(file) /\ \A r \in Poster : cur'[r] = cur[r]
  BY DEF Crash, IInv, TypeOK
<1>3. Same(file, Defaulted(file)) /\ Defaulted(file).secret = file.secret
  BY DefaultedSame DEF IInv
<1>4. BootInv'
  BY <1>1, <1>2, <1>3 DEF BootInv
<1>5. \A r \in Poster : Alone(r)' => Alone(r)
  BY <1>1, <1>2 DEF Alone
<1>6. ASSUME NEW r \in Poster, Alone(r)', pc'[r] = "ok" PROVE Stage(r)'
  <2>1. Same(file, cur[r])
    BY <1>1, <1>5, <1>6 DEF AckInv, Stage
  <2>. QED
    BY <1>2, <1>3, <1>6, <2>1, SameRelation DEF Stage, mem, served
<1>7. \A r \in Poster : pc'[r] # "ok" => Stage(r)'
  BY <1>1 DEF Stage, Done
<1>. QED
  BY <1>1, <1>2, <1>4, <1>6, <1>7 DEF AckInv

LEMMA AckStep ==
  ASSUME IInv, AckInv, [Next]_vars
  PROVE  AckInv'
<1>1. CASE UNCHANGED vars
  BY <1>1 DEF AckInv, BootInv, Stage, Alone, Same, Defaulted, Again, mem, served, vars
<1>2. CASE Next
  BY <1>2, AckMove, AckCrash, NextIsMove
<1>. QED
  BY <1>1, <1>2

\* An answer "success" is durable: a crash at any later point brings back what was
\* posted, in the panel and in the proxy, with the secret that was saved if one was
\* (persist, UpdateConfig and SaveToFile before the answer, Load after the crash).
THEOREM AckIsDurable == Spec => []AckDurable
<1>1. AckInv => AckDurable
  BY DEF AckInv, Stage, AckDurable
<1>. QED
  BY AckInit, AckStep, <1>1, Invariant, PTL DEF Spec

-----------------------------------------------------------------------------
(* The refreshes. *)

\* A refresh works with the setting of the posts it came after.
ObeyInv ==
  /\ enabled \in [All -> BOOLEAN] /\ asked \in [All -> SUBSET Poster]
  /\ \A f \in All : \A r \in asked[f] :
       /\ pc[r] = "ok"
       /\ Alone(r) => enabled[f] = FallbackEnabled(cur[r])

\* Neither the defaults nor a generated secret change the setting.
LEMMA FallbackOfSame ==
  ASSUME NEW c \in Config, NEW d \in Config, Same(c, d)
  PROVE  FallbackEnabled(c) = FallbackEnabled(d)
  BY BlankType, FallbackSections DEF FallbackEnabled, Same, Defaulted, Config

\* The refreshes leave the posts to themselves: DCTable adds to ConfigStore and
\* changes nothing of it.
LEMMA TableStep ==
  ASSUME [TableNext]_allVars
  PROVE  [Next]_vars
<1>1. CASE Restart
  BY <1>1 DEF Restart, Next
<1>2. CASE Post
  BY <1>2 DEF Post, Next
<1>3. ASSUME NEW f \in All, Refresh(f) PROVE UNCHANGED vars
  BY <1>3 DEF Refresh, Ask, Download, Install, OfficialFails, LastFails, Show, RefreshAt
<1>. QED
  BY <1>1, <1>2, <1>3 DEF TableNext, allVars

\* The panel beside the refreshes is the panel: what holds of ConfigStore holds of
\* DCTable.
THEOREM TableImplementsStore == TableSpec => Spec
<1>1. TableInit => Init
  BY DEF TableInit
<1>. QED
  BY <1>1, TableStep, PTL DEF TableSpec, Spec

\* The panel's setting, and the one a restart would load, is that of an answered post
\* that is alone.
LEMMA SettingOfAnswered ==
  ASSUME IInv, AckInv, NEW r \in Poster, pc[r] = "ok", Alone(r)
  PROVE  /\ FallbackEnabled(mem) = FallbackEnabled(cur[r])
         /\ FallbackEnabled(Defaulted(file)) = FallbackEnabled(cur[r])
<1>. USE StarterIsSaver
<1>1. mem \in Config /\ cur[r] \in Config /\ file \in Config /\ Defaulted(file) \in Config
  BY DefaultedType DEF IInv, TypeOK, mem
<1>2. Same(mem, cur[r]) /\ Same(file, cur[r])
  BY DEF AckInv, Stage
<1>3. Same(Defaulted(file), cur[r])
  BY <1>1, <1>2, DefaultedSame, SameRelation
<1>. QED
  BY <1>1, <1>2, <1>3, FallbackOfSame

\* A step of the panel, or of main at its start, keeps it.
LEMMA ObeyPost ==
  ASSUME IInv, AckInv, ObeyInv, Post
  PROVE  ObeyInv'
<1>. USE StarterIsSaver
<1>1. PICK q \in Saver : Move(q)
  BY DEF Post, Move
<1>2. enabled' = enabled /\ asked' = asked
  BY DEF Post, refreshVars
<1>3. ASSUME NEW f \in All, NEW r \in asked[f]
      PROVE  pc'[r] = "ok" /\ (Alone(r)' => enabled[f] = FallbackEnabled(cur'[r]))
  <2>1. r \in Poster /\ pc[r] = "ok"
    BY DEF ObeyInv
  <2>2. q # r /\ pc'[r] = "ok"
    BY <1>1, <2>1, OverIsOver DEF IInv, Done
  <2>3. ASSUME Alone(r)' PROVE enabled[f] = FallbackEnabled(cur'[r])
    <3>1. Alone(r) /\ q = Starter
      BY <1>1, <2>1, <2>2, <2>3, AloneMovesItself
    <3>2. cur'[r] = cur[r]
      BY <1>1, <2>1, <3>1, BootMove
    <3>. QED
      BY <3>1, <3>2 DEF ObeyInv
  <2>. QED
    BY <2>2, <2>3
<1>. QED
  BY <1>2, <1>3 DEF ObeyInv, FallbackEnabled

\* A step of a refresh keeps it.
LEMMA ObeyRefresh ==
  ASSUME IInv, AckInv, ObeyInv, NEW g \in All, Refresh(g)
  PROVE  ObeyInv'
<1>1. UNCHANGED vars
  BY DEF Refresh, Ask, Download, Install, OfficialFails, LastFails, Show, RefreshAt
<1>2. pc' = pc /\ \A r \in Poster : Alone(r)' = Alone(r) /\ FallbackEnabled(cur[r])' = FallbackEnabled(cur[r])
  BY <1>1 DEF vars, Alone, FallbackEnabled
<1>3. CASE Ask(g)
  <2>1. /\ enabled' = [enabled EXCEPT ![g] = FallbackEnabled(mem)]
        /\ asked' = [asked EXCEPT ![g] = Answered]
    BY <1>3 DEF Ask
  <2>2. FallbackEnabled(mem) \in BOOLEAN /\ Answered \subseteq Poster
    BY DEF FallbackEnabled, Answered
  <2>3. enabled' \in [All -> BOOLEAN] /\ asked' \in [All -> SUBSET Poster]
    BY <2>1, <2>2 DEF ObeyInv
  <2>4. ASSUME NEW f \in All, NEW r \in asked'[f]
        PROVE  pc[r] = "ok" /\ (Alone(r) => enabled'[f] = FallbackEnabled(cur[r]))
    <3>1. CASE f = g
      <4>1. enabled'[f] = FallbackEnabled(mem) /\ r \in Poster /\ pc[r] = "ok"
        BY <2>1, <3>1 DEF ObeyInv, Answered
      <4>. QED
        BY <4>1, SettingOfAnswered
    <3>2. CASE f # g
      BY <2>1, <3>2 DEF ObeyInv
    <3>. QED
      BY <3>1, <3>2
  <2>. QED
    BY <1>2, <2>3, <2>4 DEF ObeyInv
<1>4. CASE ~Ask(g)
  <2>1. enabled' = enabled /\ asked' = asked
    BY <1>4 DEF Refresh, Download, Install, OfficialFails, LastFails, Show
  <2>. QED
    BY <1>2, <2>1 DEF ObeyInv
<1>. QED
  BY <1>3, <1>4

\* A restart keeps it: main's refresh reads the setting that was loaded.
LEMMA ObeyRestart ==
  ASSUME IInv, AckInv, ObeyInv, Restart
  PROVE  ObeyInv'
<1>. USE StarterIsSaver
<1>1. /\ Crash /\ mem' = Defaulted(file) /\ seen' = seen
      /\ \A r \in Poster : cur'[r] = cur[r]
      /\ \A r \in Poster : pc'[r] \in {"idle", "ok"} => pc[r] = pc'[r]
      /\ \A r \in Poster : pc[r] = "ok" => pc'[r] = "ok"
  BY DEF Restart, Crash, IInv, TypeOK, Done, mem
<1>2. \A r \in Poster : Alone(r)' => Alone(r)
  BY <1>1 DEF Alone
<1>3. /\ enabled' = [enabled EXCEPT ![Main] = FallbackEnabled(mem')]
      /\ asked' = [asked EXCEPT ![Main] = Answered]
  BY DEF Restart
<1>4. FallbackEnabled(mem') \in BOOLEAN /\ Answered \subseteq Poster
  BY DEF FallbackEnabled, Answered
<1>5. enabled' \in [All -> BOOLEAN] /\ asked' \in [All -> SUBSET Poster]
  BY <1>3, <1>4 DEF ObeyInv
<1>6. ASSUME NEW f \in All, NEW r \in asked'[f]
      PROVE  pc'[r] = "ok" /\ (Alone(r)' => enabled'[f] = FallbackEnabled(cur'[r]))
  <2>1. CASE f = Main
    <3>1. enabled'[f] = FallbackEnabled(Defaulted(file)) /\ r \in Poster /\ pc[r] = "ok"
      BY <1>1, <1>3, <2>1 DEF ObeyInv, Answered, All, FallbackEnabled
    <3>. QED
      BY <1>1, <1>2, <3>1, SettingOfAnswered
  <2>2. CASE f # Main
    <3>1. r \in asked[f] /\ enabled'[f] = enabled[f] /\ r \in Poster
      BY <1>3, <2>2 DEF ObeyInv
    <3>. QED
      BY <1>1, <1>2, <3>1 DEF ObeyInv
  <2>. QED
    BY <2>1, <2>2
<1>. QED
  BY <1>5, <1>6 DEF ObeyInv, FallbackEnabled

\* An answered change of the configuration is durable, and the refreshes that come
\* after it work with it, those of a restarted process included.
THEOREM AckIsObeyed == TableSpec => []AckObeyed
<1>1. TableInit => AckInv /\ ObeyInv
  BY AckInit DEF TableInit, ObeyInv, FallbackEnabled
<1>2. ASSUME IInv, AckInv, ObeyInv, [TableNext]_allVars
      PROVE  AckInv' /\ ObeyInv'
  <2>1. AckInv'
    BY <1>2, TableStep, AckStep
  <2>2. ASSUME UNCHANGED allVars PROVE ObeyInv'
    BY <1>2, <2>2 DEF ObeyInv, Alone, FallbackEnabled, allVars, vars, refreshVars
  <2>3. ASSUME TableNext PROVE ObeyInv'
    BY <1>2, <2>3, ObeyPost, ObeyRefresh, ObeyRestart DEF TableNext
  <2>. QED
    BY <1>2, <2>1, <2>2, <2>3
<1>3. AckInv /\ ObeyInv => AckObeyed
  BY DEF AckInv, Stage, ObeyInv, AckObeyed, AckDurable
<1>. QED
  BY <1>1, <1>2, <1>3, TableImplementsStore, Invariant, PTL DEF TableSpec
=============================================================================
