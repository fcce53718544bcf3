--------------------------- MODULE UpdaterProofs ----------------------------
(***************************************************************************)
(* Proofs about Updater, for any number of requests and any pair of        *)
(* versions. What a step may rely on differs with what may go wrong in the *)
(* history, so the invariant is a conjunction of parts, each for the       *)
(* histories that it is about.                                             *)
(***************************************************************************)
EXTENDS Updater, TLAPS

Idle == {"idle"} \cup Over
Active(r) == pc[r] \notin Idle

\* Apply runs in the process only when the helper did not start.
HelperStarts == ~May("nohelper") => \A r \in Request : pc[r] \notin ApplySteps

\* The file that cp has open is the staged one until a script moves it.
Staging == \A r \in stagedBy : pc[r] \in {"copying", "copypart"}

\* The old binary leaves its place by a rename to the backup only. Apply removes
\* a backup, and the fallback of the script does without: both are excluded here.
OldGone ==
  trouble \subseteq {"overlap", "kill"} =>
    /\ dest # "old" => bak # "none"
    /\ \A r \in Request : pc[r] \in {"mv2", "cleanup", "restart"} => bak # "none"

\* What an installation has prepared when it is alone and gets to a step.
Prepared(r, step) ==
  /\ step = "untar" => dir = "part"
  /\ step = "cp" => dir = "new"
  /\ step = "copying" => r \in stagedBy /\ staged = "part"
  /\ step # "copypart"
  /\ step \in {"mv1", "mv2"} => staged = "new"
  /\ step \in {"cleanup", "restart"} => dest = "new"
  /\ step \in {"backup", "place"} => inproc = "new"
  /\ step \in {"last", "lastplace"} => inproc = "none"

Alone ==
  ~May("overlap") =>
    /\ \A q, r \in Request : Active(q) /\ Active(r) => q = r
    /\ \A r \in Request : Prepared(r, pc[r])
    /\ {dest, bak} \subseteq {"none", "old", "new"}
    /\ ran \subseteq {"new"}

\* Renames that work keep a whole binary at one of the two places.
Intact ==
  trouble \subseteq {"nohelper"} =>
    /\ dest \in {"old", "new"} \/ Between
    /\ \A r \in Request :
         /\ pc[r] = "place" => bak \in {"old", "new"}
         /\ pc[r] \notin {"last", "lastplace"}

IInv == TypeOK /\ HelperStarts /\ Staging /\ OldGone /\ Alone /\ Intact

Step == {"idle"} \cup ScriptSteps \cup ApplySteps \cup Over

\* The files and the two processes, without the places of the requests.
Files ==
  /\ {dest, bak} \subseteq Content
  /\ {staged, inproc, tgz, dir} \subseteq {"none", "part", "new"}
  /\ stagedBy \subseteq Request
  /\ ran \subseteq Content /\ process \in Content

\* What the invariant says of the one request r that is at a step, and so what is
\* left to show of the step that takes it there.
Here(r, step) ==
  /\ Files
  /\ r \in stagedBy => step \in {"copying", "copypart"}
  /\ step \in ApplySteps => May("nohelper")
  /\ trouble \subseteq {"overlap", "kill"} =>
       /\ dest # "old" => bak # "none"
       /\ step \in {"mv2", "cleanup", "restart"} => bak # "none"
  /\ ~May("overlap") =>
       Prepared(r, step) /\ {dest, bak} \subseteq {"none", "old", "new"} /\ ran \subseteq {"new"}
  /\ trouble \subseteq {"nohelper"} =>
       /\ dest \in {"old", "new"} \/ step \in {"mv2", "place", "lastplace"}
       /\ step = "place" => bak \in {"old", "new"}
       /\ step \notin {"last", "lastplace"}

\* No step takes away what the other requests rely on: the only backup, and that no
\* cp but its own has the staged file open.
Spares(r) ==
  /\ stagedBy' \subseteq stagedBy \cup {r}
  /\ trouble \subseteq {"overlap", "kill"} /\ bak # "none" => bak' # "none"

\* A request that is on its way is the only one, unless they may overlap.
LEMMA OthersIdle ==
  ASSUME IInv, NEW r \in Request, Active(r)
  PROVE  May("overlap") \/ \A q \in Request \ {r} : pc[q] \in Idle
  BY DEF IInv, Alone, Active

\* A step of one request keeps the invariant when it is good for that request: the
\* others are idle, or their parts of the invariant do not depend on it.
LEMMA StepKeeps ==
  ASSUME IInv, NEW r \in Request, NEW to \in Step,
         May("overlap") \/ \A q \in Request \ {r} : pc[q] \in Idle,
         pc' = [pc EXCEPT ![r] = to], trouble' = trouble,
         Here(r, to)', Spares(r)
  PROVE  IInv'
<1>. USE DEF IInv, May
<1>1. \A q \in Request : pc'[q] = IF q = r THEN to ELSE pc[q]
  BY DEF TypeOK
<1>2. TypeOK'
  <2>1. pc' \in [Request -> {"idle"} \cup ScriptSteps \cup ApplySteps \cup Over]
    BY DEF TypeOK, Step
  <2>. QED
    BY <2>1 DEF Here, Files, TypeOK
<1>3. HelperStarts'
  BY <1>1 DEF HelperStarts, Here
<1>4. Staging'
  BY <1>1 DEF Staging, Here, Spares, TypeOK
<1>5. OldGone'
  BY <1>1 DEF OldGone, Here, Spares
<1>6. Alone'
  <2>. SUFFICES ASSUME ~May("overlap") PROVE Alone'
    BY DEF Alone
  <2>1. \A q \in Request : q # r => pc'[q] \in Idle
    BY <1>1
  <2>2. \A q, p \in Request : Active(q)' /\ Active(p)' => q = p
    BY <2>1 DEF Active
  <2>3. \A q \in Request : Prepared(q, pc[q])'
    <3>1. Prepared(r, pc[r])'
      BY <1>1 DEF Here, Prepared
    <3>2. ASSUME NEW q \in Request, q # r PROVE Prepared(q, pc[q])'
      BY <2>1, <3>2 DEF Prepared, Idle, Over
    <3>. QED
      BY <3>1, <3>2
  <2>. QED
    BY <2>2, <2>3 DEF Here, Alone
<1>7. Intact'
  <2>. SUFFICES ASSUME trouble \subseteq {"nohelper"} PROVE Intact'
    BY DEF Intact
  <2>1. \A q \in Request : q # r => pc'[q] \in Idle
    BY <1>1
  <2>2. \A q \in Request : q # r => pc'[q] \notin {"place", "last", "lastplace"}
    BY <2>1 DEF Idle, Over
  <2>3. dest' \in {"old", "new"} \/ Between'
    BY <1>1 DEF Here, Between
  <2>. QED
    BY <1>1, <2>2, <2>3 DEF Here, Intact
<1>. QED
  BY <1>2, <1>3, <1>4, <1>5, <1>6, <1>7

\* The first installation finds the old binary and nothing else.
LEMMA InvInit == Init => IInv
<1>. SUFFICES ASSUME Init PROVE IInv
  OBVIOUS
<1>1. \A r \in Request : pc[r] = "idle"
  BY DEF Init
<1>2. TypeOK
  BY DEF Init, TypeOK, Content
<1>3. HelperStarts /\ Staging /\ OldGone /\ Intact
  BY <1>1 DEF Init, HelperStarts, Staging, OldGone, Intact, ApplySteps
<1>4. Alone
  BY <1>1 DEF Init, Alone, Active, Idle, Prepared
<1>. QED
  BY <1>2, <1>3, <1>4 DEF IInv

\* A request that is refused changes nothing but its own place.
LEMMA InvRefuse ==
  ASSUME IInv, NEW r \in Request, Refuse(r)
  PROVE  IInv'
<1>. USE DEF IInv, Refuse, At, paths, May
<1>1. /\ pc[r] = "idle" /\ \A q \in Request : pc'[q] = IF q = r THEN "failed" ELSE pc[q]
      /\ UNCHANGED <<dest, bak, staged, stagedBy, inproc, tgz, dir, ran, process, trouble>>
  BY DEF TypeOK
<1>2. TypeOK'
  BY <1>1 DEF TypeOK, Over
<1>3. HelperStarts' /\ Staging' /\ OldGone'
  BY <1>1 DEF HelperStarts, Staging, OldGone, ApplySteps, TypeOK
<1>4. Alone'
  <2>1. \A q \in Request : (Active(q)' => Active(q)) /\ (Prepared(q, pc[q]) => Prepared(q, pc[q])')
    BY <1>1 DEF Active, Idle, Over, Prepared
  <2>. QED
    BY <1>1, <2>1 DEF Alone
<1>5. Intact'
  BY <1>1 DEF Intact, Between
<1>. QED
  BY <1>2, <1>3, <1>4, <1>5

\* A step of a request that is on its way, or begins, is judged by that request.
LEMMA Moves ==
  ASSUME IInv, NEW r \in Request, NEW from \in Step, NEW to \in Step,
         from \notin Idle \/ May("overlap") \/ \A q \in Request : pc[q] \in Idle,
         At(r, from, to),
         Here(r, from) => Here(r, to)' /\ Spares(r)
  PROVE  IInv'
<1>1. May("overlap") \/ \A q \in Request \ {r} : pc[q] \in Idle
  BY OthersIdle DEF At, Active
<1>2. Here(r, pc[r])
  <2>1. trouble \subseteq {"nohelper"} =>
          dest \in {"old", "new"} \/ pc[r] \in {"mv2", "place", "lastplace"}
    BY <1>1 DEF IInv, Intact, Between, May, Idle, Over
  <2>2. /\ Files
        /\ r \in stagedBy => pc[r] \in {"copying", "copypart"}
        /\ pc[r] \in ApplySteps => May("nohelper")
        /\ trouble \subseteq {"overlap", "kill"} =>
             /\ dest # "old" => bak # "none"
             /\ pc[r] \in {"mv2", "cleanup", "restart"} => bak # "none"
    BY DEF IInv, HelperStarts, OldGone, Staging, TypeOK, Files
  <2>3. ~May("overlap") =>
          /\ Prepared(r, pc[r])
          /\ {dest, bak} \subseteq {"none", "old", "new"} /\ ran \subseteq {"new"}
    BY DEF IInv, Alone
  <2>4. trouble \subseteq {"nohelper"} =>
          (pc[r] = "place" => bak \in {"old", "new"}) /\ pc[r] \notin {"last", "lastplace"}
    BY DEF IInv, Intact
  <2>. QED
    BY <2>1, <2>2, <2>3, <2>4 DEF Here
<1>. QED
  BY <1>1, <1>2, StepKeeps DEF At

\* A request begins alone, unless requests may overlap.
LEMMA InvBegin ==
  ASSUME IInv, NEW r \in Request, Begin(r)
  PROVE  IInv'
<1>1. PICK to \in {"start", "fetch"} :
        At(r, "idle", to) /\ (to = "fetch" => May("nohelper"))
  BY DEF Begin
<1>2. {to, "idle"} \subseteq Step
  BY DEF Step, ScriptSteps, ApplySteps
<1>3. May("overlap") \/ \A q \in Request : pc[q] \in Idle
  BY DEF Begin, Idle
<1>4. ASSUME Here(r, "idle") PROVE Here(r, to)' /\ Spares(r)
  <2>1. UNCHANGED <<dest, bak, staged, stagedBy, inproc, tgz, dir, ran, process, trouble>>
    BY <1>1 DEF Begin, paths, At
  <2>2. Files' /\ Prepared(r, to)' /\ (to \in ApplySteps => May("nohelper")')
    BY <1>1, <1>4, <2>1 DEF Here, Files, Prepared, May, ApplySteps
  <2>. QED
    BY <1>1, <1>4, <2>1, <2>2 DEF Here, Spares, May
<1>. QED
  BY <1>1, <1>2, <1>3, <1>4, Moves

\* The names of the steps: all but the first and the last two are on the way.
LEMMA InStep ==
  /\ {"start", "download", "fetching", "tar", "untar", "cp", "copying", "copypart", "mv1",
      "mv2", "cleanup", "restart", "fetch", "stage", "backup", "place", "last",
      "lastplace"} \subseteq Step \ Idle
  /\ {"done", "failed"} \subseteq Step
  BY DEF Step, Idle, Over, ScriptSteps, ApplySteps

\* A step of the script keeps the invariant.
LEMMA InvScript ==
  ASSUME IInv, NEW r \in Request, Script(r)
  PROVE  IInv'
<1>. USE DEF Files, Here, Prepared, Spares, May, ApplySteps, Content
<1>1. CASE Clean(r)
  <2>1. At(r, "start", "download")
    BY <1>1 DEF Clean
  <2>2. /\ dir' = "none"
        /\ tgz' = "none"
        /\ UNCHANGED <<dest, bak, staged, stagedBy, inproc, ran, process, trouble>>
    BY <1>1, <2>1 DEF Clean, At, paths
  <2>3. ASSUME Here(r, "start") PROVE Here(r, "download")' /\ Spares(r)
    BY <2>2, <2>3
  <2>. QED
    BY <2>1, <2>3, InStep, Moves
<1>2. CASE StartDownload(r)
  <2>1. At(r, "download", "fetching")
    BY <1>2 DEF StartDownload
  <2>2. /\ tgz' = "part"
        /\ UNCHANGED <<dest, bak, staged, stagedBy, inproc, dir, ran, process, trouble>>
    BY <1>2, <2>1 DEF StartDownload, At, paths
  <2>3. ASSUME Here(r, "download") PROVE Here(r, "fetching")' /\ Spares(r)
    BY <2>2, <2>3
  <2>. QED
    BY <2>1, <2>3, InStep, Moves
<1>3. CASE NextAddress(r)
  <2>1. At(r, "fetching", "download")
    BY <1>3 DEF NextAddress
  <2>2. /\ UNCHANGED <<dest, bak, staged, stagedBy, inproc, tgz, dir, ran, process, trouble>>
    BY <1>3, <2>1 DEF NextAddress, At, paths
  <2>3. ASSUME Here(r, "fetching") PROVE Here(r, "download")' /\ Spares(r)
    BY <2>2, <2>3
  <2>. QED
    BY <2>1, <2>3, InStep, Moves
<1>4. CASE EndDownload(r)
  <2>1. ASSUME At(r, "fetching", "tar"), tgz' \in {"none", "new"},
               UNCHANGED <<dest, bak, staged, stagedBy, inproc, dir, ran, process, trouble>>
        PROVE  IInv'
    <3>1. ASSUME Here(r, "fetching") PROVE Here(r, "tar")' /\ Spares(r)
      BY <2>1, <3>1
    <3>. QED
      BY <2>1, <3>1, InStep, Moves
  <2>2. ASSUME At(r, "fetching", "failed"),
               UNCHANGED <<dest, bak, staged, stagedBy, inproc, tgz, dir, ran, process, trouble>>
        PROVE  IInv'
    <3>1. ASSUME Here(r, "fetching") PROVE Here(r, "failed")' /\ Spares(r)
      BY <2>2, <3>1
    <3>. QED
      BY <2>2, <3>1, InStep, Moves
  <2>. QED
    BY <1>4, <2>1, <2>2 DEF EndDownload, At, paths
<1>5. CASE StartUnpack(r)
  <2>1. ASSUME At(r, "tar", "untar"), dir' = "part",
               UNCHANGED <<dest, bak, staged, stagedBy, inproc, tgz, ran, process, trouble>>
        PROVE  IInv'
    <3>1. ASSUME Here(r, "tar") PROVE Here(r, "untar")' /\ Spares(r)
      BY <2>1, <3>1
    <3>. QED
      BY <2>1, <3>1, InStep, Moves
  <2>2. ASSUME At(r, "tar", "failed"),
               UNCHANGED <<dest, bak, staged, stagedBy, inproc, tgz, dir, ran, process, trouble>>
        PROVE  IInv'
    <3>1. ASSUME Here(r, "tar") PROVE Here(r, "failed")' /\ Spares(r)
      BY <2>2, <3>1
    <3>. QED
      BY <2>2, <3>1, InStep, Moves
  <2>. QED
    BY <1>5, <2>1, <2>2 DEF StartUnpack, At, paths
<1>6. CASE EndUnpack(r)
  <2>1. ASSUME At(r, "untar", "cp"), dir' = IF dir = "none" THEN "none" ELSE "new",
               UNCHANGED <<dest, bak, staged, stagedBy, inproc, tgz, ran, process, trouble>>
        PROVE  IInv'
    <3>1. ASSUME Here(r, "untar") PROVE Here(r, "cp")' /\ Spares(r)
      BY <2>1, <3>1
    <3>. QED
      BY <2>1, <3>1, InStep, Moves
  <2>2. ASSUME At(r, "untar", "failed"),
               UNCHANGED <<dest, bak, staged, stagedBy, inproc, tgz, dir, ran, process, trouble>>
        PROVE  IInv'
    <3>1. ASSUME Here(r, "untar") PROVE Here(r, "failed")' /\ Spares(r)
      BY <2>2, <3>1
    <3>. QED
      BY <2>2, <3>1, InStep, Moves
  <2>. QED
    BY <1>6, <2>1, <2>2 DEF EndUnpack, At, paths
<1>7. CASE StartCopy(r)
  <2>1. ASSUME At(r, "cp", "failed"),
               UNCHANGED <<dest, bak, staged, stagedBy, inproc, tgz, dir, ran, process, trouble>>
        PROVE  IInv'
    <3>1. ASSUME Here(r, "cp") PROVE Here(r, "failed")' /\ Spares(r)
      BY <2>1, <3>1
    <3>. QED
      BY <2>1, <3>1, InStep, Moves
  <2>2. ASSUME At(r, "cp", "copying"), staged' = "part" /\ stagedBy' = stagedBy \cup {r},
               UNCHANGED <<dest, bak, inproc, tgz, dir, ran, process, trouble>>
        PROVE  IInv'
    <3>1. ASSUME Here(r, "cp") PROVE Here(r, "copying")' /\ Spares(r)
      BY <2>2, <3>1
    <3>. QED
      BY <2>2, <3>1, InStep, Moves
  <2>3. ASSUME At(r, "cp", "copypart"), dir = "part",
               staged' = "part" /\ stagedBy' = stagedBy \cup {r},
               UNCHANGED <<dest, bak, inproc, tgz, dir, ran, process, trouble>>
        PROVE  IInv'
    <3>1. ASSUME Here(r, "cp") PROVE Here(r, "copypart")' /\ Spares(r)
      BY <2>3, <3>1
    <3>. QED
      BY <2>3, <3>1, InStep, Moves
  <2>. QED
    BY <1>7, <2>1, <2>2, <2>3 DEF StartCopy, At, paths
<1>8. CASE EndCopy(r)
  <2>1. stagedBy' = stagedBy \ {r} /\ UNCHANGED <<bak, inproc, tgz, dir, ran, process, trouble>>
    BY <1>8 DEF EndCopy, At
  <2>2. ASSUME At(r, "copying", "mv1"),
               IF r \in stagedBy THEN staged' = "new" /\ UNCHANGED dest
                 ELSE dest' = (IF dest = "part" THEN "new" ELSE dest) /\ UNCHANGED staged
        PROVE  IInv'
    <3>1. ASSUME Here(r, "copying") PROVE Here(r, "mv1")' /\ Spares(r)
      BY <2>1, <2>2, <3>1
    <3>. QED
      BY <2>2, <3>1, InStep, Moves
  <2>3. ASSUME At(r, "copypart", "mv1"), NEW c \in {"new", "part"},
               IF r \in stagedBy THEN staged' = c /\ UNCHANGED dest
                 ELSE dest' = (IF dest = "part" THEN c ELSE dest) /\ UNCHANGED staged
        PROVE  IInv'
    <3>1. ASSUME Here(r, "copypart") PROVE Here(r, "mv1")' /\ Spares(r)
      BY <2>1, <2>3, <3>1
    <3>. QED
      BY <2>3, <3>1, InStep, Moves
  <2>4. ASSUME NEW from \in {"copying", "copypart"}, At(r, from, "failed"),
               UNCHANGED <<staged, dest>>
        PROVE  IInv'
    <3>1. ASSUME Here(r, from) PROVE Here(r, "failed")' /\ Spares(r)
      BY <2>1, <2>4, <3>1
    <3>. QED
      BY <2>4, <3>1, InStep, Moves
  <2>. QED
    BY <1>8, <2>2, <2>3, <2>4 DEF EndCopy, At
<1>9. CASE Backup(r)
  <2>1. At(r, "mv1", "mv2")
    BY <1>9 DEF Backup
  <2>2. /\ dest' = "none"
        /\ bak' = (IF dest = "none" THEN bak ELSE dest) \/ (May("busy") /\ bak' = bak)
        /\ UNCHANGED <<staged, stagedBy, inproc, tgz, dir, ran, process, trouble>>
    BY <1>9, <2>1 DEF Backup, At, paths
  <2>3. ASSUME Here(r, "mv1") PROVE Here(r, "mv2")' /\ Spares(r)
    BY <2>2, <2>3
  <2>. QED
    BY <2>1, <2>3, InStep, Moves
<1>10. CASE Place(r)
  <2>1. ASSUME At(r, "mv2", "failed"), staged = "none",
               UNCHANGED <<dest, bak, staged, stagedBy, inproc, tgz, dir, ran, process, trouble>>
        PROVE  IInv'
    <3>1. ASSUME Here(r, "mv2") PROVE Here(r, "failed")' /\ Spares(r)
      BY <2>1, <3>1
    <3>. QED
      BY <2>1, <3>1, InStep, Moves
  <2>2. ASSUME At(r, "mv2", "cleanup"), staged # "none",
               dest' = staged /\ staged' = "none" /\ stagedBy' = {},
               UNCHANGED <<bak, inproc, tgz, dir, ran, process, trouble>>
        PROVE  IInv'
    <3>1. ASSUME Here(r, "mv2") PROVE Here(r, "cleanup")' /\ Spares(r)
      BY <2>2, <3>1
    <3>. QED
      BY <2>2, <3>1, InStep, Moves
  <2>. QED
    BY <1>10, <2>1, <2>2 DEF Place, At, paths
<1>11. CASE CleanUp(r)
  <2>1. At(r, "cleanup", "restart")
    BY <1>11 DEF CleanUp
  <2>2. /\ dir' = "none"
        /\ tgz' = "none"
        /\ UNCHANGED <<dest, bak, staged, stagedBy, inproc, ran, process, trouble>>
    BY <1>11, <2>1 DEF CleanUp, At, paths
  <2>3. ASSUME Here(r, "cleanup") PROVE Here(r, "restart")' /\ Spares(r)
    BY <2>2, <2>3
  <2>. QED
    BY <2>1, <2>3, InStep, Moves
<1>12. CASE Restart(r)
  <2>1. At(r, "restart", "done")
    BY <1>12 DEF Restart
  <2>2. /\ ran' = ran \cup {dest}
        /\ process' = dest
        /\ UNCHANGED <<dest, bak, staged, stagedBy, inproc, tgz, dir, trouble>>
    BY <1>12, <2>1 DEF Restart, At, paths
  <2>3. ASSUME Here(r, "restart") PROVE Here(r, "done")' /\ Spares(r)
    BY <2>2, <2>3
  <2>. QED
    BY <2>1, <2>3, InStep, Moves
<1>13. CASE Die(r)
  <2>1. /\ stagedBy' = stagedBy \ {r} /\ At(r, pc[r], "failed") /\ pc[r] \in ScriptSteps
        /\ May("kill")
        /\ UNCHANGED <<dest, bak, staged, inproc, tgz, dir, ran, process, trouble>>
    BY <1>13 DEF Die, At
  <2>2. pc[r] \in Step /\ pc[r] \notin Idle
    BY <2>1 DEF Step, ScriptSteps, Idle, Over
  <2>3. ASSUME Here(r, pc[r]) PROVE Here(r, "failed")' /\ Spares(r)
    BY <2>1, <2>3
  <2>. QED
    BY <2>1, <2>2, <2>3, InStep, Moves
<1>. QED
  BY <1>1, <1>2, <1>3, <1>4, <1>5, <1>6, <1>7, <1>8, <1>9, <1>10, <1>11, <1>12, <1>13 DEF Script

\* A step of Apply keeps the invariant.
LEMMA InvApply ==
  ASSUME IInv, NEW r \in Request, Apply(r)
  PROVE  IInv'
<1>. USE DEF Files, Here, Prepared, Spares, May, ApplySteps, Content
<1>1. CASE Fetch(r)
  <2>1. ASSUME At(r, "fetch", "stage"),
               UNCHANGED <<dest, bak, staged, stagedBy, inproc, tgz, dir, ran, process, trouble>>
        PROVE  IInv'
    <3>1. ASSUME Here(r, "fetch") PROVE Here(r, "stage")' /\ Spares(r)
      BY <2>1, <3>1
    <3>. QED
      BY <2>1, <3>1, InStep, Moves
  <2>2. ASSUME At(r, "fetch", "failed"),
               UNCHANGED <<dest, bak, staged, stagedBy, inproc, tgz, dir, ran, process, trouble>>
        PROVE  IInv'
    <3>1. ASSUME Here(r, "fetch") PROVE Here(r, "failed")' /\ Spares(r)
      BY <2>2, <3>1
    <3>. QED
      BY <2>2, <3>1, InStep, Moves
  <2>. QED
    BY <1>1, <2>1, <2>2 DEF Fetch, At, paths
<1>2. CASE Stage(r)
  <2>1. ASSUME At(r, "stage", "backup"), inproc' = "new" /\ bak' = "none",
               UNCHANGED <<dest, staged, stagedBy, tgz, dir, ran, process, trouble>>
        PROVE  IInv'
    <3>1. ASSUME Here(r, "stage") PROVE Here(r, "backup")' /\ Spares(r)
      BY <2>1, <3>1
    <3>. QED
      BY <2>1, <3>1, InStep, Moves
  <2>2. ASSUME At(r, "stage", "failed"), inproc' = "part",
               UNCHANGED <<dest, bak, staged, stagedBy, tgz, dir, ran, process, trouble>>
        PROVE  IInv'
    <3>1. ASSUME Here(r, "stage") PROVE Here(r, "failed")' /\ Spares(r)
      BY <2>2, <3>1
    <3>. QED
      BY <2>2, <3>1, InStep, Moves
  <2>. QED
    BY <1>2, <2>1, <2>2 DEF Stage, At, paths
<1>3. CASE RenameOld(r)
  <2>1. ASSUME At(r, "backup", "place"), dest # "none" /\ bak' = dest /\ dest' = "none",
               UNCHANGED <<staged, stagedBy, inproc, tgz, dir, ran, process, trouble>>
        PROVE  IInv'
    <3>1. ASSUME Here(r, "backup") PROVE Here(r, "place")' /\ Spares(r)
      BY <2>1, <3>1
    <3>. QED
      BY <2>1, <3>1, InStep, Moves
  <2>2. ASSUME At(r, "backup", "last"), (dest = "none" \/ May("busy")) /\ inproc' = "none",
               UNCHANGED <<dest, bak, staged, stagedBy, tgz, dir, ran, process, trouble>>
        PROVE  IInv'
    <3>1. ASSUME Here(r, "backup") PROVE Here(r, "last")' /\ Spares(r)
      BY <2>2, <3>1
    <3>. QED
      BY <2>2, <3>1, InStep, Moves
  <2>. QED
    BY <1>3, <2>1, <2>2 DEF RenameOld, At, paths
<1>4. CASE PlaceNew(r)
  <2>1. ASSUME At(r, "place", "restart"), inproc # "none" /\ dest' = inproc /\ inproc' = "none",
               UNCHANGED <<bak, staged, stagedBy, tgz, dir, ran, process, trouble>>
        PROVE  IInv'
    <3>1. ASSUME Here(r, "place") PROVE Here(r, "restart")' /\ Spares(r)
      BY <2>1, <3>1
    <3>. QED
      BY <2>1, <3>1, InStep, Moves
  <2>2. ASSUME At(r, "place", "failed"),
               IF bak = "none" THEN UNCHANGED <<dest, bak>> ELSE dest' = bak /\ bak' = "none",
               UNCHANGED <<staged, stagedBy, inproc, tgz, dir, ran, process, trouble>>
        PROVE  IInv'
    <3>1. ASSUME Here(r, "place") PROVE Here(r, "failed")' /\ Spares(r)
      BY <2>2, <3>1
    <3>. QED
      BY <2>2, <3>1, InStep, Moves
  <2>. QED
    BY <1>4, <2>1, <2>2 DEF PlaceNew, At, paths
<1>5. CASE RemoveOld(r)
  <2>1. ASSUME At(r, "last", "lastplace"), dest # "none" /\ dest' = "none",
               UNCHANGED <<bak, staged, stagedBy, inproc, tgz, dir, ran, process, trouble>>
        PROVE  IInv'
    <3>1. ASSUME Here(r, "last") PROVE Here(r, "lastplace")' /\ Spares(r)
      BY <2>1, <3>1
    <3>. QED
      BY <2>1, <3>1, InStep, Moves
  <2>2. ASSUME At(r, "last", "failed"),
               UNCHANGED <<dest, bak, staged, stagedBy, inproc, tgz, dir, ran, process, trouble>>
        PROVE  IInv'
    <3>1. ASSUME Here(r, "last") PROVE Here(r, "failed")' /\ Spares(r)
      BY <2>2, <3>1
    <3>. QED
      BY <2>2, <3>1, InStep, Moves
  <2>. QED
    BY <1>5, <2>1, <2>2 DEF RemoveOld, At, paths
<1>6. CASE PlaceLast(r)
  <2>1. ASSUME At(r, "lastplace", "failed"), inproc = "none" /\ dest' = "none" /\ inproc' = "none",
               UNCHANGED <<bak, staged, stagedBy, tgz, dir, ran, process, trouble>>
        PROVE  IInv'
    <3>1. ASSUME Here(r, "lastplace") PROVE Here(r, "failed")' /\ Spares(r)
      BY <2>1, <3>1
    <3>. QED
      BY <2>1, <3>1, InStep, Moves
  <2>2. ASSUME At(r, "lastplace", "restart"), inproc # "none" /\ dest' = inproc /\ inproc' = "none",
               UNCHANGED <<bak, staged, stagedBy, tgz, dir, ran, process, trouble>>
        PROVE  IInv'
    <3>1. ASSUME Here(r, "lastplace") PROVE Here(r, "restart")' /\ Spares(r)
      BY <2>2, <3>1
    <3>. QED
      BY <2>2, <3>1, InStep, Moves
  <2>. QED
    BY <1>6, <2>1, <2>2 DEF PlaceLast, At, paths
<1>. QED
  BY <1>1, <1>2, <1>3, <1>4, <1>5, <1>6 DEF Apply

\* The invariant holds throughout.
LEMMA Invariance == Spec => []IInv
<1>1. ASSUME IInv, [Next]_vars PROVE IInv'
  <2>1. CASE UNCHANGED vars
    BY <1>1, <2>1
    DEF vars, paths, IInv, TypeOK, HelperStarts, Staging, OldGone, Alone, Intact, Between, Active,
        Prepared, May
  <2>2. CASE Next
    BY <1>1, <2>2, InvBegin, InvRefuse, InvScript, InvApply DEF Next
  <2>. QED
    BY <1>1, <2>1, <2>2
<1>. QED
  BY InvInit, <1>1, PTL DEF Spec

\* Every file holds what it may hold, and every request is at a step there is.
THEOREM UpdaterTypes == Spec => []TypeOK
<1>1. IInv => TypeOK
  BY DEF IInv
<1>. QED
  BY <1>1, Invariance, PTL

\* With renames that work and no overlap, a whole binary is installed at all times but
\* between the two renames, whatever else failed before (the script's "mv ... || rm",
\* installBinary and its roll-back).
THEOREM BinaryStaysIntact == Spec => []BinaryIntact
<1>1. IInv => BinaryIntact
  BY DEF IInv, Intact, BinaryIntact
<1>. QED
  BY <1>1, Invariance, PTL

\* Without overlap the service is restarted with a whole new binary only.
THEOREM RestartsAreNew == Spec => []RestartedNew
<1>1. IInv => RestartedNew
  BY DEF IInv, Alone, RestartedNew
<1>. QED
  BY <1>1, Invariance, PTL

\* Scripts that are killed one after the other leave a whole binary at its place or
\* as the backup.
THEOREM KilledIsRecoverable == Spec => []Recoverable
<1>1. IInv => Recoverable
  <2>. SUFFICES ASSUME IInv, trouble = {"kill"} PROVE {dest, bak, staged} \cap {"old", "new"} # {}
    BY DEF Recoverable
  <2>1. dest # "old" => bak # "none"
    BY DEF IInv, OldGone
  <2>2. {dest, bak} \subseteq {"none", "old", "new"}
    BY DEF IInv, Alone, May
  <2>. QED
    BY <2>1, <2>2
<1>. QED
  BY <1>1, Invariance, PTL

\* However scripts overlap and die, the old binary leaves its place for the backup.
THEOREM OldIsKept == Spec => []OldKept
<1>1. IInv => OldKept
  BY DEF IInv, OldGone, OldKept
<1>. QED
  BY <1>1, Invariance, PTL
=============================================================================
