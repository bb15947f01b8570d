------------------------- MODULE AutoUpgradeProofs -------------------------
(***************************************************************************)
(* What is proved of AutoUpgrade, for any requests, archives and packages,  *)
(* whatever the operator replaces and wherever a script is stopped: what a  *)
(* preparation that is alone in its directory has done when it succeeds,    *)
(* and that no incomplete binary lasts where several overlap.               *)
(***************************************************************************)
EXTENDS AutoUpgrade, TLAPS

Extracting == {"extract", "push", "find", "copy"}
Typed ==
    /\ package \in [Archives -> Packages \cup {Nothing}]
    /\ exists \in SUBSET Archives
    /\ dir \in [Archives -> [Names -> File \cup {Nothing}]]
    /\ mount \in [Names -> [of : Packages, whole : BOOLEAN] \cup {Nothing}]
    /\ pc \in [Requests -> Active \cup Rest]
    /\ arch \in [Requests -> Archives]
    /\ mode \in [Requests -> {"online", "offline"}]
    /\ pkg \in [Requests -> Packages \cup {Nothing}]
    /\ pushed \in [Requests -> BOOLEAN]
    /\ todo \in [Requests -> SUBSET Names]
    /\ writing \in [Requests -> Names \cup {Nothing}]
    /\ k \in [Requests -> 1 .. Components + 1]
    /\ shared \in [Requests -> BOOLEAN]
    /\ copied \in [Requests -> SUBSET (Names \X File)]
    /\ spoilt \in BOOLEAN

(* What a script has in hand, given where it is.                            *)
Placed(r) ==
    /\ pc[r] \in Extracting => pkg[r] \in Packages
    /\ writing[r] # Nothing => pc[r] = "extract" /\ writing[r] \in todo[r]
    /\ pc[r] = "extract" => todo[r] \subseteq Contents[pkg[r]]
    /\ pc[r] = "copy" =>
          k[r] <= Components /\ \A f \in todo[r] : ComponentOf[f] = k[r] /\ Unsplit(arch[r], f)
    /\ pc[r] \notin {"find", "copy"} => k[r] = 1 /\ copied[r] = {}
AllPlaced == \A r \in Requests : Placed(r)

-----------------------------------------------------------------------------
(* One preparation in its directory.                                        *)

Complete(r) == [of |-> pkg[r], by |-> Nothing]
Mine(r) == [of |-> pkg[r], by |-> r]
Extract(r, f) ==
    IF f \in todo[r] THEN IF f = writing[r] THEN Mine(r) ELSE Nothing
    ELSE IF f \in Contents[pkg[r]] THEN Complete(r) ELSE Nothing
Unpacked(r, f) == IF f \in Contents[pkg[r]] THEN Complete(r) ELSE Nothing
Taken(r, f) == ComponentOf[f] < k[r] \/ (pc[r] = "copy" /\ ComponentOf[f] = k[r] /\ f \notin todo[r])

(* Alone, a preparation finds in its directory what it has put there: from  *)
(* the removal on nothing, then a part of its package, then all of it.      *)
Exact(r) ==
    /\ Beside(r) = {}
    /\ pc[r] = "make" => dir[arch[r]] = None
    /\ pc[r] = "extract" => \A f \in Names : dir[arch[r]][f] = Extract(r, f)
    /\ pc[r] \in {"push", "find", "copy"} =>
          \A f \in Names : dir[arch[r]][f] = Unpacked(r, f)
    /\ pc[r] \in {"push", "copy"} \/ k[r] > 1 => mode[r] = "offline"
    /\ pc[r] \in {"find", "copy"} =>
          /\ mode[r] = "offline" => pushed[r]
          /\ copied[r] = {<<f, Complete(r)>> : f \in {g \in Binaries(arch[r], pkg[r]) : Taken(r, g)}}
    /\ pc[r] = "copy" => todo[r] \subseteq Contents[pkg[r]]
AllExact == \A r \in Requests : pc[r] \in Script /\ ~shared[r] => Exact(r)

-----------------------------------------------------------------------------
(* Several preparations, none of which has failed.                          *)

(* A file that is being written is what its writer is at.                   *)
Written ==
    \A a \in Archives, f \in Names :
        dir[a][f] # Nothing /\ dir[a][f].by # Nothing =>
            LET x == dir[a][f].by IN
            pc[x] = "extract" /\ arch[x] = a /\ writing[x] = f /\ dir[a][f].of = pkg[x]

(* The archives are what they were when they were opened.                   *)
Opened == \A r \in Requests : pc[r] \in Extracting => pkg[r] = package[arch[r]]

(* A script that will put the file into its directory, and one that will    *)
(* copy it if it is there then.                                             *)
WillPut(r, f) ==
    \/ pc[r] = "make"
    \/ pc[r] = "extract" /\ f \in todo[r] /\ f # writing[r]
WillCopy(r, f) ==
    \/ pc[r] = "extract" /\ (f \notin todo[r] \/ f = writing[r])
    \/ pc[r] = "push"
    \/ pc[r] = "find" /\ k[r] <= ComponentOf[f]
    \/ pc[r] = "copy" /\ (k[r] < ComponentOf[f] \/ f \in todo[r])
CopyDue(r, f) ==
    LET a == arch[r] IN
    /\ package[a] # Nothing /\ f \in Contents[package[a]] /\ Unsplit(a, f)
    /\ WillPut(r, f) \/ (WillCopy(r, f) /\ dir[a][f] # Nothing)

(* An incomplete binary is copied once more.                                *)
TruncatedIsDue ==
    \A f \in Names : mount[f] # Nothing /\ ~mount[f].whole =>
        ComponentOf[f] # 0 /\ \E r \in Requests : CopyDue(r, f)

Unspoilt == ~spoilt => Written /\ Opened /\ TruncatedIsDue

Inv == Typed /\ AllPlaced /\ AllExact /\ Unspoilt

-----------------------------------------------------------------------------
(* TYPES                                                                    *)

LEMMA ReturnTyped ==
    ASSUME Typed, NEW r \in Requests, NEW result \in Rest, Return(r, result)
    PROVE  /\ pc' \in [Requests -> Active \cup Rest]
           /\ arch' \in [Requests -> Archives]
           /\ mode' \in [Requests -> {"online", "offline"}]
           /\ pkg' \in [Requests -> Packages \cup {Nothing}]
           /\ pushed' \in [Requests -> BOOLEAN]
           /\ todo' \in [Requests -> SUBSET Names]
           /\ writing' \in [Requests -> Names \cup {Nothing}]
           /\ k' \in [Requests -> 1 .. Components + 1]
           /\ shared' \in [Requests -> BOOLEAN]
           /\ copied' \in [Requests -> SUBSET (Names \X File)]
           /\ spoilt' \in BOOLEAN
  BY ComponentsAssumption DEF Typed, Return, Goto

LEMMA InitTyped == Init => Typed
<1> SUFFICES ASSUME Init PROVE Typed
  OBVIOUS
<1>1. None \in [Names -> File \cup {Nothing}]
  BY DEF None
<1>2. k \in [Requests -> 1 .. Components + 1]
  BY ComponentsAssumption DEF Init
<1>3. mount \in [Names -> [of : Packages, whole : BOOLEAN] \cup {Nothing}]
  BY DEF Init, None
<1>4. copied \in [Requests -> SUBSET (Names \X File)] /\ todo \in [Requests -> SUBSET Names]
  BY DEF Init
<1> QED BY <1>1, <1>2, <1>3, <1>4 DEF Init, Typed, Rest, Active

LEMMA ScriptTyped ==
    ASSUME Typed, AllPlaced, NEW r \in Requests, Begin(r) \/ Handle(r) \/ Abort(r)
    PROVE  Typed'
<1> USE DEF At, Goto, files, outside, script, history
<1>1. CASE Begin(r)
  BY <1>1 DEF Begin, Typed, Rest, Active
<1>2. CASE BuildScript(r)
  <2>1. CASE Return(r, "error")
    BY <1>2, <2>1, ReturnTyped DEF BuildScript, Typed, Rest
  <2>2. CASE ~Return(r, "error")
    <3>1. /\ UNCHANGED <<files, outside, arch, pkg, pushed, todo, writing, k, spoilt>>
          /\ pc' = [pc EXCEPT ![r] = "check"]
          /\ mode' = [mode EXCEPT ![r] = IF online THEN "online" ELSE "offline"]
      BY <1>2, <2>2 DEF BuildScript
    <3>2. shared' \in [Requests -> BOOLEAN]
      BY <1>2, <2>2 DEF BuildScript
    <3>3. copied' \in [Requests -> SUBSET (Names \X File)]
      BY <1>2, <2>2 DEF BuildScript, Typed
    <3> QED BY <3>1, <3>2, <3>3 DEF Typed, Active, Script
  <2> QED BY <2>1, <2>2
<1>3. CASE Check(r)
  <2>1. CASE Return(r, "error")
    BY <1>3, <2>1, ReturnTyped DEF Check, Typed, Rest
  <2>2. CASE ~Return(r, "error")
    BY <1>3, <2>2 DEF Check, Typed, Active, Script
  <2> QED BY <2>1, <2>2
<1>4. CASE RemoveDir(r)
  <2>0. PICK left \in [Names -> File \cup {Nothing}] : dir' = [dir EXCEPT ![arch[r]] = left]
    <3>1. CASE dir' = [dir EXCEPT ![arch[r]] = None]
      BY <3>1 DEF None
    <3>2. CASE dir' # [dir EXCEPT ![arch[r]] = None]
      <4>1. PICK gone \in SUBSET Names :
                dir' = [dir EXCEPT ![arch[r]] =
                           [f \in Names |-> IF f \in gone THEN Nothing ELSE @[f]]]
        BY <1>4, <3>2 DEF RemoveDir
      <4> DEFINE left == [f \in Names |-> IF f \in gone THEN Nothing ELSE dir[arch[r]][f]]
      <4>2. left \in [Names -> File \cup {Nothing}]
        BY DEF Typed
      <4>3. dir' = [dir EXCEPT ![arch[r]] = left]
        BY <4>1 DEF Typed
      <4> QED BY <4>2, <4>3
    <3> QED BY <3>1, <3>2
  <2>1. CASE Return(r, "error")
    <3>1. dir' \in [Archives -> [Names -> File \cup {Nothing}]]
      BY <2>0 DEF Typed
    <3>2. UNCHANGED <<package, exists, mount>>
      BY <1>4, <2>1 DEF RemoveDir, Return, Typed, Active
    <3> QED BY <2>1, <3>1, <3>2, ReturnTyped DEF Typed, Rest
  <2>2. CASE ~Return(r, "error")
    <3>1. dir' \in [Archives -> [Names -> File \cup {Nothing}]]
      BY <2>0 DEF Typed
    <3> QED BY <1>4, <2>2, <3>1 DEF RemoveDir, Typed, Active, Script
  <2> QED BY <2>1, <2>2
<1>5. CASE MakeDir(r)
  <2>1. CASE Return(r, "error")
    <3>1. exists' = exists \/ exists' = exists \cup {arch[r]}
      BY <1>5 DEF MakeDir
    <3>2. exists' \in SUBSET Archives
      BY <3>1 DEF Typed
    <3> QED BY <1>5, <2>1, <3>2, ReturnTyped DEF MakeDir, Typed, Rest
  <2>2. CASE ~Return(r, "error")
    <3>1. package[arch[r]] \in Packages /\ Contents[package[arch[r]]] \in SUBSET Names
      BY <1>5, <2>2, ContentsAssumption DEF MakeDir, Typed
    <3>2. exists' \in SUBSET Archives
      BY <1>5, <2>2 DEF MakeDir, Typed
    <3>3. /\ pkg' \in [Requests -> Packages \cup {Nothing}]
          /\ todo' \in [Requests -> SUBSET Names]
          /\ pc' \in [Requests -> Active \cup Rest]
      BY <1>5, <2>2, <3>1 DEF MakeDir, Typed, Active, Script
    <3>4. UNCHANGED <<arch, mode, pushed, writing, k, history, dir, mount, outside>>
      BY <1>5, <2>2 DEF MakeDir
    <3> QED BY <3>2, <3>3, <3>4 DEF Typed
  <2> QED BY <2>1, <2>2
<1>6. CASE OpenFile(r)
  <2>1. PICK f \in todo[r] :
            /\ writing' = [writing EXCEPT ![r] = f]
            /\ dir' = [dir EXCEPT ![arch[r]][f] = [of |-> pkg[r], by |-> r]]
    BY <1>6 DEF OpenFile
  <2>2. f \in Names /\ [of |-> pkg[r], by |-> r] \in File
    BY <1>6 DEF OpenFile, Typed, AllPlaced, Placed, Extracting, File
  <2>3. dir' \in [Archives -> [Names -> File \cup {Nothing}]]
    BY <2>1, <2>2 DEF Typed
  <2> QED BY <1>6, <2>1, <2>2, <2>3 DEF OpenFile, Typed
<1>7. CASE CloseFile(r)
  <2>1. [[of |-> pkg[r], by |-> r] EXCEPT !.by = Nothing] \in File
    BY <1>7 DEF CloseFile, Typed, AllPlaced, Placed, Extracting, File
  <2>2. dir' \in [Archives -> [Names -> File \cup {Nothing}]]
    BY <1>7, <2>1 DEF CloseFile, Typed
  <2> QED BY <1>7, <2>2 DEF CloseFile, Typed
<1>8. CASE Extracted(r)
  BY <1>8 DEF Extracted, Typed, Active, Script
<1>9. CASE Push(r)
  BY <1>9 DEF Push, Typed, Active, Script
<1>10. CASE Find(r)
  <2>1. CASE Return(r, "ok") \/ Return(r, "error")
    BY <1>10, <2>1, ReturnTyped DEF Find, Typed, Rest
  <2>2. CASE ~(Return(r, "ok") \/ Return(r, "error"))
    <3>1. UNCHANGED <<files, outside, arch, mode, pkg, pushed, writing, k, history>>
      BY <1>10, <2>2 DEF Find
    <3>2. PICK found \in SUBSET Names : todo' = [todo EXCEPT ![r] = found]
      BY <1>10, <2>2 DEF Find
    <3>3. pc' = [pc EXCEPT ![r] = "copy"]
      BY <1>10, <2>2 DEF Find
    <3> QED BY <3>1, <3>2, <3>3 DEF Typed, Active, Script
  <2> QED BY <2>1, <2>2
<1>11. CASE Copy(r)
  <2>1. PICK f \in todo[r] :
            /\ todo' = [todo EXCEPT ![r] = @ \ {f}]
            /\ mount' = IF dir[arch[r]][f] = Nothing THEN mount
                        ELSE [mount EXCEPT ![f] = Binary(dir[arch[r]][f])]
            /\ copied' = IF dir[arch[r]][f] = Nothing \/ shared[r] THEN copied
                         ELSE [copied EXCEPT ![r] = @ \cup {<<f, dir[arch[r]][f]>>}]
    BY <1>11 DEF Copy
  <2>2. f \in Names /\ dir[arch[r]][f] \in File \cup {Nothing}
    BY DEF Typed
  <2>3. dir[arch[r]][f] # Nothing =>
            Binary(dir[arch[r]][f]) \in [of : Packages, whole : BOOLEAN]
    BY <2>2 DEF Binary, File, Whole
  <2>4. mount' \in [Names -> [of : Packages, whole : BOOLEAN] \cup {Nothing}]
    BY <2>1, <2>2, <2>3 DEF Typed
  <2>5. copied' \in [Requests -> SUBSET (Names \X File)]
    BY <2>1, <2>2 DEF Typed
  <2> QED BY <1>11, <2>1, <2>4, <2>5 DEF Copy, Typed
<1>12. CASE Copied(r)
  <2>1. k' \in [Requests -> 1 .. Components + 1]
    BY <1>12, ComponentsAssumption DEF Copied, Typed, AllPlaced, Placed
  <2> QED BY <1>12, <2>1 DEF Copied, Typed, Active, Script
<1>13. CASE Abort(r)
  <2>1. mount' \in [Names -> [of : Packages, whole : BOOLEAN] \cup {Nothing}]
    <3>1. CASE mount' = mount
      BY <3>1 DEF Typed
    <3>2. CASE mount' # mount
      <4>1. PICK f \in todo[r] :
                /\ dir[arch[r]][f] # Nothing
                /\ mount' = [mount EXCEPT ![f] = [of |-> dir[arch[r]][f].of, whole |-> FALSE]]
        BY <1>13, <3>2 DEF Abort
      <4>2. f \in Names /\ dir[arch[r]][f].of \in Packages
        BY <4>1 DEF Typed, File
      <4> QED BY <4>1, <4>2 DEF Typed
    <3> QED BY <3>1, <3>2
  <2> QED BY <1>13, <2>1, ReturnTyped DEF Abort, Typed, Rest
<1> QED BY <1>1, <1>2, <1>3, <1>4, <1>5, <1>6, <1>7, <1>8, <1>9, <1>10, <1>11,
           <1>12, <1>13 DEF Handle

LEMMA OutsideTyped ==
    ASSUME Typed,
           \/ SwitchMode
           \/ \E a \in Archives, p \in Packages \cup {Nothing} : Replace(a, p)
    PROVE  Typed'
<1> USE DEF files, local, script, history
<1>1. CASE SwitchMode
  BY <1>1 DEF SwitchMode, Typed
<1>2. CASE \E a \in Archives, p \in Packages \cup {Nothing} : Replace(a, p)
  BY <1>2 DEF Replace, Typed
<1> QED BY <1>1, <1>2

-----------------------------------------------------------------------------
(* WHAT A STEP LEAVES ALONE                                                 *)

(* The locals of another preparation.                                       *)
Aside(q) ==
    /\ pc'[q] = pc[q] /\ arch'[q] = arch[q]
    /\ mode'[q] = mode[q] /\ pkg'[q] = pkg[q] /\ pushed'[q] = pushed[q]
    /\ todo'[q] = todo[q] /\ writing'[q] = writing[q] /\ k'[q] = k[q]
    /\ ~shared'[q] => ~shared[q] /\ copied'[q] = copied[q]
    /\ copied'[q] = copied[q] \/ copied'[q] = {}

LEMMA ReturnAside ==
    ASSUME Typed, NEW r \in Requests, NEW result \in Rest, Return(r, result),
           NEW q \in Requests \ {r}
    PROVE  Aside(q)
  BY DEF Typed, Return, Goto, Aside

LEMMA OthersAside ==
    ASSUME Typed, NEW r \in Requests, Begin(r) \/ Handle(r) \/ Abort(r),
           NEW q \in Requests \ {r}
    PROVE  Aside(q)
<1> USE DEF Goto, script, history, Rest
<1>1. CASE Begin(r)
  BY <1>1 DEF Begin, Typed, Aside
<1>2. CASE BuildScript(r)
  <2>1. CASE Return(r, "error")
    BY <2>1, ReturnAside
  <2>2. CASE ~Return(r, "error")
    BY <1>2, <2>2 DEF BuildScript, Typed, Aside
  <2> QED BY <2>1, <2>2
<1>3. CASE Check(r)
  BY <1>3, ReturnAside DEF Check, Typed, Aside
<1>4. CASE RemoveDir(r)
  BY <1>4, ReturnAside DEF RemoveDir, Typed, Aside
<1>5. CASE MakeDir(r)
  BY <1>5, ReturnAside DEF MakeDir, Typed, Aside
<1>6. CASE OpenFile(r)
  BY <1>6 DEF OpenFile, Typed, Aside
<1>7. CASE CloseFile(r)
  BY <1>7 DEF CloseFile, Typed, Aside
<1>8. CASE Extracted(r)
  BY <1>8 DEF Extracted, Typed, Aside
<1>9. CASE Push(r)
  BY <1>9 DEF Push, Typed, Aside
<1>10. CASE Find(r)
  BY <1>10, ReturnAside DEF Find, Typed, Aside
<1>11. CASE Copy(r)
  <2>1. \/ copied' = copied
        \/ \E s : copied' = [copied EXCEPT ![r] = s]
    BY <1>11 DEF Copy
  <2> QED BY <1>11, <2>1 DEF Copy, Typed, Aside
<1>12. CASE Copied(r)
  BY <1>12 DEF Copied, Typed, Aside
<1>13. CASE Abort(r)
  BY <1>13, ReturnAside DEF Abort
<1> QED BY <1>1, <1>2, <1>3, <1>4, <1>5, <1>6, <1>7, <1>8, <1>9, <1>10, <1>11,
           <1>12, <1>13 DEF Handle

(* The directories of the others, and all of them before the script runs.   *)
LEMMA OtherDirs ==
    ASSUME Typed, NEW r \in Requests, Begin(r) \/ Handle(r) \/ Abort(r),
           NEW a \in Archives, a # arch[r] \/ pc[r] \notin Script
    PROVE  dir'[a] = dir[a]
<1> USE DEF At, files, Script
<1>1. CASE RemoveDir(r)
  BY <1>1 DEF RemoveDir, Typed
<1>2. CASE OpenFile(r)
  BY <1>2 DEF OpenFile, Typed
<1>3. CASE CloseFile(r)
  BY <1>3 DEF CloseFile, Typed
<1>4. CASE ~(RemoveDir(r) \/ OpenFile(r) \/ CloseFile(r))
  <2>1. dir' = dir
    BY <1>4 DEF Begin, Handle, BuildScript, Check, MakeDir, Extracted, Push, Find,
                Copy, Copied, Abort
  <2> QED BY <2>1
<1> QED BY <1>1, <1>2, <1>3, <1>4

-----------------------------------------------------------------------------
(* WHAT A SCRIPT HAS IN HAND                                                *)

LEMMA ReturnPlaced ==
    ASSUME Typed, NEW r \in Requests, NEW result \in Rest, Return(r, result)
    PROVE  Placed(r)'
  BY DEF Typed, Return, Goto, Placed, Rest, Extracting

LEMMA OwnPlaced ==
    ASSUME Typed, AllPlaced, NEW r \in Requests, Begin(r) \/ Handle(r) \/ Abort(r)
    PROVE  Placed(r)'
<1> USE DEF At, Goto, script, history, Extracting
<1>h. Placed(r)
  BY DEF AllPlaced
<1>r. {"ok", "error"} \subseteq Rest
  BY DEF Rest
<1>1. CASE Begin(r)
  BY <1>1, <1>h DEF Begin, Typed, Placed, Rest
<1>2. CASE BuildScript(r)
  <2>1. CASE Return(r, "error")
    BY <2>1, <1>r, ReturnPlaced
  <2>2. CASE ~Return(r, "error")
    BY <1>2, <2>2, <1>h DEF BuildScript, Typed, Placed
  <2> QED BY <2>1, <2>2
<1>3. CASE Check(r)
  BY <1>3, <1>h, <1>r, ReturnPlaced DEF Check, Typed, Placed
<1>4. CASE RemoveDir(r)
  BY <1>4, <1>h, <1>r, ReturnPlaced DEF RemoveDir, Typed, Placed
<1>5. CASE MakeDir(r)
  <2>1. CASE Return(r, "error")
    BY <2>1, <1>r, ReturnPlaced
  <2>2. CASE ~Return(r, "error")
    <3>1. package[arch[r]] \in Packages
      BY <1>5, <2>2 DEF MakeDir, Typed
    <3>2. pkg'[r] = package[arch[r]] /\ todo'[r] = Contents[package[arch[r]]] /\ pc'[r] = "extract"
      BY <1>5, <2>2 DEF MakeDir, Typed
    <3>3. UNCHANGED <<writing, k, copied>>
      BY <1>5, <2>2 DEF MakeDir
    <3> QED BY <1>5, <1>h, <3>1, <3>2, <3>3 DEF MakeDir, Placed
  <2> QED BY <2>1, <2>2
<1>6. CASE OpenFile(r)
  BY <1>6, <1>h DEF OpenFile, Typed, Placed
<1>7. CASE CloseFile(r)
  BY <1>7, <1>h DEF CloseFile, Typed, Placed
<1>8. CASE Extracted(r)
  BY <1>8, <1>h DEF Extracted, Typed, Placed
<1>9. CASE Push(r)
  BY <1>9, <1>h DEF Push, Typed, Placed
<1>10. CASE Find(r)
  <2>1. CASE Return(r, "ok") \/ Return(r, "error")
    BY <2>1, <1>r, ReturnPlaced
  <2>2. CASE ~(Return(r, "ok") \/ Return(r, "error"))
    <3>1. UNCHANGED <<arch, pkg, writing, k, copied>> /\ ~(k[r] > Components)
      BY <1>10, <2>2 DEF Find
    <3>2. pc'[r] = "copy" /\ \A f \in todo'[r] : ComponentOf[f] = k[r] /\ Unsplit(arch[r], f)
      BY <1>10, <2>2 DEF Find, Typed
    <3>3. k[r] <= Components
      BY <3>1, ComponentsAssumption DEF Typed
    <3> QED BY <1>10, <1>h, <3>1, <3>2, <3>3 DEF Find, Placed
  <2> QED BY <2>1, <2>2
<1>11. CASE Copy(r)
  <2>1. todo'[r] \subseteq todo[r]
    BY <1>11 DEF Copy, Typed
  <2> QED BY <1>11, <1>h, <2>1 DEF Copy, Placed
<1>12. CASE Copied(r)
  BY <1>12, <1>h DEF Copied, Typed, Placed
<1>13. CASE Abort(r)
  BY <1>13, <1>r, ReturnPlaced DEF Abort
<1> QED BY <1>1, <1>2, <1>3, <1>4, <1>5, <1>6, <1>7, <1>8, <1>9, <1>10, <1>11,
           <1>12, <1>13 DEF Handle

LEMMA AsidePlaced ==
    ASSUME NEW q \in Requests, Placed(q), Aside(q)
    PROVE  Placed(q)'
  BY DEF Placed, Aside, Extracting

LEMMA ScriptPlaced ==
    ASSUME Typed, AllPlaced, NEW r \in Requests, Begin(r) \/ Handle(r) \/ Abort(r)
    PROVE  AllPlaced'
<1> SUFFICES ASSUME NEW q \in Requests PROVE Placed(q)'
  BY DEF AllPlaced
<1>1. CASE q = r
  BY <1>1, OwnPlaced
<1>2. CASE q # r
  BY <1>2, OthersAside, AsidePlaced DEF AllPlaced
<1> QED BY <1>1, <1>2

LEMMA InitPlaced == Init => AllPlaced
  BY DEF Init, AllPlaced, Placed, Extracting

-----------------------------------------------------------------------------
(* A PREPARATION ALONE IN ITS DIRECTORY                                     *)

(* It stays alone, or its history says so.                                  *)
LEMMA StillAlone ==
    ASSUME Typed, NEW r \in Requests, NEW x \in Requests,
           Begin(x) \/ Handle(x) \/ Abort(x),
           pc'[r] \in Script, ~shared'[r],
           pc[r] \in Script => Beside(r) = {}
    PROVE  Beside(r)' = {}
<1> USE DEF At, Goto, script, history
<1>1. CASE x = r /\ BuildScript(r) /\ ~Return(r, "error")
  <2>1. Beside(r) = {} /\ arch' = arch
    BY <1>1 DEF BuildScript, Typed
  <2>2. \A q \in Requests \ {r} : pc'[q] = pc[q]
    BY <1>1 DEF BuildScript, Typed
  <2> QED BY <2>1, <2>2 DEF Beside
<1>2. CASE x = r /\ ~(BuildScript(r) /\ ~Return(r, "error"))
  <2>1. pc[r] \in Script /\ arch'[r] = arch[r]
    <3>1. CASE Begin(r) \/ Abort(r) \/ BuildScript(r)
      BY <1>2, <3>1 DEF Typed, Begin, Abort, BuildScript, Return, Script, Rest
    <3>2. CASE ~(Begin(r) \/ Abort(r) \/ BuildScript(r))
      <4>1. pc[r] \in Script
        BY <1>2, <3>2 DEF Handle, Check, RemoveDir, MakeDir, OpenFile, CloseFile,
                          Extracted, Push, Find, Copy, Copied, Script
      <4>2. arch' = arch
        BY <1>2, <3>2 DEF Handle, Check, RemoveDir, MakeDir, OpenFile, CloseFile,
                          Extracted, Push, Find, Copy, Copied, Return
      <4> QED BY <4>1, <4>2
    <3> QED BY <3>1, <3>2
  <2>2. \A q \in Requests \ {r} : pc'[q] = pc[q] /\ arch'[q] = arch[q]
    BY <1>2, OthersAside DEF Aside
  <2> QED BY <2>1, <2>2 DEF Beside
<1>3. CASE x # r
  <2>1. Aside(r) /\ \A q \in Requests \ {r, x} : Aside(q)
    BY <1>3, OthersAside
  <2>2. pc[r] \in Script /\ arch'[r] = arch[r] /\ Beside(r) = {}
    BY <2>1 DEF Aside
  <2>3. ~(pc'[x] \in Script /\ arch'[x] = arch'[r])
    <3>1. CASE pc[x] \in Script
      <4>1. arch'[x] = arch[x]
        BY <3>1, <1>3 DEF Typed, Begin, Handle, Abort, BuildScript, Check, RemoveDir, MakeDir,
                OpenFile, CloseFile, Extracted, Push, Find, Copy, Copied, Return,
                Script, Rest
      <4> QED BY <3>1, <4>1, <2>2, <1>3 DEF Beside
    <3>2. CASE pc[x] \notin Script /\ BuildScript(x) /\ ~Return(x, "error")
      <4>1. arch' = arch /\ (r \in Beside(x) => shared'[r])
        BY <3>2 DEF BuildScript, Typed
      <4> QED BY <4>1, <2>2, <1>3 DEF Beside
    <3>3. CASE pc[x] \notin Script /\ ~(BuildScript(x) /\ ~Return(x, "error"))
      <4>1. pc'[x] \notin Script
        BY <3>3 DEF Typed, Begin, Handle, Abort, BuildScript, Check, RemoveDir, MakeDir,
                OpenFile, CloseFile, Extracted, Push, Find, Copy, Copied, Return,
                Script, Rest
      <4> QED BY <4>1
    <3> QED BY <3>1, <3>2, <3>3
  <2> QED BY <2>1, <2>2, <2>3 DEF Beside, Aside
<1> QED BY <1>1, <1>2, <1>3

LEMMA AsideExact ==
    ASSUME NEW q \in Requests, Exact(q), Aside(q), ~shared'[q],
           Beside(q)' = {}, dir'[arch[q]] = dir[arch[q]]
    PROVE  Exact(q)'
<1>1. /\ arch'[q] = arch[q] /\ pc'[q] = pc[q] /\ k'[q] = k[q] /\ mode'[q] = mode[q]
      /\ pushed'[q] = pushed[q] /\ copied'[q] = copied[q] /\ todo'[q] = todo[q]
      /\ pkg'[q] = pkg[q] /\ writing'[q] = writing[q]
  BY DEF Aside
<1>2. /\ Complete(q)' = Complete(q)
      /\ \A f : Extract(q, f)' = Extract(q, f) /\ Unpacked(q, f)' = Unpacked(q, f)
      /\ \A f : Taken(q, f)' = Taken(q, f)
  BY <1>1 DEF Complete, Extract, Unpacked, Taken, Mine
<1> QED BY <1>1, <1>2 DEF Exact

LEMMA NotAFile ==
    ASSUME NEW r \in Requests, pkg[r] \in Packages
    PROVE  Complete(r) # Nothing /\ Mine(r) # Nothing
  BY NothingAssumption DEF Complete, Mine, File

LEMMA Kinds ==
    ASSUME Typed, NEW r \in Requests
    PROVE  /\ k[r] \in Nat /\ k[r] >= 1 /\ Components \in Nat /\ Components >= 1
           /\ \A f \in Names : ComponentOf[f] \in Nat /\ ComponentOf[f] <= Components
  BY ComponentsAssumption DEF Typed

(* tar fills the directory, file by file.                                   *)
LEMMA FillsExactly ==
    ASSUME Typed, AllPlaced, NEW r \in Requests, Exact(r), Beside(r)' = {},
           MakeDir(r) \/ OpenFile(r) \/ CloseFile(r), pc'[r] \in Script
    PROVE  Exact(r)'
<1> USE DEF At, Goto, script
<1>h. Placed(r)
  BY DEF AllPlaced
<1>1. CASE MakeDir(r)
  <2>1. package[arch[r]] # Nothing /\ pc[r] = "make" /\ pc'[r] = "extract"
    BY <1>1 DEF MakeDir, Return, Typed, Script, Rest
  <2>2. /\ pkg'[r] = package[arch[r]] /\ todo'[r] = Contents[package[arch[r]]]
        /\ arch' = arch /\ dir' = dir /\ writing' = writing /\ k' = k /\ mode' = mode
    BY <1>1, <2>1 DEF MakeDir, Return, Typed
  <2>3. dir[arch[r]] = None /\ writing[r] = Nothing
    BY <2>1, <1>h DEF Exact, Placed
  <2>4. \A f \in Names : Extract(r, f)' = Nothing
    BY <2>2, <2>3, NothingAssumption DEF Extract
  <2>5. k'[r] = 1
    BY <2>1, <2>2, <1>h DEF Placed
  <2> QED BY <2>1, <2>2, <2>3, <2>4, <2>5 DEF Exact, None
<1>2. CASE OpenFile(r)
  <2>1. PICK f \in todo[r] :
            /\ writing' = [writing EXCEPT ![r] = f]
            /\ dir' = [dir EXCEPT ![arch[r]][f] = [of |-> pkg[r], by |-> r]]
    BY <1>2 DEF OpenFile
  <2>2. /\ pc[r] = "extract" /\ writing[r] = Nothing
        /\ UNCHANGED <<pc, arch, mode, pkg, pushed, todo, k>>
    BY <1>2 DEF OpenFile
  <2>3. writing'[r] = f /\ dir'[arch[r]] = [dir[arch[r]] EXCEPT ![f] = Mine(r)]
    BY <2>1 DEF Typed, Mine
  <2>4. \A g \in Names : dir'[arch[r]][g] = Extract(r, g)'
    <3> SUFFICES ASSUME NEW g \in Names PROVE dir'[arch[r]][g] = Extract(r, g)'
      OBVIOUS
    <3>1. dir[arch[r]][g] = Extract(r, g) /\ g # Nothing
      BY <2>2, NothingAssumption DEF Exact
    <3>2. dir[arch[r]] \in [Names -> File \cup {Nothing}]
      BY DEF Typed
    <3> QED BY <2>2, <2>3, <3>1, <3>2 DEF Extract, Mine, Complete
  <2>5. k[r] = 1
    BY <2>2, <1>h DEF Placed
  <2> QED BY <2>2, <2>4, <2>5 DEF Exact
<1>3. CASE CloseFile(r)
  <2> DEFINE f == writing[r]
  <2>1. /\ pc[r] = "extract" /\ f # Nothing
        /\ UNCHANGED <<pc, arch, mode, pkg, pushed, k>>
    BY <1>3 DEF CloseFile
  <2>2. f \in todo[r] /\ f \in Names /\ f \in Contents[pkg[r]]
    BY <2>1, <1>h DEF Placed, Typed
  <2>3. dir[arch[r]][f] = Mine(r)
    BY <2>1, <2>2 DEF Exact, Extract
  <2>4. [[of |-> pkg[r], by |-> r] EXCEPT !.by = Nothing] = Complete(r)
    BY DEF Complete
  <2>5. /\ writing'[r] = Nothing /\ todo'[r] = todo[r] \ {f}
        /\ dir'[arch[r]] = [dir[arch[r]] EXCEPT ![f] = Complete(r)]
    BY <1>3, <2>3, <2>4 DEF CloseFile, Typed, Mine
  <2>6. \A g \in Names : dir'[arch[r]][g] = Extract(r, g)'
    <3> SUFFICES ASSUME NEW g \in Names PROVE dir'[arch[r]][g] = Extract(r, g)'
      OBVIOUS
    <3>1. dir[arch[r]][g] = Extract(r, g) /\ g # Nothing
      BY <2>1, NothingAssumption DEF Exact
    <3>2. dir[arch[r]] \in [Names -> File \cup {Nothing}]
      BY DEF Typed
    <3> QED BY <2>1, <2>2, <2>5, <3>1, <3>2 DEF Extract, Mine, Complete
  <2>7. k[r] = 1
    BY <2>1, <1>h DEF Placed
  <2> QED BY <2>1, <2>6, <2>7 DEF Exact
<1> QED BY <1>1, <1>2, <1>3

(* Then its images are pushed.                                              *)
LEMMA PushesExactly ==
    ASSUME Typed, AllPlaced, NEW r \in Requests, Exact(r), Beside(r)' = {},
           Extracted(r) \/ Push(r)
    PROVE  Exact(r)'
<1> USE DEF At, Goto, script, history
<1>h. Placed(r)
  BY DEF AllPlaced
<1>1. /\ UNCHANGED <<dir, arch, mode, pkg, todo, writing, k, copied>>
      /\ pc[r] \in {"extract", "push"} /\ pc'[r] \in {"push", "find"}
  BY DEF Extracted, Push, files, Typed
<1>2. pkg[r] \in Packages /\ k[r] = 1 /\ copied[r] = {}
  BY <1>1, <1>h DEF Placed, Extracting
<1>3. ({<<f, Complete(r)>> : f \in {g \in Binaries(arch[r], pkg[r]) : Taken(r, g)}} = {})'
  <2> SUFFICES ASSUME NEW g \in Binaries(arch[r], pkg[r]) PROVE ~Taken(r, g)'
    BY <1>1
  <2>1. g \in Names /\ ComponentOf[g] # 0
    BY <1>2, ContentsAssumption DEF Binaries
  <2> QED BY <1>1, <1>2, <2>1, Kinds DEF Taken
<1>4. \A f \in Names : dir[arch[r]][f] = Unpacked(r, f)
  <2>1. CASE pc[r] = "extract"
    <3>1. todo[r] = {}
      BY <2>1 DEF Extracted, Push
    <3> QED BY <2>1, <3>1 DEF Exact, Extract, Unpacked
  <2>2. CASE pc[r] = "push"
    BY <2>2 DEF Exact
  <2> QED BY <1>1, <2>1, <2>2
<1>5. \A f \in Names : Unpacked(r, f)' = Unpacked(r, f)
  BY <1>1 DEF Unpacked, Complete
<1>6. pc'[r] = "push" => mode[r] = "offline"
  BY <1>1 DEF Extracted, Push, Typed
<1>7. pc'[r] = "find" /\ mode[r] = "offline" => pushed'[r]
  <2>1. CASE Extracted(r)
    BY <2>1 DEF Extracted, Typed
  <2>2. CASE Push(r)
    <3>1. \A f \in Contents[pkg[r]] : dir[arch[r]][f] = [of |-> pkg[r], by |-> Nothing]
      BY <1>2, <1>4, ContentsAssumption DEF Unpacked, Complete
    <3> QED BY <2>2, <3>1 DEF Push, Typed
  <2> QED BY <2>1, <2>2
<1> QED BY <1>1, <1>2, <1>3, <1>4, <1>5, <1>6, <1>7 DEF Exact

(* And its binaries are copied, kind by kind.                               *)
LEMMA CopiesExactly ==
    ASSUME Typed, AllPlaced, NEW r \in Requests, Exact(r), ~shared[r], Beside(r)' = {},
           Find(r) \/ Copy(r) \/ Copied(r), pc'[r] \in Script
    PROVE  Exact(r)'
<1> USE DEF At, Goto, script, history
<1>h. Placed(r)
  BY DEF AllPlaced
<1>1. /\ UNCHANGED <<dir, arch, mode, pkg, pushed, writing>>
      /\ pc[r] \in {"find", "copy"} /\ pc'[r] \in {"find", "copy"}
  BY DEF Find, Copy, Copied, files, Return, Typed, Script, Rest
<1>2. pkg[r] \in Packages /\ Complete(r) # Nothing
  BY <1>1, <1>h, NotAFile DEF Placed, Extracting
<1>3. \A f \in Names : dir[arch[r]][f] = Unpacked(r, f)
  BY <1>1 DEF Exact
<1>4. Complete(r)' = Complete(r) /\ \A f \in Names : Unpacked(r, f)' = Unpacked(r, f)
  BY <1>1 DEF Unpacked, Complete
<1>5. mode[r] = "offline" => pushed[r]
  BY <1>1 DEF Exact
<1>6. copied[r] = {<<f, Complete(r)>> : f \in {g \in Binaries(arch[r], pkg[r]) : Taken(r, g)}}
  BY <1>1 DEF Exact
<1>7. \A g \in Binaries(arch[r], pkg[r]) : g \in Names /\ g \in Contents[pkg[r]] /\ ComponentOf[g] # 0
                              /\ Unsplit(arch[r], g)
  BY <1>2, ContentsAssumption DEF Binaries
<1>s. SUFFICES /\ mode[r] = "offline"
               /\ copied'[r] = {<<f, Complete(r)>> :
                                   f \in {g \in Binaries(arch[r], pkg[r]) : Taken(r, g)'}}
               /\ pc'[r] = "copy" => todo'[r] \subseteq Contents[pkg[r]]
  BY <1>1, <1>3, <1>4, <1>5 DEF Exact
<1>8. CASE Find(r)
  <2>1. /\ pc[r] = "find" /\ pc'[r] = "copy" /\ mode[r] # "online"
        /\ UNCHANGED <<k, copied>>
    BY <1>8, <1>1 DEF Find, Return, Typed, Rest
  <2>2. todo'[r] = {f \in Names : ComponentOf[f] = k[r] /\ dir[arch[r]][f] # Nothing
                                                         /\ Unsplit(arch[r], f)}
    BY <1>8, <2>1 DEF Find, Return, Typed, Rest
  <2>3. \A f \in Names : dir[arch[r]][f] # Nothing <=> f \in Contents[pkg[r]]
    BY <1>2, <1>3 DEF Unpacked
  <2>4. \A g \in Binaries(arch[r], pkg[r]) : Taken(r, g)' <=> Taken(r, g)
    BY <1>7, <2>1, <2>2, <2>3 DEF Taken
  <2>5. {g \in Binaries(arch[r], pkg[r]) : Taken(r, g)'} = {g \in Binaries(arch[r], pkg[r]) : Taken(r, g)}
    BY <2>4
  <2>6. mode[r] = "offline"
    BY <2>1 DEF Typed
  <2>7. todo'[r] \subseteq Contents[pkg[r]]
    BY <2>2, <2>3
  <2> QED BY <1>6, <2>1, <2>5, <2>6, <2>7
<1>9. CASE Copy(r)
  <2>1. PICK f \in todo[r] :
            /\ todo' = [todo EXCEPT ![r] = @ \ {f}]
            /\ copied' = IF dir[arch[r]][f] = Nothing \/ shared[r] THEN copied
                         ELSE [copied EXCEPT ![r] = @ \cup {<<f, dir[arch[r]][f]>>}]
    BY <1>9 DEF Copy
  <2>2. pc[r] = "copy" /\ pc' = pc /\ k' = k
    BY <1>9 DEF Copy
  <2>3. todo[r] \subseteq Contents[pkg[r]] /\ mode[r] = "offline"
    BY <2>2 DEF Exact
  <2>4. f \in Names /\ f \in Contents[pkg[r]] /\ ComponentOf[f] = k[r] /\ Unsplit(arch[r], f)
    BY <2>2, <2>3, <1>h DEF Placed, Typed
  <2>5. f \in Binaries(arch[r], pkg[r])
    BY <2>4, Kinds DEF Binaries
  <2>6. dir[arch[r]][f] = Complete(r)
    BY <1>3, <2>4 DEF Unpacked
  <2>7. copied'[r] = copied[r] \cup {<<f, Complete(r)>>}
    BY <1>2, <2>1, <2>6 DEF Typed
  <2>8. \A g \in Binaries(arch[r], pkg[r]) : Taken(r, g)' <=> Taken(r, g) \/ g = f
    BY <2>1, <2>2, <2>4 DEF Taken, Typed
  <2>9. {g \in Binaries(arch[r], pkg[r]) : Taken(r, g)'} = {g \in Binaries(arch[r], pkg[r]) : Taken(r, g)} \cup {f}
    BY <2>5, <2>8
  <2>10. todo'[r] \subseteq Contents[pkg[r]]
    BY <2>1, <2>3 DEF Typed
  <2> QED BY <1>6, <2>3, <2>7, <2>9, <2>10
<1>10. CASE Copied(r)
  <2>1. /\ pc[r] = "copy" /\ pc'[r] = "find" /\ todo[r] = {} /\ copied' = copied
        /\ k'[r] = k[r] + 1
    BY <1>10 DEF Copied, Typed
  <2>2. \A g \in Binaries(arch[r], pkg[r]) : Taken(r, g)' <=> Taken(r, g)
    BY <1>7, <2>1, Kinds DEF Taken
  <2>3. {g \in Binaries(arch[r], pkg[r]) : Taken(r, g)'} = {g \in Binaries(arch[r], pkg[r]) : Taken(r, g)}
    BY <2>2
  <2>4. mode[r] = "offline"
    BY <2>1 DEF Exact
  <2> QED BY <1>6, <2>1, <2>3, <2>4
<1> QED BY <1>8, <1>9, <1>10

LEMMA OwnExact ==
    ASSUME Typed, AllPlaced, AllExact, NEW r \in Requests,
           Begin(r) \/ Handle(r) \/ Abort(r), pc'[r] \in Script, ~shared'[r]
    PROVE  Exact(r)'
<1> USE DEF At, Goto, script, history
<1>h. Placed(r)
  BY DEF AllPlaced
<1>1. ~shared[r]
  BY DEF Typed, Begin, Handle, Abort, BuildScript, Check, RemoveDir, MakeDir,
         OpenFile, CloseFile, Extracted, Push, Find, Copy, Copied, Return, Script, Rest
<1>2. pc[r] \in Script => Exact(r)
  BY <1>1 DEF AllExact
<1>3. Beside(r)' = {}
  BY <1>2, StillAlone DEF Exact
<1>4. CASE Begin(r) \/ Abort(r)
  BY <1>4 DEF Typed, Begin, Abort, Return, Script, Rest
<1>5. CASE BuildScript(r) \/ Check(r)
  <2>1. pc[r] \notin {"find", "copy"} /\ k' = k /\ pc'[r] \in {"check", "remove"}
    BY <1>5 DEF Typed, BuildScript, Check, Return, Script, Rest
  <2>2. k'[r] = 1
    BY <2>1, <1>h DEF Placed
  <2> QED BY <1>3, <2>1, <2>2 DEF Exact
<1>6. CASE RemoveDir(r)
  <2>1. pc[r] = "remove" /\ k' = k /\ pc'[r] = "make" /\ arch' = arch
    BY <1>6 DEF Typed, RemoveDir, Return, Script, Rest
  <2>2. dir'[arch[r]] = None
    BY <1>6, <2>1 DEF Typed, RemoveDir, Return, Script, Rest
  <2>3. k'[r] = 1
    BY <2>1, <1>h DEF Placed
  <2> QED BY <1>3, <2>1, <2>2, <2>3 DEF Exact
<1>7. CASE MakeDir(r) \/ OpenFile(r) \/ CloseFile(r)
  <2>1. Exact(r)
    BY <1>7, <1>2 DEF MakeDir, OpenFile, CloseFile, Script
  <2> QED BY <1>3, <1>7, <2>1, FillsExactly
<1>8. CASE Extracted(r) \/ Push(r)
  <2>1. Exact(r)
    BY <1>8, <1>2 DEF Extracted, Push, Script
  <2> QED BY <1>3, <1>8, <2>1, PushesExactly
<1>9. CASE Find(r) \/ Copy(r) \/ Copied(r)
  <2>1. Exact(r)
    BY <1>9, <1>2 DEF Find, Copy, Copied, Script
  <2> QED BY <1>1, <1>3, <1>9, <2>1, CopiesExactly
<1> QED BY <1>4, <1>5, <1>6, <1>7, <1>8, <1>9 DEF Handle

LEMMA ScriptExact ==
    ASSUME Typed, AllPlaced, AllExact, NEW x \in Requests, Begin(x) \/ Handle(x) \/ Abort(x)
    PROVE  AllExact'
<1> SUFFICES ASSUME NEW r \in Requests, pc'[r] \in Script, ~shared'[r]
             PROVE  Exact(r)'
  BY DEF AllExact
<1>1. CASE r = x
  BY <1>1, OwnExact
<1>2. CASE r # x
  <2>1. Aside(r)
    BY <1>2, OthersAside
  <2>2. pc[r] \in Script /\ ~shared[r] /\ Exact(r)
    BY <2>1 DEF Aside, AllExact
  <2>3. Beside(r)' = {}
    BY <2>2, StillAlone DEF Exact
  <2>4. arch[x] # arch[r] \/ pc[x] \notin Script
    BY <1>2, <2>2 DEF Exact, Beside
  <2>5. dir'[arch[r]] = dir[arch[r]]
    BY <2>4, OtherDirs DEF Typed
  <2> QED BY <2>1, <2>2, <2>3, <2>5, AsideExact
<1> QED BY <1>1, <1>2

-----------------------------------------------------------------------------
(* SEVERAL PREPARATIONS IN ONE DIRECTORY                                    *)

(* Steps of a preparation that answers no error, and what they are.         *)
LEMMA NoReturn ==
    ASSUME NEW r \in Requests, Begin(r) \/ Handle(r) \/ Abort(r), ~spoilt'
    PROVE  ~spoilt /\ ~Abort(r) /\ ~Return(r, "error")
<1>1. ~Return(r, "error")
  BY DEF Return
<1>2. ~Abort(r)
  BY <1>1 DEF Abort
<1>3. spoilt' = spoilt \/ Return(r, "ok")
  BY <1>1, <1>2 DEF Begin, Handle, BuildScript, Check, RemoveDir, MakeDir, OpenFile,
                    CloseFile, Extracted, Push, Find, Copy, Copied, history
<1>4. ~spoilt
  BY <1>3 DEF Return
<1> QED BY <1>1, <1>2, <1>4

LEMMA ScriptWritten ==
    ASSUME Typed, AllPlaced, Written, NEW r \in Requests,
           Begin(r) \/ Handle(r), ~Return(r, "error")
    PROVE  Written'
<1> USE DEF At, Goto, script, history
<1>h. Placed(r)
  BY DEF AllPlaced
<1> SUFFICES ASSUME NEW a \in Archives, NEW f \in Names,
                    dir'[a][f] # Nothing, dir'[a][f].by # Nothing
             PROVE  LET x == dir'[a][f].by IN
                    pc'[x] = "extract" /\ arch'[x] = a /\ writing'[x] = f
                    /\ dir'[a][f].of = pkg'[x]
  BY DEF Written
<1> DEFINE file == dir[a][f]
<1>1. CASE dir'[a][f] = file
  <2> DEFINE x == file.by
  <2>1. /\ x \in Requests /\ pc[x] = "extract" /\ arch[x] = a /\ writing[x] = f
        /\ file.of = pkg[x]
    BY <1>1 DEF Typed, File, Written
  <2>2. CASE x # r
    <3>1. Aside(x)
      BY <2>1, <2>2, OthersAside
    <3> QED BY <1>1, <2>1, <3>1 DEF Aside
  <2>3. CASE x = r
    <3>1. pc[r] = "extract" /\ writing[r] = f /\ arch[r] = a /\ file.of = pkg[r] /\ file.by = r
      BY <2>1, <2>3
    <3>2. f # Nothing /\ f \in todo[r]
      BY <3>1, <1>h, NothingAssumption DEF Placed
    <3>3. CloseFile(r)
      BY <3>1, <3>2 DEF Begin, Handle, BuildScript, Check, RemoveDir, MakeDir, OpenFile,
                        CloseFile, Extracted, Push, Find, Copy, Copied, Rest
    <3>4. file \in File
      BY <1>1 DEF Typed
    <3>5. file = [of |-> pkg[r], by |-> r]
      BY <3>1, <3>4 DEF File
    <3>6. dir'[a][f] = [file EXCEPT !.by = Nothing]
      BY <3>1, <3>3, <3>5 DEF CloseFile, Typed
    <3>7. dir'[a][f].by = Nothing
      BY <3>4, <3>6 DEF File
    <3> QED BY <3>7
  <2> QED BY <2>2, <2>3
<1>2. CASE dir'[a][f] # file
  <2>1. OpenFile(r)
    <3>1. CASE RemoveDir(r)
      <4>1. dir' = [dir EXCEPT ![arch[r]] = None]
        BY <3>1 DEF RemoveDir
      <4> QED BY <1>2, <4>1 DEF None, Typed
    <3>2. CASE CloseFile(r)
      <4>1. dir'[a][f] = [[of |-> pkg[r], by |-> r] EXCEPT !.by = Nothing]
        BY <1>2, <3>2 DEF CloseFile, Typed
      <4>2. dir'[a][f].by = Nothing
        BY <4>1
      <4> QED BY <4>2
    <3>3. CASE ~(RemoveDir(r) \/ CloseFile(r) \/ OpenFile(r))
      <4>1. dir' = dir
        BY <3>3 DEF Begin, Handle, BuildScript, Check, MakeDir, Extracted, Push, Find,
                    Copy, Copied, files
      <4> QED BY <1>2, <4>1
    <3> QED BY <3>1, <3>2, <3>3
  <2>2. PICK g \in todo[r] :
            /\ writing' = [writing EXCEPT ![r] = g]
            /\ dir' = [dir EXCEPT ![arch[r]][g] = [of |-> pkg[r], by |-> r]]
    BY <2>1 DEF OpenFile
  <2>3. pc[r] = "extract" /\ UNCHANGED <<pc, arch, pkg>>
    BY <2>1 DEF OpenFile
  <2>4. f = g /\ a = arch[r] /\ dir'[a][f] = [of |-> pkg[r], by |-> r]
    BY <1>2, <2>2 DEF Typed
  <2> QED BY <2>2, <2>3, <2>4 DEF Typed
<1> QED BY <1>1, <1>2

LEMMA ScriptOpened ==
    ASSUME Typed, AllPlaced, Opened, NEW r \in Requests,
           Begin(r) \/ Handle(r), ~Return(r, "error")
    PROVE  Opened'
<1> USE DEF At, Goto, script
<1> SUFFICES ASSUME NEW q \in Requests, pc'[q] \in Extracting
             PROVE  pkg'[q] = package'[arch'[q]]
  BY DEF Opened
<1>1. package' = package
  BY DEF Begin, Handle, BuildScript, Check, RemoveDir, MakeDir, OpenFile,
         CloseFile, Extracted, Push, Find, Copy, Copied, outside
<1>2. CASE q # r
  BY <1>1, <1>2, OthersAside DEF Aside, Opened
<1>3. CASE q = r /\ MakeDir(r)
  BY <1>1, <1>3 DEF MakeDir, Typed
<1>4. CASE q = r /\ ~MakeDir(r)
  <2>1. pc[r] \in Extracting /\ UNCHANGED <<arch, pkg>>
    BY <1>4 DEF Begin, Handle, BuildScript, Check, RemoveDir, OpenFile,
         CloseFile, Extracted, Push, Find, Copy, Copied, Return, Extracting, Rest, Typed
  <2> QED BY <1>1, <1>4, <2>1 DEF Opened
<1> QED BY <1>2, <1>3, <1>4

(* A file that is in a directory stays there, whatever becomes of it,       *)
(* unless the directory is removed.                                         *)
LEMMA FilesStay ==
    ASSUME Typed, AllPlaced, NEW r \in Requests, Begin(r) \/ Handle(r), ~RemoveDir(r),
           NEW a \in Archives, NEW f \in Names, dir[a][f] # Nothing
    PROVE  dir'[a][f] # Nothing
<1> USE DEF At
<1>h. pc[r] = "extract" => Complete(r) # Nothing /\ Mine(r) # Nothing
  BY NotAFile DEF AllPlaced, Placed, Extracting
<1>1. CASE OpenFile(r)
  BY <1>1, <1>h DEF OpenFile, Typed, Mine
<1>2. CASE CloseFile(r)
  <2>1. [[of |-> pkg[r], by |-> r] EXCEPT !.by = Nothing] = Complete(r)
    BY DEF Complete
  <2> QED BY <1>2, <1>h, <2>1 DEF CloseFile, Typed
<1>3. CASE ~(OpenFile(r) \/ CloseFile(r))
  <2>1. dir' = dir
    BY <1>3 DEF Begin, Handle, BuildScript, Check, MakeDir, Extracted, Push, Find,
                Copy, Copied, files
  <2> QED BY <2>1
<1> QED BY <1>1, <1>2, <1>3

(* A copy that is due stays so when its script goes on, until it is made.   *)
LEMMA OwnDue ==
    ASSUME Typed, AllPlaced, NEW r \in Requests, NEW f \in Names, ComponentOf[f] # 0,
           CopyDue(r, f), Begin(r) \/ Handle(r), ~Return(r, "error"),
           Copy(r) /\ f \in todo[r] => f \in todo'[r]
    PROVE  CopyDue(r, f)'
<1> USE DEF At, Goto, script, history
<1>h. Placed(r)
  BY DEF AllPlaced
<1>n. f # Nothing
  BY NothingAssumption
<1>1. package' = package
  BY DEF Begin, Handle, BuildScript, Check, RemoveDir, MakeDir, OpenFile,
         CloseFile, Extracted, Push, Find, Copy, Copied, outside
<1>2. pc[r] \in {"make", "extract", "push", "find", "copy"}
  BY DEF CopyDue, WillPut, WillCopy
<1>3. arch' = arch
  BY <1>2 DEF Begin, Handle, BuildScript, Check, RemoveDir, MakeDir, OpenFile,
         CloseFile, Extracted, Push, Find, Copy, Copied, Return, Rest
<1>4. ~RemoveDir(r)
  BY <1>2 DEF RemoveDir
<1>5. dir[arch[r]][f] # Nothing => dir'[arch[r]][f] # Nothing
  BY <1>4, FilesStay DEF Typed
<1>6. package[arch[r]] # Nothing /\ f \in Contents[package[arch[r]]] /\ Unsplit(arch[r], f)
  BY DEF CopyDue
<1>7. WillPut(r, f) \/ (WillCopy(r, f) /\ dir[arch[r]][f] # Nothing)
  BY DEF CopyDue
<1> SUFFICES WillPut(r, f)' \/ (WillCopy(r, f)' /\ dir'[arch[r]][f] # Nothing)
  BY <1>1, <1>3, <1>6 DEF CopyDue
<1>8. CASE MakeDir(r)
  <2>1. pc[r] = "make" /\ writing[r] = Nothing /\ writing' = writing
    BY <1>8, <1>h DEF MakeDir, Placed
  <2>2. pc'[r] = "extract" /\ todo'[r] = Contents[package[arch[r]]]
    BY <1>8 DEF MakeDir, Typed
  <2> QED BY <1>6, <1>n, <2>1, <2>2 DEF WillPut
<1>9. CASE OpenFile(r)
  <2>1. PICK g \in todo[r] :
            /\ writing' = [writing EXCEPT ![r] = g]
            /\ dir' = [dir EXCEPT ![arch[r]][g] = [of |-> pkg[r], by |-> r]]
    BY <1>9 DEF OpenFile
  <2>2. pc[r] = "extract" /\ writing[r] = Nothing /\ pc' = pc /\ todo' = todo
    BY <1>9 DEF OpenFile
  <2>3. writing'[r] = g
    BY <2>1 DEF Typed
  <2>4. CASE f = g
    <3>1. Mine(r) # Nothing
      BY <2>2, <1>h, NotAFile DEF Placed, Extracting
    <3>2. dir'[arch[r]][f] = Mine(r)
      BY <2>1, <2>4 DEF Typed, Mine
    <3> QED BY <2>2, <2>3, <2>4, <3>1, <3>2 DEF WillCopy
  <2>5. CASE f # g
    BY <1>5, <1>7, <1>n, <2>2, <2>3, <2>5 DEF WillPut, WillCopy
  <2> QED BY <2>4, <2>5
<1>10. CASE CloseFile(r)
  <2>1. /\ pc[r] = "extract" /\ pc' = pc
        /\ writing'[r] = Nothing /\ todo'[r] = todo[r] \ {writing[r]}
    BY <1>10 DEF CloseFile, Typed
  <2> QED BY <1>5, <1>7, <1>n, <2>1 DEF WillPut, WillCopy
<1>11. CASE Extracted(r)
  <2>1. pc[r] = "extract" /\ todo[r] = {} /\ pc'[r] \in {"push", "find"} /\ k'[r] = k[r]
    BY <1>11 DEF Extracted, Typed
  <2>2. k'[r] <= ComponentOf[f]
    BY <2>1, <1>h, Kinds DEF Placed
  <2> QED BY <1>5, <1>7, <2>1, <2>2 DEF WillPut, WillCopy
<1>12. CASE Push(r)
  <2>1. pc[r] = "push" /\ pc'[r] = "find" /\ k'[r] = k[r]
    BY <1>12 DEF Push, Typed
  <2>2. k'[r] <= ComponentOf[f]
    BY <2>1, <1>h, Kinds DEF Placed
  <2> QED BY <1>5, <1>7, <2>1, <2>2 DEF WillPut, WillCopy
<1>13. CASE Find(r)
  <2>1. pc[r] = "find" /\ k[r] <= ComponentOf[f] /\ dir[arch[r]][f] # Nothing
    BY <1>13, <1>7 DEF Find, WillPut, WillCopy
  <2>2. ~(k[r] > Components)
    BY <2>1, Kinds
  <2>3. pc'[r] = "copy" /\ k'[r] = k[r]
    BY <1>13, <2>2 DEF Find, Typed
  <2>4. todo'[r] = {g \in Names : ComponentOf[g] = k[r] /\ dir[arch[r]][g] # Nothing
                                                         /\ Unsplit(arch[r], g)}
    BY <1>13, <2>2 DEF Find, Typed
  <2>5. k[r] < ComponentOf[f] \/ f \in todo'[r]
    BY <1>6, <2>1, <2>4, Kinds
  <2> QED BY <1>5, <2>1, <2>3, <2>5 DEF WillCopy
<1>14. CASE Copy(r)
  <2>1. pc[r] = "copy" /\ pc' = pc /\ k' = k
    BY <1>14 DEF Copy
  <2>2. WillCopy(r, f) /\ dir[arch[r]][f] # Nothing
    BY <2>1, <1>7 DEF WillPut
  <2> QED BY <1>5, <1>14, <2>1, <2>2 DEF WillCopy
<1>15. CASE Copied(r)
  <2>1. pc[r] = "copy" /\ pc'[r] = "find" /\ todo[r] = {} /\ k'[r] = k[r] + 1
    BY <1>15 DEF Copied, Typed
  <2>2. k[r] < ComponentOf[f] /\ dir[arch[r]][f] # Nothing
    BY <1>7, <2>1 DEF WillPut, WillCopy
  <2>3. k'[r] <= ComponentOf[f]
    BY <2>1, <2>2, Kinds
  <2> QED BY <1>5, <2>1, <2>2, <2>3 DEF WillCopy
<1> QED BY <1>2, <1>8, <1>9, <1>10, <1>11, <1>12, <1>13, <1>14, <1>15
        DEF Handle, Begin, BuildScript, Check, RemoveDir, Rest

(* One that is due by another stays so, but for a script that removes the   *)
(* directory, which will put the file there itself and then copy it.        *)
LEMMA OthersDue ==
    ASSUME Typed, AllPlaced, NEW r \in Requests, NEW x \in Requests \ {r}, NEW f \in Names,
           CopyDue(x, f), Begin(r) \/ Handle(r), ~Return(r, "error")
    PROVE  \E y \in Requests : CopyDue(y, f)'
<1> USE DEF At, Goto, script, history
<1>1. package' = package
  BY DEF Begin, Handle, BuildScript, Check, RemoveDir, MakeDir, OpenFile,
         CloseFile, Extracted, Push, Find, Copy, Copied, outside
<1>2. Aside(x)
  BY OthersAside
<1>3. CASE RemoveDir(r) /\ arch[r] = arch[x]
  <2>1. pc'[r] = "make" /\ arch' = arch
    BY <1>3 DEF RemoveDir, Typed
  <2>2. CopyDue(r, f)'
    BY <1>1, <1>3, <2>1 DEF CopyDue, WillPut
  <2> QED BY <2>2
<1>4. CASE ~(RemoveDir(r) /\ arch[r] = arch[x])
  <2>1. arch[x] \in Archives
    BY DEF Typed
  <2>2. dir[arch[x]][f] # Nothing => dir'[arch[x]][f] # Nothing
    BY <1>4, <2>1, FilesStay, OtherDirs
  <2>3. CopyDue(x, f)'
    BY <1>1, <1>2, <2>2 DEF CopyDue, WillPut, WillCopy, Aside
  <2> QED BY <2>3
<1> QED BY <1>3, <1>4

(* An incomplete file is copied: its writer will copy it again.             *)
LEMMA WriterDue ==
    ASSUME Typed, AllPlaced, Written, Opened, NEW r \in Requests, NEW f \in Names,
           Copy(r), ~Return(r, "error"), pc[r] = "copy", Unsplit(arch[r], f),
           dir[arch[r]][f] # Nothing, dir[arch[r]][f].by # Nothing
    PROVE  \E y \in Requests : CopyDue(y, f)'
<1> DEFINE x == dir[arch[r]][f].by
<1>1. arch[r] \in Archives /\ dir[arch[r]][f] \in File
  BY DEF Typed
<1>2. x \in Requests /\ pc[x] = "extract" /\ arch[x] = arch[r] /\ writing[x] = f
  BY <1>1 DEF Written, File
<1>3. f # Nothing
  BY NothingAssumption
<1>4. pkg[x] = package[arch[x]] /\ pkg[x] \in Packages /\ f \in Contents[pkg[x]]
  BY <1>2, <1>3 DEF Opened, AllPlaced, Placed, Extracting
<1>u. Unsplit(arch[x], f)
  BY <1>2
<1>5. CopyDue(x, f)
  BY <1>2, <1>4, <1>u, NothingAssumption DEF CopyDue, WillCopy
<1>6. x \in Requests \ {r}
  BY <1>2
<1> HIDE DEF x
<1> QED BY <1>5, <1>6, OthersDue DEF Handle

LEMMA ScriptDue ==
    ASSUME Typed, AllPlaced, Written, Opened, TruncatedIsDue, NEW r \in Requests,
           Begin(r) \/ Handle(r), ~Return(r, "error")
    PROVE  TruncatedIsDue'
<1> USE DEF At, Goto, script, history
<1> SUFFICES ASSUME NEW f \in Names, mount'[f] # Nothing, ~mount'[f].whole
             PROVE  ComponentOf[f] # 0 /\ \E y \in Requests : CopyDue(y, f)'
  BY DEF TruncatedIsDue
<1>1. CASE Copy(r) /\ f \in todo[r] /\ f \notin todo'[r]
  <2>1. PICK g \in todo[r] :
            /\ todo' = [todo EXCEPT ![r] = @ \ {g}]
            /\ mount' = IF dir[arch[r]][g] = Nothing THEN mount
                        ELSE [mount EXCEPT ![g] = Binary(dir[arch[r]][g])]
    BY <1>1 DEF Copy
  <2>2. g = f /\ pc[r] = "copy"
    BY <1>1, <2>1 DEF Copy, Typed
  <2>3. ComponentOf[f] # 0 /\ Unsplit(arch[r], f)
    BY <1>1, <2>2, Kinds DEF AllPlaced, Placed
  <2>4. CASE dir[arch[r]][f] = Nothing
    <3>1. PICK x \in Requests : CopyDue(x, f)
      BY <2>1, <2>2, <2>4 DEF TruncatedIsDue
    <3>2. x # r
      BY <2>2, <2>4, <3>1 DEF CopyDue, WillPut
    <3> QED BY <2>3, <3>1, <3>2, OthersDue
  <2>5. CASE dir[arch[r]][f] # Nothing
    <3>1. mount'[f] = Binary(dir[arch[r]][f])
      BY <2>1, <2>2, <2>5 DEF Typed
    <3>2. dir[arch[r]][f].by # Nothing
      <4>1. Binary(dir[arch[r]][f]).whole <=> dir[arch[r]][f].by = Nothing
        BY DEF Binary, Whole
      <4>2. ~Binary(dir[arch[r]][f]).whole
        BY <3>1, Zenon
      <4> QED BY <4>1, <4>2
    <3>3. \E y \in Requests : CopyDue(y, f)'
      BY <1>1, <2>2, <2>3, <2>5, <3>2, WriterDue
    <3> QED BY <2>3, <3>3
  <2> QED BY <2>4, <2>5
<1>2. CASE ~(Copy(r) /\ f \in todo[r] /\ f \notin todo'[r])
  <2>1. mount'[f] = mount[f]
    <3>1. CASE Copy(r)
      <4>1. PICK g \in todo[r] :
                /\ todo' = [todo EXCEPT ![r] = @ \ {g}]
                /\ mount' = IF dir[arch[r]][g] = Nothing THEN mount
                            ELSE [mount EXCEPT ![g] = Binary(dir[arch[r]][g])]
        BY <3>1 DEF Copy
      <4>2. g # f
        BY <1>2, <3>1, <4>1 DEF Typed
      <4> QED BY <4>1, <4>2 DEF Typed
    <3>2. CASE ~Copy(r)
      <4>1. mount' = mount
        BY <3>2 DEF Begin, Handle, BuildScript, Check, RemoveDir, MakeDir, OpenFile,
                    CloseFile, Extracted, Push, Find, Copied, files
      <4> QED BY <4>1
    <3> QED BY <3>1, <3>2
  <2>2. PICK x \in Requests : CopyDue(x, f)
    BY <2>1 DEF TruncatedIsDue
  <2>3. ComponentOf[f] # 0
    BY <2>1 DEF TruncatedIsDue
  <2>4. CASE x = r
    <3>1. CopyDue(r, f)'
      BY <1>2, <2>2, <2>3, <2>4, OwnDue
    <3> QED BY <2>3, <3>1
  <2>5. CASE x # r
    BY <2>2, <2>3, <2>5, OthersDue
  <2> QED BY <2>4, <2>5
<1> QED BY <1>1, <1>2

-----------------------------------------------------------------------------
(* THE INVARIANT                                                            *)

LEMMA InitInv == Init => Inv
<1> SUFFICES ASSUME Init PROVE Inv
  OBVIOUS
<1>1. Typed /\ AllPlaced
  BY InitTyped, InitPlaced
<1>2. AllExact
  BY DEF Init, AllExact, Script
<1>3. Written
  BY DEF Init, Written, None
<1>4. Opened
  BY DEF Init, Opened, Extracting
<1>5. TruncatedIsDue
  BY DEF Init, TruncatedIsDue, None
<1> QED BY <1>1, <1>2, <1>3, <1>4, <1>5 DEF Inv, Unspoilt

LEMMA ScriptInv ==
    ASSUME Inv, NEW r \in Requests, Begin(r) \/ Handle(r) \/ Abort(r)
    PROVE  Inv'
<1> USE DEF Inv
<1>1. Typed' /\ AllPlaced' /\ AllExact'
  BY ScriptTyped, ScriptPlaced, ScriptExact
<1>2. ASSUME ~spoilt' PROVE Written' /\ Opened' /\ TruncatedIsDue'
  <2>1. ~spoilt /\ ~Abort(r) /\ ~Return(r, "error")
    BY <1>2, NoReturn
  <2>2. Written /\ Opened /\ TruncatedIsDue
    BY <2>1 DEF Unspoilt
  <2> QED BY <2>1, <2>2, ScriptWritten, ScriptOpened, ScriptDue
<1> QED BY <1>1, <1>2 DEF Unspoilt

(* The operator: an archive may be replaced, which no script has opened.    *)
LEMMA OutsideInv ==
    ASSUME Inv,
           \/ SwitchMode
           \/ \E a \in Archives, p \in Packages \cup {Nothing} : Replace(a, p)
    PROVE  Inv'
<1> USE DEF Inv
<1>1. Typed'
  BY OutsideTyped
<1>2. UNCHANGED <<files, local, shared, copied>>
  BY DEF SwitchMode, Replace, history
<1>3. AllPlaced'
  BY <1>2 DEF AllPlaced, Placed, local, script, Extracting
<1>4. AllExact'
  <2>1. \A r : Exact(r)' = Exact(r)
    BY <1>2 DEF Exact, Beside, Complete, Extract, Unpacked, Taken, Mine, local, script, files
  <2> QED BY <1>2, <2>1 DEF AllExact, local
<1>5. ASSUME ~spoilt' PROVE Written' /\ Opened' /\ TruncatedIsDue'
  <2>1. ~spoilt /\ \A r \in Requests : pc[r] \in Script => package'[arch[r]] = package[arch[r]]
    BY <1>5 DEF SwitchMode, Replace, history, Typed
  <2>2. Written /\ Opened /\ TruncatedIsDue
    BY <2>1 DEF Unspoilt
  <2>3. Written'
    BY <1>2, <2>2 DEF Written, local, script, files
  <2>4. Opened'
    BY <1>2, <2>1, <2>2 DEF Opened, local, script, Extracting, Script
  <2>5. \A r \in Requests, f \in Names : CopyDue(r, f) => CopyDue(r, f)'
    <3> SUFFICES ASSUME NEW r \in Requests, NEW f \in Names, CopyDue(r, f)
                 PROVE  CopyDue(r, f)'
      OBVIOUS
    <3>1. pc[r] \in Script
      BY DEF CopyDue, WillPut, WillCopy, Script
    <3> QED BY <1>2, <2>1, <3>1 DEF CopyDue, WillPut, WillCopy, local, script, files
  <2>6. TruncatedIsDue'
    BY <1>2, <2>2, <2>5 DEF TruncatedIsDue, files
  <2> QED BY <2>3, <2>4, <2>6
<1> QED BY <1>1, <1>3, <1>4, <1>5 DEF Unspoilt

LEMMA NextInv == Inv /\ [Next]_vars => Inv'
<1> SUFFICES ASSUME Inv, [Next]_vars PROVE Inv'
  OBVIOUS
<1>1. CASE Next
  BY <1>1, ScriptInv, OutsideInv DEF Next, ReliableNext
<1>2. CASE UNCHANGED vars
  BY <1>2 DEF vars, files, outside, local, script, history, Inv, Typed, AllPlaced, Placed,
       AllExact, Exact, Beside, Complete, Extract, Unpacked, Taken, Mine, Unspoilt,
       Written, Opened, TruncatedIsDue, CopyDue, WillPut, WillCopy
<1> QED BY <1>1, <1>2

LEMMA InvHolds == Spec => []Inv
  BY InitInv, NextInv, PTL DEF Spec

-----------------------------------------------------------------------------
(* THEOREMS                                                                 *)

(* A preparation that succeeds, and that no other one of the same archive   *)
(* overlapped, has copied every binary of the archive it unpacked, complete,*)
(* and nothing else, and has pushed its images.                             *)
THEOREM PreparesExactly == Spec => PreparedExactly
<1>1. ASSUME Inv, [Next]_vars, NEW r \in Requests, pc[r] # "ok", pc'[r] = "ok", ~shared[r]
      PROVE  /\ copied[r] = {<<f, [of |-> pkg[r], by |-> Nothing]>> : f \in Binaries(arch[r], pkg[r])}
             /\ pushed[r]
  <2> USE <1>1 DEF Inv
  <2>1. PICK x \in Requests : Begin(x) \/ Handle(x) \/ Abort(x)
    BY DEF Next, ReliableNext, SwitchMode, Replace, vars, local
  <2>2. x = r
    BY <2>1, OthersAside DEF Aside
  <2>3. Find(r) /\ k[r] > Components
    BY <2>1, <2>2 DEF Begin, Handle, Abort, BuildScript, Check, RemoveDir, MakeDir,
         OpenFile, CloseFile, Extracted, Push, Find, Copy, Copied, Return, Goto, Typed
  <2>4. pc[r] = "find" /\ Exact(r)
    BY <2>3 DEF Find, At, AllExact, Script
  <2>5. mode[r] = "offline"
    BY <2>3, <2>4, Kinds DEF Exact
  <2>6. pushed[r]
    BY <2>4, <2>5 DEF Exact
  <2>7. pkg[r] \in Packages
    BY <2>4 DEF AllPlaced, Placed, Extracting
  <2>8. \A g \in Binaries(arch[r], pkg[r]) : Taken(r, g)
    BY <2>3, <2>7, Kinds, ContentsAssumption DEF Taken, Binaries
  <2>9. {g \in Binaries(arch[r], pkg[r]) : Taken(r, g)} = Binaries(arch[r], pkg[r])
    BY <2>8
  <2>10. copied[r] = {<<f, Complete(r)>> : f \in {g \in Binaries(arch[r], pkg[r]) : Taken(r, g)}}
    BY <2>4 DEF Exact
  <2> QED BY <2>6, <2>9, <2>10 DEF Complete
<1>2. Inv /\ [Next]_vars =>
          [\A r \in Requests :
             pc[r] # "ok" /\ pc'[r] = "ok" /\ ~shared[r] =>
                /\ copied[r] = {<<f, [of |-> pkg[r], by |-> Nothing]>> : f \in Binaries(arch[r], pkg[r])}
                /\ pushed[r]]_vars
  BY <1>1
<1> QED BY <1>2, InvHolds, PTL DEF Spec, PreparedExactly

(* However many preparations overlap, in one directory or in several: if    *)
(* none has been answered with an error and no archive been replaced under  *)
(* one, no binary that nodes fetch is incomplete once all is at rest.       *)
THEOREM TruncatedGoes == Spec => []TruncatedIsTransient
<1>1. Inv => TruncatedIsTransient
  <2> SUFFICES ASSUME Inv, ~spoilt, \A r \in Requests : pc[r] \in Rest,
                      NEW f \in Names, mount[f] # Nothing
               PROVE  mount[f].whole
    BY DEF TruncatedIsTransient
  <2> SUFFICES ASSUME ~mount[f].whole
               PROVE  FALSE
    OBVIOUS
  <2>1. PICK r \in Requests : CopyDue(r, f)
    BY DEF Inv, Unspoilt, TruncatedIsDue
  <2> QED BY <2>1 DEF CopyDue, WillPut, WillCopy, Rest
<1> QED BY <1>1, InvHolds, PTL
=============================================================================
