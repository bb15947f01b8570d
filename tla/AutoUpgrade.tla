----------------------------- MODULE AutoUpgrade -----------------------------
(***************************************************************************)
(* POST /clusters/{name}/auto-upgrade (AutoUpgradePatchPrepare): unpack the *)
(* archive of a patch beside it, push its images to the registry (offline)  *)
(* and copy its binaries to where nodes fetch them.  A bash script does it, *)
(* under `set -eo pipefail`: a command that fails ends it.  Nothing keeps   *)
(* two preparations apart, also when they are of one archive and so work in *)
(* one directory.  An action is one command of the script, or one file of   *)
(* tar and of cp.  The bke tool and the operator's archives are external;   *)
(* an archive is taken to unpack into the directory of its own name.        *)
(***************************************************************************)
EXTENDS Naturals, FiniteSets

CONSTANTS
    Requests,
    Archives,      \* the paths at which an archive may lie
    Packages,      \* what the file at such a path may be
    Names,         \* the files in packages
    Contents,      \* the files of each package
    Components,    \* how many kinds of binaries the script looks for, in order
    ComponentOf,   \* the kind of each file, 0 for other files
    Spaced,        \* the paths and the file names with white space in them
    Nothing

(* A file: the package it is from, and who is still writing it.             *)
File == [of : Packages, by : Requests \cup {Nothing}]

ASSUME NothingAssumption == Nothing \notin Packages \cup Names \cup Requests \cup File
ASSUME ComponentsAssumption ==
    Components \in Nat \ {0} /\ ComponentOf \in [Names -> 0 .. Components]
ASSUME ContentsAssumption == Contents \in [Packages -> SUBSET Names]

Script == {"check", "remove", "make", "extract", "push", "find", "copy"}
Active == {"mode"} \cup Script
Rest == {"idle", "ok", "error"}
Whole(file) == file.by = Nothing
(* What a copy of it is.                                                    *)
Binary(file) == [of |-> file.of, whole |-> Whole(file)]

VARIABLES
    package,   \* what lies at each path, or Nothing
    online,    \* the mode in the ConfigMap
    exists,    \* the paths whose directory exists
    dir,       \* the files in each directory
    mount,     \* the files in the directory of the registry
    pc, arch, mode, pkg,
    pushed,    \* all images of pkg have been pushed
    todo,      \* files tar has still to extract, cp to copy
    writing,   \* the file tar is writing
    k,         \* the kind of binaries looked for
    shared,    \* history: another preparation has worked in the directory,
    copied,    \* and, as long as none has, the files it has copied;
    spoilt     \* whether any preparation that had begun has been answered with
               \* an error, or an archive been replaced during one

files == <<exists, dir, mount>>
outside == <<package, online>>
script == <<mode, pkg, pushed, todo, writing, k>>
local == <<pc, arch, script>>
history == <<shared, copied, spoilt>>
vars == <<files, outside, local, history>>

None == [f \in Names |-> Nothing]
Init ==
    /\ package \in [Archives -> Packages] /\ online \in BOOLEAN
    /\ exists = {}
    /\ dir = [a \in Archives |-> None] /\ mount = None
    /\ pc = [r \in Requests |-> "idle"]
    /\ arch \in [Requests -> Archives]
    /\ mode = [r \in Requests |-> "offline"]
    /\ pkg = [r \in Requests |-> Nothing]
    /\ pushed = [r \in Requests |-> FALSE]
    /\ todo = [r \in Requests |-> {}]
    /\ writing = [r \in Requests |-> Nothing]
    /\ k = [r \in Requests |-> 1]
    /\ shared = [r \in Requests |-> FALSE]
    /\ copied = [r \in Requests |-> {}]
    /\ spoilt = FALSE

-----------------------------------------------------------------------------
At(r, l) == pc[r] = l
Goto(r, l) == pc' = [pc EXCEPT ![r] = l]
Beside(r) == {q \in Requests \ {r} : arch[q] = arch[r] /\ pc[q] \in Script}

(* The answer; the locals go with the script.                               *)
Return(r, result) ==
    /\ Goto(r, result)
    /\ mode' = [mode EXCEPT ![r] = "offline"]
    /\ pkg' = [pkg EXCEPT ![r] = Nothing] /\ pushed' = [pushed EXCEPT ![r] = FALSE]
    /\ todo' = [todo EXCEPT ![r] = {}] /\ writing' = [writing EXCEPT ![r] = Nothing]
    /\ k' = [k EXCEPT ![r] = 1]
    /\ shared' = [shared EXCEPT ![r] = FALSE]
    /\ copied' = [copied EXCEPT ![r] = {}]
    /\ spoilt' = (spoilt \/ result = "error")
    /\ UNCHANGED arch

(* validatePatchFiles: the path is that of an archive, or the request fails *)
(* and has changed nothing.                                                 *)
Begin(r) ==
    /\ pc[r] \in Rest
    /\ \E a \in Archives :
        /\ arch' = [arch EXCEPT ![r] = a]
        /\ Goto(r, IF package[a] # Nothing THEN "mode" ELSE "error")
    /\ UNCHANGED <<files, outside, script, history>>

(* getBootstrapIpFromCluster finds the address of the registry or fails;    *)
(* the mode then decides on the script, once and for all.                   *)
BuildScript(r) ==
    /\ At(r, "mode")
    /\ \/ Return(r, "error")
       \/ LET Overlaps(q) == q \in Beside(r) \/ (q = r /\ Beside(r) # {}) IN
          /\ Goto(r, "check")
          /\ mode' = [mode EXCEPT ![r] = IF online THEN "online" ELSE "offline"]
          /\ shared' = [q \in Requests |-> shared[q] \/ Overlaps(q)]
          /\ copied' = [q \in Requests |-> IF Overlaps(q) THEN {} ELSE copied[q]]
          /\ UNCHANGED <<arch, pkg, pushed, todo, writing, k, spoilt>>
    /\ UNCHANGED <<files, outside>>

-----------------------------------------------------------------------------
(* The script.                                                              *)

Check(r) ==
    /\ At(r, "check")
    /\ IF package[arch[r]] # Nothing
       THEN Goto(r, "remove") /\ UNCHANGED <<arch, script, history>>
       ELSE Return(r, "error")
    /\ UNCHANGED <<files, outside>>

(* Fault: the directory is not removed.                                     *)
RemoveNothing(r) ==
    /\ At(r, "remove")
    /\ Goto(r, "make") /\ exists' = exists \ {arch[r]}
    /\ UNCHANGED <<arch, script, history, dir, mount, outside>>

(* rm -rf.  If tar puts files into the directory meanwhile, it may remove   *)
(* only some, and fail: the directory is not empty when it comes to that.   *)
RemoveDir(r) ==
    LET a == arch[r] IN
    /\ At(r, "remove")
    /\ \/ /\ Goto(r, "make")
          /\ exists' = exists \ {a} /\ dir' = [dir EXCEPT ![a] = None]
          /\ UNCHANGED <<arch, script, history>>
       \/ /\ \E q \in Beside(r) : At(q, "extract")
          /\ \E gone \in SUBSET Names :
                dir' = [dir EXCEPT ![a] = [f \in Names |-> IF f \in gone THEN Nothing ELSE @[f]]]
          /\ Return(r, "error") /\ UNCHANGED exists
    /\ UNCHANGED <<mount, outside>>

(* The test that it is gone, mkdir, and tar, which opens the archive.       *)
MakeDir(r) ==
    LET a == arch[r] IN
    /\ At(r, "make")
    /\ IF a \in exists \/ package[a] = Nothing
       THEN Return(r, "error") /\ UNCHANGED exists
       ELSE /\ Goto(r, "extract")
            /\ exists' = exists \cup {a}
            /\ pkg' = [pkg EXCEPT ![r] = package[a]]
            /\ todo' = [todo EXCEPT ![r] = Contents[package[a]]]
            /\ UNCHANGED <<arch, mode, pushed, writing, k, history>>
    /\ UNCHANGED <<dir, mount, outside>>

(* tar replaces a file that is there, and makes the directory again if need *)
(* be.  A file that has been removed or replaced by then is finished unseen.*)
OpenFile(r) ==
    LET a == arch[r] IN
    /\ At(r, "extract") /\ writing[r] = Nothing
    /\ \E f \in todo[r] :
        /\ writing' = [writing EXCEPT ![r] = f]
        /\ dir' = [dir EXCEPT ![a][f] = [of |-> pkg[r], by |-> r]]
    /\ exists' = exists \cup {a}
    /\ UNCHANGED <<pc, arch, mode, pkg, pushed, todo, k, mount, outside, history>>

CloseFile(r) ==
    LET a == arch[r]  f == writing[r]  mine == [of |-> pkg[r], by |-> r] IN
    /\ At(r, "extract") /\ f # Nothing
    /\ writing' = [writing EXCEPT ![r] = Nothing]
    /\ todo' = [todo EXCEPT ![r] = @ \ {f}]
    /\ dir' = [dir EXCEPT ![a][f] = IF @ = mine THEN [mine EXCEPT !.by = Nothing] ELSE @]
    /\ UNCHANGED <<pc, arch, mode, pkg, pushed, k, exists, mount, outside, history>>

(* The script goes on once tar has ended.                                   *)
Extracted(r) ==
    /\ At(r, "extract") /\ todo[r] = {}
    /\ Goto(r, IF mode[r] = "offline" THEN "push" ELSE "find")
    /\ UNCHANGED <<files, outside, arch, script, history>>

(* bke registry patch, which reads what is in the directory.                *)
Push(r) ==
    LET There(f) == dir[arch[r]][f] = [of |-> pkg[r], by |-> Nothing] IN
    /\ At(r, "push")
    /\ Goto(r, "find")
    /\ pushed' = [pushed EXCEPT ![r] = \A f \in Contents[pkg[r]] : There(f)]
    /\ UNCHANGED <<files, outside, arch, mode, pkg, todo, writing, k, history>>

(* The loop over what find prints goes over words: with white space in the  *)
(* path or the name these are no files, and are passed over.                *)
Unsplit(a, f) == {a, f} \cap Spaced = {}

(* One turn of the loop over the kinds of binaries: find, then a cp each.   *)
(* ABSOLUTE_PATCH_DIR is set by the part that pushes, so online the script  *)
(* looks in the directory "", which is an error.                            *)
Find(r) ==
    LET a == arch[r] IN
    /\ At(r, "find")
    /\ IF k[r] > Components THEN Return(r, "ok")
       ELSE IF mode[r] = "online" \/ a \notin exists THEN Return(r, "error")
       ELSE /\ Goto(r, "copy")
            /\ todo' = [todo EXCEPT ![r] = {f \in Names :
                            ComponentOf[f] = k[r] /\ dir[a][f] # Nothing /\ Unsplit(a, f)}]
            /\ UNCHANGED <<arch, mode, pkg, pushed, writing, k, history>>
    /\ UNCHANGED <<files, outside>>

(* Fault: a cp that fails half-way does not end the script.                 *)
CopyWarns(r) ==
    LET here == dir[arch[r]] IN
    /\ At(r, "copy")
    /\ \E f \in todo[r], whole \in BOOLEAN :
        /\ todo' = [todo EXCEPT ![r] = @ \ {f}]
        /\ mount' = IF here[f] = Nothing THEN mount
                    ELSE [mount EXCEPT ![f] = [of |-> here[f].of, whole |-> whole]]
    /\ UNCHANGED <<pc, arch, mode, pkg, pushed, writing, k, exists, dir, outside, history>>
(* A file that is gone by now is passed over.                               *)
Copy(r) ==
    LET here == dir[arch[r]] IN
    /\ At(r, "copy")
    /\ \E f \in todo[r] :
        /\ todo' = [todo EXCEPT ![r] = @ \ {f}]
        /\ mount' = IF here[f] = Nothing THEN mount ELSE [mount EXCEPT ![f] = Binary(here[f])]
        /\ copied' = IF here[f] = Nothing \/ shared[r] THEN copied
                     ELSE [copied EXCEPT ![r] = @ \cup {<<f, here[f]>>}]
    /\ UNCHANGED <<pc, arch, mode, pkg, pushed, writing, k, exists, dir, outside, shared, spoilt>>
(* The next kind of binaries.                                               *)
Copied(r) ==
    /\ At(r, "copy") /\ todo[r] = {}
    /\ Goto(r, "find") /\ k' = [k EXCEPT ![r] = @ + 1]
    /\ UNCHANGED <<files, outside, arch, mode, pkg, pushed, todo, writing, history>>

-----------------------------------------------------------------------------
(* A call or a command fails (the registry has no directory, say), or the   *)
(* container is stopped: the script goes no further.  A file in the hand of *)
(* cp is then incomplete.                                                   *)
Abort(r) ==
    /\ pc[r] \in Active
    /\ Return(r, "error")
    /\ \/ UNCHANGED mount
       \/ /\ At(r, "copy")
          /\ \E f \in todo[r] :
                /\ dir[arch[r]][f] # Nothing
                /\ mount' = [mount EXCEPT ![f] = [of |-> dir[arch[r]][f].of, whole |-> FALSE]]
    /\ UNCHANGED <<exists, dir, outside>>

(* The operator puts another archive at a path, or takes it away; and edits *)
(* the mode.                                                                *)
Replace(a, p) ==
    /\ package' = [package EXCEPT ![a] = p]
    /\ spoilt' = (spoilt \/ \E r \in Requests : arch[r] = a /\ pc[r] \in Script)
    /\ UNCHANGED <<files, online, local, shared, copied>>
SwitchMode ==
    /\ online' = ~online
    /\ UNCHANGED <<files, package, local, history>>

Handle(r) ==
    \/ BuildScript(r) \/ Check(r) \/ RemoveDir(r) \/ MakeDir(r)
    \/ OpenFile(r) \/ CloseFile(r) \/ Extracted(r) \/ Push(r) \/ Find(r) \/ Copy(r) \/ Copied(r)

ReliableNext == SwitchMode \/ \E r \in Requests : Begin(r) \/ Handle(r)
Next ==
    \/ ReliableNext
    \/ \E r \in Requests : Abort(r)
    \/ \E a \in Archives, p \in Packages \cup {Nothing} : Replace(a, p)
Spec == Init /\ [][Next]_vars
(* No command fails, and the archives stay.                                 *)
ReliableSpec == Init /\ [][ReliableNext]_vars

-----------------------------------------------------------------------------
(* PROPERTIES                                                               *)

(* The binaries of a package that the script can copy from a path.          *)
Binaries(a, p) == {f \in Contents[p] : ComponentOf[f] # 0 /\ Unsplit(a, f)}

(* A preparation that succeeds, and that no other one of the same archive   *)
(* overlapped, has copied every binary of the archive it unpacked that has  *)
(* no white space in its path, complete, and nothing else: nothing left     *)
(* over from an archive that was at the same path before, nor from a        *)
(* preparation that failed half-way.                                        *)
PreparedExactly ==
    [][\A r \in Requests :
        pc[r] # "ok" /\ pc'[r] = "ok" /\ ~shared[r] =>
            /\ copied[r] = {<<f, [of |-> pkg[r], by |-> Nothing]>> : f \in Binaries(arch[r], pkg[r])}
            /\ pushed[r]]_vars

(* Where two preparations of one archive overlap, one may copy a file that  *)
(* the other is still writing.  The other one then copies it again, or is   *)
(* answered with an error: if none has been, and no archive been replaced   *)
(* under one, no binary is incomplete once all is at rest, whichever        *)
(* removed the directory under the other.                                   *)
TruncatedIsTransient ==
    ~spoilt /\ (\A r \in Requests : pc[r] \in Rest) =>
        \A f \in Names : mount[f] # Nothing => mount[f].whole

(* "step 4: copy the containerd, kubelet and kubectl binaries": a           *)
(* preparation that has come to this step takes it, online too, when no     *)
(* command fails.  Online it never does: find is given no directory.        *)
OnlinePrepares ==
    [][\A r \in Requests : At(r, "find") => pc'[r] # "error"]_vars
=============================================================================
