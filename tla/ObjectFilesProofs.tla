-------------------------- MODULE ObjectFilesProofs --------------------------
(***************************************************************************)
(* Half files, offered objects and answered uploads, for any number of     *)
(* requests, users, attachments and objects, and under every fault.        *)
(***************************************************************************)
EXTENDS ObjectFiles, TLAPS

-----------------------------------------------------------------------------
(***************************************************************************)
(* The inductive invariant, in parts.  Types and Local: where a request    *)
(* can be in which handler, and on what kind of file.                      *)
(***************************************************************************)
PCs == {"idle", "clean", "remove", "delete", "lock", "stat", "create", "copy",
        "store", "pin", "batch", "look", "serve"}
Handlers == {"none", "put", "get", "event", "upload", "download", "cache"}

FileTypes ==
    /\ file \in [Keys -> {"absent", "partial", "whole"}]
    /\ maker \in [Keys -> Procs \cup {None}]
    /\ pinned \in [Keys -> {"none", "partial", "whole"}]
    /\ released \in SUBSET Assets /\ spoilt \in SUBSET Keys

TableTypes ==
    /\ pending \in [Tokens -> Nat] /\ promised \in [Tokens -> Nat]
    /\ now \in Nat /\ now <= MaxNow
    /\ \A t \in Tokens : pending[t] <= MaxNow + Expiry

RequestTypes ==
    /\ key \in [Procs -> Keys] /\ user \in [Procs -> Users]
    /\ pc \in [Procs -> PCs] /\ op \in [Procs -> Handlers]
    /\ todo \in [Procs -> SUBSET Tokens] /\ cur \in [Procs -> Tokens \cup {None}]
    /\ offered \in SUBSET Procs

Types == FileTypes /\ TableTypes /\ RequestTypes

Local ==
    \A p \in Procs :
        /\ pc[p] = "idle" <=> op[p] = "none"
        /\ pc[p] \in {"clean", "remove", "delete", "store"} => op[p] = "put"
        /\ pc[p] = "batch" => op[p] = "download"
        /\ pc[p] = "look" => op[p] = "cache"
        /\ pc[p] = "pin" => op[p] = "upload"
        /\ pc[p] = "stat" => op[p] \in {"get", "event", "cache"}
        /\ op[p] = "event" => pc[p] \in {"stat", "create", "copy"}
        /\ pc[p] \in {"create", "copy"} => op[p] # "download"
        /\ op[p] \in {"put", "get", "event"} => key[p] \in Assets
        /\ op[p] \in {"upload", "download", "cache"} => key[p] \in Objects
        /\ pc[p] \in {"remove", "delete"} <=> cur[p] # None

(* A request that may write a file has its lock alone.                     *)
Excluded ==
    \A p, q \in Procs :
        Locked(p) /\ Locked(q) /\ key[p] = key[q] /\ Writer(p) => p = q

(* A half file is being filled by the one that truncated it last.          *)
HalfByMaker ==
    \A k \in Keys : file[k] = "partial" =>
        \/ k \in spoilt
        \/ \E p \in Procs : maker[k] = p /\ key[p] = k /\ pc[p] = "copy"

(* An object is half there while somebody fills it, so that nobody is      *)
(* offered what a broken upload may yet remove, and whole when it is       *)
(* pinned; what was offered is there.                                      *)
ObjectsWhole ==
    /\ \A p \in Procs : /\ pc[p] = "copy" /\ key[p] \in Objects =>
                             file[key[p]] = "partial" /\ maker[key[p]] = p
                        /\ pc[p] = "pin" => file[key[p]] = "whole"
    /\ \A p \in offered : /\ pc[p] \in {"lock", "serve"} /\ op[p] = "download"
                          /\ file[key[p]] = "whole"

(* A clean-up that has decided to remove a file found every upload of it   *)
(* expired, and none was promised since: Store notices such a clean-up.    *)
CleanersAreLate ==
    \A p \in Procs :
        /\ pc[p] = "remove" => \A t \in Tokens : t[2] = cur[p][2] => promised[t] <= now
        /\ pc[p] = "delete" => promised[cur[p]] <= now

(* From the truncation of an attachment to the end of its promise the file *)
(* is there, whole or half, or a fault hit it.                             *)
UploadsThere ==
    /\ \A p \in Procs : pc[p] \in {"copy", "store"} /\ key[p] \in Assets =>
           file[key[p]] # "absent" \/ key[p] \in spoilt
    /\ \A t \in Tokens : now < promised[t] =>
           /\ pending[t] = promised[t]
           /\ file[t[2]] # "absent" \/ t[2] \in spoilt

Inv == /\ Types /\ Local /\ Excluded /\ HalfByMaker /\ ObjectsWhole
       /\ CleanersAreLate /\ UploadsThere

-----------------------------------------------------------------------------
(* What kind of file a key is, and what a token is made of.                *)
LEMMA KeyKinds ==
  /\ Assets \subseteq Keys /\ Objects \subseteq Keys /\ Assets \cap Objects = {}
  /\ \A t \in Tokens : t[1] \in Users /\ t[2] \in Assets /\ t[2] \in Keys /\ t = <<t[1], t[2]>>
  /\ \A u \in Users, s \in Assets : <<u, s>> \in Tokens /\ <<u, s>>[2] = s
  /\ None \notin Procs /\ None \notin Tokens
  BY ConstantsAssumption DEF Keys, Tokens

(* Whoever creates or fills an object has it alone.                        *)
LEMMA FillerAlone ==
  ASSUME Inv, NEW p \in Procs, pc[p] \in {"create", "copy"}, key[p] \in Objects
  PROVE  /\ op[p] \in {"upload", "cache"}
         /\ \A q \in Procs : q # p /\ key[q] = key[p] =>
               pc[q] \notin {"stat", "create", "copy", "pin", "serve"}
  <1>1. op[p] \in {"upload", "cache"}
    BY KeyKinds DEF Inv, Local, Types, RequestTypes, Handlers
  <1> QED
    BY <1>1, KeyKinds DEF Inv, Excluded, Locked, Writer, Local

-----------------------------------------------------------------------------
(* The steps of a request, then those of the handlers and of the process,  *)
(* each with the parts of the invariant one by one.                        *)
LEMMA BeginStep ==
  ASSUME Inv, NEW p \in Procs, NEW o \in {"put", "get", "event", "upload", "download", "cache"}, Begin(p, o) PROVE Inv'
  <1> USE KeyKinds DEF Inv, Begin, Goto, Ends, Changes, files, proc, local
  <1>1. Types'
    <2>1. FileTypes'
      BY DEF Types, FileTypes, RequestTypes, Local
    <2>2. TableTypes'
      BY ConstantsAssumption DEF Types, TableTypes, RequestTypes, Local
    <2>3. RequestTypes'
      BY DEF Types, RequestTypes, PCs, Handlers
    <2> QED
      BY <2>1, <2>2, <2>3 DEF Types
  <1>2. Local'
    BY DEF Types, FileTypes, RequestTypes, Local, PCs, Handlers
  <1>3. Excluded'
    BY DEF Types, RequestTypes, Local, Excluded, Locked, Writer
  <1>4. HalfByMaker'
    BY DEF Types, FileTypes, RequestTypes, Local, HalfByMaker
  <1>5. ObjectsWhole'
    BY DEF Types, FileTypes, RequestTypes, Local, ObjectsWhole
  <1>6. CleanersAreLate'
    BY DEF Types, TableTypes, FileTypes, RequestTypes, Local, CleanersAreLate,
           UploadsThere
  <1>7. UploadsThere'
    BY DEF Types, TableTypes, FileTypes, RequestTypes, Local, CleanersAreLate,
           UploadsThere
  <1> QED
    BY <1>1, <1>2, <1>3, <1>4, <1>5, <1>6, <1>7

LEMMA CleanCheckStep ==
  ASSUME Inv, NEW p \in Procs, NEW t \in Tokens, CleanCheck(p, t) PROVE Inv'
  <1> USE KeyKinds DEF Inv, CleanCheck, Goto, Ends, Changes, files, proc, local
  <1>1. Types'
    <2>1. FileTypes'
      BY DEF Types, FileTypes, RequestTypes, Local
    <2>2. TableTypes'
      BY ConstantsAssumption DEF Types, TableTypes, RequestTypes, Local
    <2>3. RequestTypes'
      BY DEF Types, RequestTypes, PCs, Handlers
    <2> QED
      BY <2>1, <2>2, <2>3 DEF Types
  <1>2. Local'
    BY DEF Types, RequestTypes, Local, PCs, Handlers
  <1>3. Excluded'
    BY DEF Types, RequestTypes, Local, Excluded, Locked, Writer
  <1>4. HalfByMaker'
    BY DEF Types, FileTypes, RequestTypes, Local, HalfByMaker
  <1>5. ObjectsWhole'
    BY DEF Types, FileTypes, RequestTypes, Local, ObjectsWhole
  <1>6. CleanersAreLate'
    <2>1. UNCHANGED <<now, promised>> /\ \A q \in Procs : q # p => pc'[q] = pc[q] /\ cur'[q] = cur[q]
      BY DEF Types, RequestTypes
    <2>2. CASE pending[t] # 0 /\ now > pending[t]
      <3>1. cur'[p] = t /\ promised[t] <= now
        BY <2>2 DEF Types, TableTypes, RequestTypes, UploadsThere
      <3>2. ASSUME pc'[p] = "remove", NEW u \in Tokens, u[2] = t[2]
            PROVE  promised[u] <= now
        <4>1. u = t \/ ~(now < pending[u])
          BY <2>2, <3>2 DEF isFileReferencedByOtherUploads, Types, RequestTypes
        <4> QED
          BY <3>1, <4>1 DEF Types, TableTypes, UploadsThere
      <3> QED
        BY <2>1, <3>1, <3>2 DEF CleanersAreLate
    <2>3. CASE ~(pending[t] # 0 /\ now > pending[t])
      BY <2>1, <2>3 DEF CleanersAreLate
    <2> QED
      BY <2>2, <2>3
  <1>7. UploadsThere'
    BY DEF Types, TableTypes, FileTypes, RequestTypes, Local, CleanersAreLate,
           UploadsThere
  <1> QED
    BY <1>1, <1>2, <1>3, <1>4, <1>5, <1>6, <1>7

LEMMA CleanRemoveStep ==
  ASSUME Inv, NEW p \in Procs, CleanRemove(p) PROVE Inv'
  <1> USE KeyKinds DEF Inv, CleanRemove, Goto, Ends, Changes, files, proc, local
  <1>1. Types'
    <2>1. FileTypes'
      BY DEF Types, FileTypes, RequestTypes, Local
    <2>2. TableTypes'
      BY ConstantsAssumption DEF Types, TableTypes, RequestTypes, Local
    <2>3. RequestTypes'
      BY DEF Types, RequestTypes, PCs, Handlers
    <2> QED
      BY <2>1, <2>2, <2>3 DEF Types
  <1>2. Local'
    BY DEF Types, RequestTypes, Local, PCs, Handlers
  <1>3. Excluded'
    BY DEF Types, RequestTypes, Local, Excluded, Locked, Writer
  <1>4. HalfByMaker'
    BY DEF Types, FileTypes, RequestTypes, Local, HalfByMaker
  <1>5. ObjectsWhole'
    BY DEF Types, FileTypes, RequestTypes, Local, ObjectsWhole
  <1>6. CleanersAreLate'
    BY DEF Types, TableTypes, FileTypes, RequestTypes, Local, CleanersAreLate,
           UploadsThere
  <1>7. UploadsThere'
    BY DEF Types, TableTypes, FileTypes, RequestTypes, Local, CleanersAreLate,
           UploadsThere
  <1> QED
    BY <1>1, <1>2, <1>3, <1>4, <1>5, <1>6, <1>7

LEMMA CleanDeleteStep ==
  ASSUME Inv, NEW p \in Procs, CleanDelete(p) PROVE Inv'
  <1> USE KeyKinds DEF Inv, CleanDelete, Goto, Ends, Changes, files, proc, local
  <1>1. Types'
    <2>1. FileTypes'
      BY DEF Types, FileTypes, RequestTypes, Local
    <2>2. TableTypes'
      BY ConstantsAssumption DEF Types, TableTypes, RequestTypes, Local
    <2>3. RequestTypes'
      BY DEF Types, RequestTypes, PCs, Handlers
    <2> QED
      BY <2>1, <2>2, <2>3 DEF Types
  <1>2. Local'
    BY DEF Types, RequestTypes, Local, PCs, Handlers
  <1>3. Excluded'
    BY DEF Types, RequestTypes, Local, Excluded, Locked, Writer
  <1>4. HalfByMaker'
    BY DEF Types, FileTypes, RequestTypes, Local, HalfByMaker
  <1>5. ObjectsWhole'
    BY DEF Types, FileTypes, RequestTypes, Local, ObjectsWhole
  <1>6. CleanersAreLate'
    BY DEF Types, TableTypes, FileTypes, RequestTypes, Local, CleanersAreLate,
           UploadsThere
  <1>7. UploadsThere'
    BY DEF Types, TableTypes, FileTypes, RequestTypes, Local, CleanersAreLate,
           UploadsThere
  <1> QED
    BY <1>1, <1>2, <1>3, <1>4, <1>5, <1>6, <1>7

LEMMA ConfirmStep ==
  ASSUME Inv, NEW p \in Procs, Confirm(p) PROVE Inv'
  <1> USE KeyKinds DEF Inv, Confirm, Goto, Ends, Changes, files, proc, local
  <1>1. Types'
    <2>1. FileTypes'
      BY DEF Types, FileTypes, RequestTypes, Local
    <2>2. TableTypes'
      BY ConstantsAssumption DEF Types, TableTypes, RequestTypes, Local
    <2>3. RequestTypes'
      BY DEF Types, RequestTypes, PCs, Handlers
    <2> QED
      BY <2>1, <2>2, <2>3 DEF Types
  <1>2. Local'
    BY DEF Types, RequestTypes, Local, PCs, Handlers
  <1>3. Excluded'
    BY DEF Types, RequestTypes, Local, Excluded, Locked, Writer
  <1>4. HalfByMaker'
    BY DEF Types, FileTypes, RequestTypes, Local, HalfByMaker
  <1>5. ObjectsWhole'
    BY DEF Types, FileTypes, RequestTypes, Local, ObjectsWhole
  <1>6. CleanersAreLate'
    BY DEF Types, TableTypes, FileTypes, RequestTypes, Local, CleanersAreLate,
           UploadsThere
  <1>7. UploadsThere'
    BY DEF Types, TableTypes, FileTypes, RequestTypes, Local, CleanersAreLate,
           UploadsThere
  <1> QED
    BY <1>1, <1>2, <1>3, <1>4, <1>5, <1>6, <1>7

LEMMA AcquireStep ==
  ASSUME Inv, NEW p \in Procs, Acquire(p) PROVE Inv'
  <1> USE KeyKinds DEF Inv, Acquire, Goto, Ends, Changes, files, proc, local
  <1>0. \E l \in {"create", "stat", "serve"} :
            /\ pc' = [pc EXCEPT ![p] = l]
            /\ l = "create" => op[p] \in {"put", "upload"}
            /\ l = "stat" => op[p] \in {"get", "cache"}
            /\ l = "serve" => op[p] = "download"
    BY DEF Types, RequestTypes, Local, Handlers
  <1>1. Types'
    <2>1. FileTypes'
      BY <1>0 DEF Types, FileTypes, RequestTypes, Local
    <2>2. TableTypes'
      BY ConstantsAssumption DEF Types, TableTypes, RequestTypes, Local
    <2>3. RequestTypes'
      BY <1>0 DEF Types, RequestTypes, PCs, Handlers
    <2> QED
      BY <2>1, <2>2, <2>3 DEF Types
  <1>2. Local'
    BY <1>0 DEF Types, RequestTypes, Local, PCs, Handlers
  <1>3. Excluded'
    BY <1>0 DEF Types, RequestTypes, Local, Excluded, Locked, Writer
  <1>4. HalfByMaker'
    BY <1>0 DEF Types, FileTypes, RequestTypes, Local, HalfByMaker
  <1>5. ObjectsWhole'
    BY <1>0 DEF Types, FileTypes, RequestTypes, Local, ObjectsWhole
  <1>6. CleanersAreLate'
    BY <1>0 DEF Types, TableTypes, FileTypes, RequestTypes, Local, CleanersAreLate,
           UploadsThere
  <1>7. UploadsThere'
    BY <1>0 DEF Types, TableTypes, FileTypes, RequestTypes, Local, CleanersAreLate,
           UploadsThere
  <1> QED
    BY <1>1, <1>2, <1>3, <1>4, <1>5, <1>6, <1>7

LEMMA StatStep ==
  ASSUME Inv, NEW p \in Procs, Stat(p) PROVE Inv'
  <1> USE KeyKinds DEF Inv, Stat, Goto, Ends, Changes, files, proc, local
  <1>1. Types'
    <2>1. FileTypes'
      BY DEF Types, FileTypes, RequestTypes, Local
    <2>2. TableTypes'
      BY ConstantsAssumption DEF Types, TableTypes, RequestTypes, Local
    <2>3. RequestTypes'
      BY DEF Types, RequestTypes, PCs, Handlers
    <2> QED
      BY <2>1, <2>2, <2>3 DEF Types
  <1>2. Local'
    BY DEF Types, RequestTypes, Local, PCs, Handlers
  <1>3. Excluded'
    BY DEF Types, RequestTypes, Local, Excluded, Locked, Writer
  <1>4. HalfByMaker'
    BY DEF Types, FileTypes, RequestTypes, Local, HalfByMaker
  <1>5. ObjectsWhole'
    BY DEF Types, FileTypes, RequestTypes, Local, ObjectsWhole
  <1>6. CleanersAreLate'
    BY DEF Types, TableTypes, FileTypes, RequestTypes, Local, CleanersAreLate,
           UploadsThere
  <1>7. UploadsThere'
    BY DEF Types, TableTypes, FileTypes, RequestTypes, Local, CleanersAreLate,
           UploadsThere
  <1> QED
    BY <1>1, <1>2, <1>3, <1>4, <1>5, <1>6, <1>7

LEMMA CreateStep ==
  ASSUME Inv, NEW p \in Procs, Create(p) PROVE Inv'
  <1> USE KeyKinds DEF Inv, Create, Goto, Ends, Changes, files, proc, local
  <1>1. Types'
    <2>1. FileTypes'
      BY DEF Types, FileTypes, RequestTypes, Local
    <2>2. TableTypes'
      BY ConstantsAssumption DEF Types, TableTypes, RequestTypes, Local
    <2>3. RequestTypes'
      BY DEF Types, RequestTypes, PCs, Handlers
    <2> QED
      BY <2>1, <2>2, <2>3 DEF Types
  <1>2. Local'
    BY DEF Types, RequestTypes, Local, PCs, Handlers
  <1>3. Excluded'
    BY DEF Types, RequestTypes, Local, Excluded, Locked, Writer
  <1>4. HalfByMaker'
    BY DEF Types, FileTypes, RequestTypes, Local, HalfByMaker
  <1>5. ObjectsWhole'
    <2>1. \A q \in Procs : q # p => pc'[q] = pc[q] /\ op'[q] = op[q]
      BY DEF Types, RequestTypes
    <2>2. \A k \in Keys : k # key[p] => file'[k] = file[k] /\ maker'[k] = maker[k]
      BY DEF Types, FileTypes
    <2>3. ASSUME NEW q \in offered'
          PROVE  pc'[q] \in {"lock", "serve"} /\ op'[q] = "download" /\ file'[key'[q]] = "whole"
      <3>1. q \in offered /\ q # p /\ key[q] # key[p]
        BY <2>3 DEF Types, RequestTypes
      <3> QED
        BY <2>1, <2>2, <3>1 DEF ObjectsWhole, Types, RequestTypes
    <2>4. ASSUME NEW q \in Procs, q # p
          PROVE  /\ pc'[q] = "copy" /\ key'[q] \in Objects =>
                      file'[key'[q]] = "partial" /\ maker'[key'[q]] = q
                 /\ pc'[q] = "pin" => file'[key'[q]] = "whole"
      <3>1. CASE key[q] = key[p]
        BY <2>1, <2>4, <3>1, FillerAlone DEF Local, Types, RequestTypes
      <3>2. CASE key[q] # key[p]
        <4>1. /\ pc[q] = "copy" /\ key[q] \in Objects =>
                   file[key[q]] = "partial" /\ maker[key[q]] = q
              /\ pc[q] = "pin" => file[key[q]] = "whole"
          BY DEF ObjectsWhole
        <4>2. /\ file'[key[q]] = file[key[q]] /\ maker'[key[q]] = maker[key[q]]
              /\ key'[q] = key[q]
          BY <2>2, <3>2 DEF Types, RequestTypes
        <4> HIDE DEF Inv, Create
        <4> QED
          BY <2>1, <2>4, <4>1, <4>2
      <3> QED
        BY <3>1, <3>2
    <2>5. /\ pc'[p] = "copy" => file'[key'[p]] = "partial" /\ maker'[key'[p]] = p
          /\ pc'[p] # "pin"
      BY DEF Types, FileTypes, RequestTypes
    <2> QED
      BY <2>3, <2>4, <2>5 DEF ObjectsWhole
  <1>6. CleanersAreLate'
    BY DEF Types, TableTypes, FileTypes, RequestTypes, Local, CleanersAreLate,
           UploadsThere
  <1>7. UploadsThere'
    BY DEF Types, TableTypes, FileTypes, RequestTypes, Local, CleanersAreLate,
           UploadsThere
  <1> QED
    BY <1>1, <1>2, <1>3, <1>4, <1>5, <1>6, <1>7

LEMMA CopyAllStep ==
  ASSUME Inv, NEW p \in Procs, CopyAll(p) PROVE Inv'
  <1> USE KeyKinds DEF Inv, CopyAll, Goto, Ends, Changes, files, proc, local
  <1>1. Types'
    <2>1. FileTypes'
      BY DEF Types, FileTypes, RequestTypes, Local
    <2>2. TableTypes'
      BY ConstantsAssumption DEF Types, TableTypes, RequestTypes, Local
    <2>3. RequestTypes'
      BY DEF Types, RequestTypes, PCs, Handlers
    <2> QED
      BY <2>1, <2>2, <2>3 DEF Types
  <1>2. Local'
    BY DEF Types, RequestTypes, Local, PCs, Handlers
  <1>3. Excluded'
    BY DEF Types, RequestTypes, Local, Excluded, Locked, Writer
  <1>4. HalfByMaker'
    BY DEF Types, FileTypes, RequestTypes, Local, HalfByMaker
  <1>5. ObjectsWhole'
    <2>1. \A q \in Procs : q # p => pc'[q] = pc[q] /\ op'[q] = op[q]
      BY DEF Types, RequestTypes
    <2>2. /\ \A k \in Keys : k # key[p] \/ file[k] = "whole" => file'[k] = file[k]
          /\ maker' = maker /\ key' = key
      BY DEF Types, FileTypes
    <2>3. ASSUME NEW q \in offered'
          PROVE  pc'[q] \in {"lock", "serve"} /\ op'[q] = "download" /\ file'[key'[q]] = "whole"
      <3>1. q \in offered /\ q # p
        BY <2>3 DEF ObjectsWhole
      <3> QED
        BY <2>1, <2>2, <3>1 DEF ObjectsWhole, Types, RequestTypes
    <2>4. ASSUME NEW q \in Procs, q # p
          PROVE  /\ pc'[q] = "copy" /\ key'[q] \in Objects =>
                      file'[key'[q]] = "partial" /\ maker'[key'[q]] = q
                 /\ pc'[q] = "pin" => file'[key'[q]] = "whole"
      <3>1. CASE key[q] = key[p]
        BY <2>1, <2>2, <2>4, <3>1, FillerAlone DEF Local, Types, RequestTypes
      <3>2. CASE key[q] # key[p]
        <4>1. /\ pc[q] = "copy" /\ key[q] \in Objects =>
                   file[key[q]] = "partial" /\ maker[key[q]] = q
              /\ pc[q] = "pin" => file[key[q]] = "whole"
          BY DEF ObjectsWhole
        <4>2. /\ file'[key[q]] = file[key[q]] /\ maker'[key[q]] = maker[key[q]]
              /\ key'[q] = key[q]
          BY <2>2, <3>2 DEF Types, RequestTypes
        <4> HIDE DEF Inv, CopyAll
        <4> QED
          BY <2>1, <2>4, <4>1, <4>2
      <3> QED
        BY <3>1, <3>2
    <2>5. pc'[p] # "copy" /\ (pc'[p] = "pin" => file'[key[p]] = "whole")
      <3>1. pc'[p] # "copy" /\ (pc'[p] = "pin" => op[p] = "upload")
        BY DEF Types, RequestTypes
      <3>2. ASSUME op[p] = "upload" PROVE file'[key[p]] = "whole"
        <4>1. file[key[p]] = "partial" /\ maker[key[p]] = p /\ key[p] \in Keys
          BY <3>2 DEF Local, ObjectsWhole
        <4> QED
          BY <3>2, <4>1 DEF Types, FileTypes
      <3> QED
        BY <3>1, <3>2
    <2> QED
      BY <2>2, <2>3, <2>4, <2>5 DEF ObjectsWhole
  <1>6. CleanersAreLate'
    BY DEF Types, TableTypes, FileTypes, RequestTypes, Local, CleanersAreLate,
           UploadsThere
  <1>7. UploadsThere'
    BY DEF Types, TableTypes, FileTypes, RequestTypes, Local, CleanersAreLate,
           UploadsThere
  <1> QED
    BY <1>1, <1>2, <1>3, <1>4, <1>5, <1>6, <1>7

LEMMA CopyBreaksStep ==
  ASSUME Inv, NEW p \in Procs, CopyBreaks(p) PROVE Inv'
  <1> USE KeyKinds DEF Inv, CopyBreaks, Goto, Ends, Changes, files, proc, local
  <1>1. Types'
    <2>1. FileTypes'
      BY DEF Types, FileTypes, RequestTypes, Local
    <2>2. TableTypes'
      BY ConstantsAssumption DEF Types, TableTypes, RequestTypes, Local
    <2>3. RequestTypes'
      BY DEF Types, RequestTypes, PCs, Handlers
    <2> QED
      BY <2>1, <2>2, <2>3 DEF Types
  <1>2. Local'
    BY DEF Types, RequestTypes, Local, PCs, Handlers
  <1>3. Excluded'
    BY DEF Types, RequestTypes, Local, Excluded, Locked, Writer
  <1>4. HalfByMaker'
    BY DEF Types, FileTypes, RequestTypes, Local, HalfByMaker
  <1>5. ObjectsWhole'
    <2>1. \A q \in Procs : q # p => pc'[q] = pc[q] /\ op'[q] = op[q]
      BY DEF Types, RequestTypes
    <2>2. /\ \A k \in Keys : k # key[p] \/ k \in Assets => file'[k] = file[k]
          /\ maker' = maker /\ key' = key
      BY DEF Types, FileTypes, Local
    <2>3. ASSUME NEW q \in offered'
          PROVE  pc'[q] \in {"lock", "serve"} /\ op'[q] = "download" /\ file'[key'[q]] = "whole"
      <3>1. q \in offered /\ q # p
        BY <2>3 DEF ObjectsWhole
      <3>2. op[q] = "download" /\ file[key[q]] = "whole" /\ q \in Procs
        BY <3>1 DEF ObjectsWhole, Types, RequestTypes
      <3>3. key[q] \in Objects
        BY <3>2 DEF Local
      <3>4. key[q] # key[p]
        BY <3>2, <3>3 DEF ObjectsWhole
      <3> QED
        BY <2>1, <2>2, <3>1, <3>3, <3>4 DEF ObjectsWhole, Types, RequestTypes
    <2>4. ASSUME NEW q \in Procs, q # p
          PROVE  /\ pc'[q] = "copy" /\ key'[q] \in Objects =>
                      file'[key'[q]] = "partial" /\ maker'[key'[q]] = q
                 /\ pc'[q] = "pin" => file'[key'[q]] = "whole"
      <3>1. CASE key[q] = key[p]
        BY <2>1, <2>2, <2>4, <3>1, FillerAlone DEF Local, Types, RequestTypes
      <3>2. CASE key[q] # key[p]
        <4>1. /\ pc[q] = "copy" /\ key[q] \in Objects =>
                   file[key[q]] = "partial" /\ maker[key[q]] = q
              /\ pc[q] = "pin" => file[key[q]] = "whole"
          BY DEF ObjectsWhole
        <4>2. /\ file'[key[q]] = file[key[q]] /\ maker'[key[q]] = maker[key[q]]
              /\ key'[q] = key[q]
          BY <2>2, <3>2 DEF Types, RequestTypes
        <4> HIDE DEF Inv, CopyBreaks
        <4> QED
          BY <2>1, <2>4, <4>1, <4>2
      <3> QED
        BY <3>1, <3>2
    <2>5. pc'[p] # "copy" /\ pc'[p] # "pin"
      BY DEF Types, RequestTypes
    <2> QED
      BY <2>3, <2>4, <2>5 DEF ObjectsWhole
  <1>6. CleanersAreLate'
    BY DEF Types, TableTypes, FileTypes, RequestTypes, Local, CleanersAreLate,
           UploadsThere
  <1>7. UploadsThere'
    BY DEF Types, TableTypes, FileTypes, RequestTypes, Local, CleanersAreLate,
           UploadsThere
  <1> QED
    BY <1>1, <1>2, <1>3, <1>4, <1>5, <1>6, <1>7

LEMMA StoreStep ==
  ASSUME Inv, NEW p \in Procs, Store(p) PROVE Inv'
  <1> USE KeyKinds DEF Inv, Store, Goto, Ends, Changes, files, proc, local
  <1>1. Types'
    <2>1. FileTypes'
      BY DEF Types, FileTypes, RequestTypes, Local
    <2>2. TableTypes'
      BY ConstantsAssumption DEF Types, TableTypes, RequestTypes, Local
    <2>3. RequestTypes'
      BY DEF Types, RequestTypes, PCs, Handlers
    <2> QED
      BY <2>1, <2>2, <2>3 DEF Types
  <1>2. Local'
    BY DEF Types, RequestTypes, Local, PCs, Handlers
  <1>3. Excluded'
    BY DEF Types, RequestTypes, Local, Excluded, Locked, Writer
  <1>4. HalfByMaker'
    BY DEF Types, FileTypes, RequestTypes, Local, HalfByMaker
  <1>5. ObjectsWhole'
    BY DEF Types, FileTypes, RequestTypes, Local, ObjectsWhole
  <1>6. CleanersAreLate'
    BY DEF Types, TableTypes, FileTypes, RequestTypes, Local, CleanersAreLate,
           UploadsThere
  <1>7. UploadsThere'
    BY DEF Types, TableTypes, FileTypes, RequestTypes, Local, CleanersAreLate,
           UploadsThere
  <1> QED
    BY <1>1, <1>2, <1>3, <1>4, <1>5, <1>6, <1>7

LEMMA PinObjectStep ==
  ASSUME Inv, NEW p \in Procs, PinObject(p) PROVE Inv'
  <1> USE KeyKinds DEF Inv, PinObject, Goto, Ends, Changes, files, proc, local
  <1>1. Types'
    <2>1. FileTypes'
      BY DEF Types, FileTypes, RequestTypes, ObjectsWhole
    <2>2. TableTypes'
      BY ConstantsAssumption DEF Types, TableTypes, RequestTypes, Local
    <2>3. RequestTypes'
      BY DEF Types, RequestTypes, PCs, Handlers
    <2> QED
      BY <2>1, <2>2, <2>3 DEF Types
  <1>2. Local'
    BY DEF Types, RequestTypes, Local, PCs, Handlers
  <1>3. Excluded'
    BY DEF Types, RequestTypes, Local, Excluded, Locked, Writer
  <1>4. HalfByMaker'
    BY DEF Types, FileTypes, RequestTypes, Local, HalfByMaker
  <1>5. ObjectsWhole'
    BY DEF Types, FileTypes, RequestTypes, Local, ObjectsWhole
  <1>6. CleanersAreLate'
    BY DEF Types, TableTypes, FileTypes, RequestTypes, Local, CleanersAreLate,
           UploadsThere
  <1>7. UploadsThere'
    BY DEF Types, TableTypes, FileTypes, RequestTypes, Local, CleanersAreLate,
           UploadsThere
  <1> QED
    BY <1>1, <1>2, <1>3, <1>4, <1>5, <1>6, <1>7

LEMMA BatchStep ==
  ASSUME Inv, NEW p \in Procs, Batch(p) PROVE Inv'
  <1> USE KeyKinds DEF Inv, Batch, Goto, Ends, Changes, files, proc, local
  <1>1. Types'
    <2>1. FileTypes'
      BY DEF Types, FileTypes, RequestTypes, Local
    <2>2. TableTypes'
      BY ConstantsAssumption DEF Types, TableTypes, RequestTypes, Local
    <2>3. RequestTypes'
      BY DEF Types, RequestTypes, PCs, Handlers
    <2> QED
      BY <2>1, <2>2, <2>3 DEF Types
  <1>2. Local'
    BY DEF Types, RequestTypes, Local, PCs, Handlers
  <1>3. Excluded'
    BY DEF Types, RequestTypes, Local, Excluded, Locked, Writer
  <1>4. HalfByMaker'
    BY DEF Types, FileTypes, RequestTypes, Local, HalfByMaker
  <1>5. ObjectsWhole'
    BY DEF Types, FileTypes, RequestTypes, Local, ObjectsWhole
  <1>6. CleanersAreLate'
    BY DEF Types, TableTypes, FileTypes, RequestTypes, Local, CleanersAreLate,
           UploadsThere
  <1>7. UploadsThere'
    BY DEF Types, TableTypes, FileTypes, RequestTypes, Local, CleanersAreLate,
           UploadsThere
  <1> QED
    BY <1>1, <1>2, <1>3, <1>4, <1>5, <1>6, <1>7

LEMMA LookStep ==
  ASSUME Inv, NEW p \in Procs, Look(p) PROVE Inv'
  <1> USE KeyKinds DEF Inv, Look, Goto, Ends, Changes, files, proc, local
  <1>1. Types'
    <2>1. FileTypes'
      BY DEF Types, FileTypes, RequestTypes, Local
    <2>2. TableTypes'
      BY ConstantsAssumption DEF Types, TableTypes, RequestTypes, Local
    <2>3. RequestTypes'
      BY DEF Types, RequestTypes, PCs, Handlers
    <2> QED
      BY <2>1, <2>2, <2>3 DEF Types
  <1>2. Local'
    BY DEF Types, RequestTypes, Local, PCs, Handlers
  <1>3. Excluded'
    BY DEF Types, RequestTypes, Local, Excluded, Locked, Writer
  <1>4. HalfByMaker'
    BY DEF Types, FileTypes, RequestTypes, Local, HalfByMaker
  <1>5. ObjectsWhole'
    BY DEF Types, FileTypes, RequestTypes, Local, ObjectsWhole
  <1>6. CleanersAreLate'
    BY DEF Types, TableTypes, FileTypes, RequestTypes, Local, CleanersAreLate,
           UploadsThere
  <1>7. UploadsThere'
    BY DEF Types, TableTypes, FileTypes, RequestTypes, Local, CleanersAreLate,
           UploadsThere
  <1> QED
    BY <1>1, <1>2, <1>3, <1>4, <1>5, <1>6, <1>7

LEMMA ServeStep ==
  ASSUME Inv, NEW p \in Procs, Serve(p) PROVE Inv'
  <1> USE KeyKinds DEF Inv, Serve, Goto, Ends, Changes, files, proc, local
  <1>1. Types'
    <2>1. FileTypes'
      BY DEF Types, FileTypes, RequestTypes, Local
    <2>2. TableTypes'
      BY ConstantsAssumption DEF Types, TableTypes, RequestTypes, Local
    <2>3. RequestTypes'
      BY DEF Types, RequestTypes, PCs, Handlers
    <2> QED
      BY <2>1, <2>2, <2>3 DEF Types
  <1>2. Local'
    BY DEF Types, RequestTypes, Local, PCs, Handlers
  <1>3. Excluded'
    BY DEF Types, RequestTypes, Local, Excluded, Locked, Writer
  <1>4. HalfByMaker'
    BY DEF Types, FileTypes, RequestTypes, Local, HalfByMaker
  <1>5. ObjectsWhole'
    BY DEF Types, FileTypes, RequestTypes, Local, ObjectsWhole
  <1>6. CleanersAreLate'
    BY DEF Types, TableTypes, FileTypes, RequestTypes, Local, CleanersAreLate,
           UploadsThere
  <1>7. UploadsThere'
    BY DEF Types, TableTypes, FileTypes, RequestTypes, Local, CleanersAreLate,
           UploadsThere
  <1> QED
    BY <1>1, <1>2, <1>3, <1>4, <1>5, <1>6, <1>7

LEMMA CreateReleaseStep ==
  ASSUME Inv, NEW s \in Assets, CreateRelease(s) PROVE Inv'
  <1> USE KeyKinds DEF Inv, CreateRelease, Goto, Ends, Changes, files, proc, local
  <1>1. Types'
    <2>1. FileTypes'
      BY DEF Types, FileTypes, RequestTypes, Local
    <2>2. TableTypes'
      BY ConstantsAssumption DEF Types, TableTypes, RequestTypes, Local
    <2>3. RequestTypes'
      BY DEF Types, RequestTypes, PCs, Handlers
    <2> QED
      BY <2>1, <2>2, <2>3 DEF Types
  <1>2. Local'
    BY DEF Types, RequestTypes, Local, PCs, Handlers
  <1>3. Excluded'
    BY DEF Types, RequestTypes, Local, Excluded, Locked, Writer
  <1>4. HalfByMaker'
    BY DEF Types, FileTypes, RequestTypes, Local, HalfByMaker
  <1>5. ObjectsWhole'
    BY DEF Types, FileTypes, RequestTypes, Local, ObjectsWhole
  <1>6. CleanersAreLate'
    BY DEF Types, TableTypes, FileTypes, RequestTypes, Local, CleanersAreLate,
           UploadsThere
  <1>7. UploadsThere'
    BY DEF Types, TableTypes, FileTypes, RequestTypes, Local, CleanersAreLate,
           UploadsThere
  <1> QED
    BY <1>1, <1>2, <1>3, <1>4, <1>5, <1>6, <1>7

LEMMA PinReleaseStep ==
  ASSUME Inv, NEW s \in Assets, PinRelease(s) PROVE Inv'
  <1> USE KeyKinds DEF Inv, PinRelease, Goto, Ends, Changes, files, proc, local
  <1>1. Types'
    <2>1. FileTypes'
      BY DEF Types, FileTypes, RequestTypes, Local
    <2>2. TableTypes'
      BY ConstantsAssumption DEF Types, TableTypes, RequestTypes, Local
    <2>3. RequestTypes'
      BY DEF Types, RequestTypes, PCs, Handlers
    <2> QED
      BY <2>1, <2>2, <2>3 DEF Types
  <1>2. Local'
    BY DEF Types, RequestTypes, Local, PCs, Handlers
  <1>3. Excluded'
    BY DEF Types, RequestTypes, Local, Excluded, Locked, Writer
  <1>4. HalfByMaker'
    BY DEF Types, FileTypes, RequestTypes, Local, HalfByMaker
  <1>5. ObjectsWhole'
    BY DEF Types, FileTypes, RequestTypes, Local, ObjectsWhole
  <1>6. CleanersAreLate'
    BY DEF Types, TableTypes, FileTypes, RequestTypes, Local, CleanersAreLate,
           UploadsThere
  <1>7. UploadsThere'
    BY DEF Types, TableTypes, FileTypes, RequestTypes, Local, CleanersAreLate,
           UploadsThere
  <1> QED
    BY <1>1, <1>2, <1>3, <1>4, <1>5, <1>6, <1>7

LEMMA EvictStep ==
  ASSUME Inv, NEW k \in Keys, Evict(k) PROVE Inv'
  <1> USE KeyKinds DEF Inv, Evict, Goto, Ends, Changes, files, proc, local
  <1>1. Types'
    <2>1. FileTypes'
      BY DEF Types, FileTypes, RequestTypes, Local
    <2>2. TableTypes'
      BY ConstantsAssumption DEF Types, TableTypes, RequestTypes, Local
    <2>3. RequestTypes'
      BY DEF Types, RequestTypes, PCs, Handlers
    <2> QED
      BY <2>1, <2>2, <2>3 DEF Types, InUse, Locked
  <1>2. Local'
    BY DEF Types, RequestTypes, Local, PCs, Handlers, InUse, Locked
  <1>3. Excluded'
    BY DEF Types, RequestTypes, Local, Excluded, Locked, Writer, InUse, Locked
  <1>4. HalfByMaker'
    BY DEF Types, FileTypes, RequestTypes, Local, HalfByMaker, InUse, Locked
  <1>5. ObjectsWhole'
    BY DEF Types, FileTypes, RequestTypes, Local, ObjectsWhole, InUse, Locked
  <1>6. CleanersAreLate'
    BY DEF Types, TableTypes, FileTypes, RequestTypes, Local, CleanersAreLate, UploadsThere, InUse, Locked
  <1>7. UploadsThere'
    BY DEF Types, TableTypes, FileTypes, RequestTypes, Local, CleanersAreLate, UploadsThere, InUse, Locked
  <1> QED
    BY <1>1, <1>2, <1>3, <1>4, <1>5, <1>6, <1>7

LEMMA RestartStep ==
  ASSUME Inv, Restart PROVE Inv'
  <1> USE KeyKinds DEF Inv, Restart, Goto, Ends, Changes, files, proc, local
  <1>1. Types'
    <2>1. FileTypes'
      BY DEF Types, FileTypes, RequestTypes, Local
    <2>2. TableTypes'
      BY ConstantsAssumption DEF Types, TableTypes, RequestTypes, Local
    <2>3. RequestTypes'
      BY DEF Types, RequestTypes, PCs, Handlers
    <2> QED
      BY <2>1, <2>2, <2>3 DEF Types
  <1>2. Local'
    BY DEF Types, RequestTypes, Local, PCs, Handlers
  <1>3. Excluded'
    BY DEF Types, RequestTypes, Local, Excluded, Locked, Writer
  <1>4. HalfByMaker'
    BY DEF Types, FileTypes, RequestTypes, Local, HalfByMaker
  <1>5. ObjectsWhole'
    BY DEF Types, FileTypes, RequestTypes, Local, ObjectsWhole
  <1>6. CleanersAreLate'
    BY DEF Types, TableTypes, FileTypes, RequestTypes, Local, CleanersAreLate,
           UploadsThere
  <1>7. UploadsThere'
    BY DEF Types, TableTypes, FileTypes, RequestTypes, Local, CleanersAreLate,
           UploadsThere
  <1> QED
    BY <1>1, <1>2, <1>3, <1>4, <1>5, <1>6, <1>7

LEMMA TickStep ==
  ASSUME Inv, Tick PROVE Inv'
  <1> USE KeyKinds DEF Inv, Tick, Goto, Ends, Changes, files, proc, local
  <1>1. Types'
    <2>1. FileTypes'
      BY DEF Types, FileTypes, RequestTypes, Local
    <2>2. TableTypes'
      BY ConstantsAssumption DEF Types, TableTypes, RequestTypes, Local
    <2>3. RequestTypes'
      BY DEF Types, RequestTypes, PCs, Handlers
    <2> QED
      BY <2>1, <2>2, <2>3 DEF Types
  <1>2. Local'
    BY DEF Types, RequestTypes, Local, PCs, Handlers
  <1>3. Excluded'
    BY DEF Types, RequestTypes, Local, Excluded, Locked, Writer
  <1>4. HalfByMaker'
    BY DEF Types, FileTypes, RequestTypes, Local, HalfByMaker
  <1>5. ObjectsWhole'
    BY DEF Types, FileTypes, RequestTypes, Local, ObjectsWhole
  <1>6. CleanersAreLate'
    BY DEF Types, TableTypes, FileTypes, RequestTypes, Local, CleanersAreLate,
           UploadsThere
  <1>7. UploadsThere'
    BY DEF Types, TableTypes, FileTypes, RequestTypes, Local, CleanersAreLate,
           UploadsThere
  <1> QED
    BY <1>1, <1>2, <1>3, <1>4, <1>5, <1>6, <1>7

LEMMA InvInit == Init => Inv
  <1> SUFFICES ASSUME Init PROVE Inv
    OBVIOUS
  <1> USE KeyKinds DEF Init, Inv
  <1>1. FileTypes /\ TableTypes
    BY ConstantsAssumption DEF FileTypes, TableTypes
  <1>2. RequestTypes
    BY DEF RequestTypes, PCs, Handlers
  <1>3. Local /\ Excluded
    BY DEF Local, Excluded, Locked
  <1>4. HalfByMaker /\ ObjectsWhole
    BY DEF HalfByMaker, ObjectsWhole
  <1>5. CleanersAreLate /\ UploadsThere
    BY DEF CleanersAreLate, UploadsThere
  <1> QED
    BY <1>1, <1>2, <1>3, <1>4, <1>5 DEF Types

LEMMA InvStep == Inv /\ [Next]_vars => Inv'
  <1> SUFFICES ASSUME Inv, [Next]_vars PROVE Inv'
    OBVIOUS
  <1>1. CASE UNCHANGED vars
    <2>1. Types' /\ Local'
      BY <1>1 DEF vars, files, proc, local, Inv, Types, FileTypes, TableTypes, RequestTypes, Local
    <2>2. Excluded' /\ HalfByMaker' /\ ObjectsWhole'
      BY <1>1 DEF vars, files, proc, local, Inv, Excluded, Locked, Writer, HalfByMaker, ObjectsWhole
    <2>3. CleanersAreLate' /\ UploadsThere'
      BY <1>1 DEF vars, files, proc, local, Inv, CleanersAreLate, UploadsThere
    <2> QED
      BY <2>1, <2>2, <2>3 DEF Inv
  <1>2. ASSUME NEW p \in Procs, Request(p) PROVE Inv'
    BY <1>2, BeginStep, CleanCheckStep, CleanRemoveStep, CleanDeleteStep,
       ConfirmStep, AcquireStep, StatStep, CreateStep, CopyAllStep,
       CopyBreaksStep, StoreStep, PinObjectStep, BatchStep, LookStep, ServeStep
       DEF Request
  <1> QED
    BY <1>1, <1>2, CreateReleaseStep, PinReleaseStep, EvictStep, RestartStep,
       TickStep DEF Next

LEMMA Invariant == Spec => []Inv
  BY InvInit, InvStep, PTL DEF Spec

-----------------------------------------------------------------------------
(* The locks of attachments and objects exclude writers (LockAsset,        *)
(* LockLFSObject), and a clean-up has a token in its hands exactly while   *)
(* it removes its file or deletes it from the table.                       *)
THEOREM WritersExclude == Spec => []TypeOK
  <1>1. ASSUME Inv PROVE TypeOK
    <2>1. pending \in [Tokens -> 0..MaxNow + Expiry]
      BY <1>1, ConstantsAssumption DEF Inv, Types, TableTypes
    <2> QED
      BY <1>1, <2>1 DEF Inv, Types, FileTypes, RequestTypes, Local, Excluded, TypeOK
  <1> QED
    BY <1>1, Invariant, PTL

(* A file that is half there is being written by the request that          *)
(* truncated it last, or a fault hit it.                                   *)
THEOREM NoUnexcusedHalf == Spec => []HalfFileIsExcused
  <1>1. Inv => HalfFileIsExcused
    BY DEF Inv, HalfByMaker, HalfFileIsExcused, Writing
  <1> QED
    BY <1>1, Invariant, PTL

(* ServeDownloadHandler finds what ServeBatchHandler offered without the   *)
(* lock, unless it was evicted or uploaded again in between.               *)
THEOREM OffersAreKept == Spec => []OfferedIsServed
  <1>1. Inv => OfferedIsServed
    BY DEF Inv, ObjectsWhole, OfferedIsServed
  <1> QED
    BY <1>1, Invariant, PTL

(* An answered upload keeps its place in the table and its file until it   *)
(* expires or is confirmed, whatever expired uploads others clean up.      *)
THEOREM AnsweredUploadsKept == Spec => []UploadIsKept
  <1>1. ASSUME Inv PROVE UploadIsKept
    <2> SUFFICES ASSUME NEW t \in Tokens, now < promised[t]
                 PROVE  /\ pending[t] = promised[t]
                        /\ file[t[2]] = "whole" \/ Writing(t[2]) \/ t[2] \in spoilt
      BY DEF UploadIsKept
    <2>1. /\ pending[t] = promised[t]
          /\ file[t[2]] # "absent" \/ t[2] \in spoilt
      BY <1>1 DEF Inv, UploadsThere
    <2>2. t[2] \in Keys /\ file[t[2]] \in {"absent", "partial", "whole"}
      BY <1>1, KeyKinds DEF Inv, Types, FileTypes
    <2>3. file[t[2]] = "partial" => Writing(t[2]) \/ t[2] \in spoilt
      BY <1>1, <2>2 DEF Inv, HalfByMaker, Writing
    <2> QED
      BY <2>1, <2>2, <2>3
  <1> QED
    BY <1>1, Invariant, PTL
=============================================================================
