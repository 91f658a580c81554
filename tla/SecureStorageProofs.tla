------------------------ MODULE SecureStorageProofs ------------------------
(***************************************************************************)
(* Proofs about SecureStorage, for any bound on the power failures: IInv   *)
(* is an inductive invariant, and the five properties follow from it.      *)
(***************************************************************************)
EXTENDS SecureStorage, FiniteSetTheorems, TLAPS

LEMMA AtMostThree == \A a, b, c : Cardinality({a, b, c}) # 4
<1> TAKE a, b, c
<1>1. IsFiniteSet({a}) /\ Cardinality({a}) = 1
  BY FS_Singleton
<1>2. IsFiniteSet({a, b}) /\ Cardinality({a, b}) \in {1, 2}
  <2>1. {a, b} = {a} \cup {b}
    OBVIOUS
  <2> QED BY <1>1, <2>1, FS_AddElement
<1>3. {a, b, c} = {a, b} \cup {c}
  OBVIOUS
<1>4. Cardinality({a, b, c}) \in {1, 2, 3}
  BY <1>2, <1>3, FS_AddElement
<1> QED BY <1>4

(* The contents of an object and the marks for none can be told apart. *)
LEMMA Distinct ==
  /\ Object1 # Object2
  /\ Data1 # Data2 /\ Data1 # NoObject /\ Data1 # Empty
  /\ Data2 # NoObject /\ Data2 # Empty /\ NoObject # Empty
<1>1. Object1 # Object2 /\ Cardinality({Data1, Data2, NoObject, Empty}) = 4
  BY DistinctAssumption
<1> DEFINE Smaller(a, b, c) == {Data1, Data2, NoObject, Empty} = {a, b, c}
<1>2. ASSUME NEW a, NEW b, NEW c, Smaller(a, b, c) PROVE FALSE
  BY <1>1, <1>2, AtMostThree
<1>3. Data1 = Data2 => Smaller(Data1, NoObject, Empty)
  OBVIOUS
<1>4. Data1 = NoObject => Smaller(Data1, Data2, Empty)
  OBVIOUS
<1>5. Data1 = Empty => Smaller(Data1, Data2, NoObject)
  OBVIOUS
<1>6. Data2 = NoObject => Smaller(Data1, Data2, Empty)
  OBVIOUS
<1>7. Data2 = Empty => Smaller(Data1, Data2, NoObject)
  OBVIOUS
<1>8. NoObject = Empty => Smaller(Data1, Data2, NoObject)
  OBVIOUS
<1> HIDE DEF Smaller
<1> QED BY <1>1, <1>2, <1>3, <1>4, <1>5, <1>6, <1>7, <1>8

USE Distinct, BoundAssumption

LEMMA InitIInv == Init => IInv
<1> SUFFICES ASSUME Init PROVE IInv
  OBVIOUS
<1>1. TypeOK
  <2>1. opened \in BOOLEAN /\ had2 \in BOOLEAN
    BY DEF Init
  <2>2. store \in [Objects -> Contents \cup {NoObject}]
    BY DEF Init
  <2>3. /\ main \in MainSteps \cup {"off"} /\ status \in {"none", "ok", "failed"}
        /\ tpc \in TaSteps /\ code \in Codes /\ heap \in Nat /\ oom \in Nat
        /\ read_data \in Contents /\ undeleted \in SUBSET Objects
    BY DEF Init, Contents, MainSteps, TaSteps, Codes
  <2>4. crashes \in 0 .. MaxCrashes
    BY DEF Init
  <2> QED BY <2>1, <2>2, <2>3, <2>4 DEF TypeOK
<1>2. CommandInv
  <2>1. opened = FALSE /\ tpc = "idle"
    BY DEF Init
  <2>2. heap = oom + Allocated
    BY DEF Init, Allocated
  <2> QED BY <2>1, <2>2 DEF CommandInv
<1>3. AchievedInv /\ MainInv
  BY DEF Init, AchievedInv, MainInv
<1>4. NoTornObject /\ RunToggles
  BY DEF Init, NoTornObject, RunToggles, Objects
<1> QED BY <1>1, <1>2, <1>3, <1>4 DEF IInv

-----------------------------------------------------------------------------
(* The steps of a command: what it holds is what its step says, and only   *)
(* its last one makes the contents of the storage what the program is told. *)

LEMMA MallocIdIInv == ASSUME IInv, MallocId PROVE IInv'
<1> USE DEF IInv
<1>0. UNCHANGED <<main, status, had2, crashes>>
  BY DEF MallocId, Malloc, Go, Return, hostVars
<1>1. TypeOK'
  <2>1. opened' \in BOOLEAN /\ had2' \in BOOLEAN
    BY <1>0 DEF TypeOK, MallocId, Malloc, Go, Return
  <2>2. tpc' \in TaSteps /\ code' \in Codes /\ heap' \in Nat /\ oom' \in Nat
    BY DEF TypeOK, MallocId, Malloc, Go, Return, TaSteps, Codes, CommandInv, Allocated, Buffers, Writes, Reads, Deletes
  <2>3. read_data' \in Contents /\ undeleted' \in SUBSET Objects /\ store' \in [Objects -> Contents \cup {NoObject}]
    BY DEF TypeOK, MallocId, Malloc, Go, Return, hostVars, Contents, Objects, Object, Data
  <2> QED BY <1>0, <2>1, <2>2, <2>3 DEF TypeOK
<1>2. CommandInv'
  BY <1>0 DEF TypeOK, CommandInv, MallocId, Malloc, Go, Return, Allocated, Buffers, Writes, Reads, Deletes
<1>3. AchievedInv' /\ MainInv'
  BY <1>0 DEF TypeOK, AchievedInv, CommandInv, MainInv, MallocId, Malloc, Go, Return, hostVars, Object, Data, Writes, Deletes, Reads, Objects
<1>4. NoTornObject' /\ RunToggles'
  BY <1>0 DEF TypeOK, CommandInv, MainInv, NoTornObject, RunToggles, MallocId, Malloc, Go, Return, hostVars, Object, Data, Writes, Reads, Deletes, Objects
<1> QED BY <1>1, <1>2, <1>3, <1>4

LEMMA MallocDataIInv == ASSUME IInv, MallocData PROVE IInv'
<1> USE DEF IInv
<1>0. UNCHANGED <<main, status, had2, crashes>>
  BY DEF MallocData, Malloc, Go, Return, hostVars
<1>1. TypeOK'
  <2>1. opened' \in BOOLEAN /\ had2' \in BOOLEAN
    BY <1>0 DEF TypeOK, MallocData, Malloc, Go, Return
  <2>2. tpc' \in TaSteps /\ code' \in Codes /\ heap' \in Nat /\ oom' \in Nat
    BY DEF TypeOK, MallocData, Malloc, Go, Return, TaSteps, Codes, CommandInv, Allocated, Buffers, Writes, Reads, Deletes
  <2>3. read_data' \in Contents /\ undeleted' \in SUBSET Objects /\ store' \in [Objects -> Contents \cup {NoObject}]
    BY DEF TypeOK, MallocData, Malloc, Go, Return, hostVars, Contents, Objects, Object, Data
  <2> QED BY <1>0, <2>1, <2>2, <2>3 DEF TypeOK
<1>2. CommandInv'
  BY <1>0 DEF TypeOK, CommandInv, MallocData, Malloc, Go, Return, Allocated, Buffers, Writes, Reads, Deletes
<1>3. AchievedInv' /\ MainInv'
  BY <1>0 DEF TypeOK, AchievedInv, CommandInv, MainInv, MallocData, Malloc, Go, Return, hostVars, Object, Data, Writes, Deletes, Reads, Objects
<1>4. NoTornObject' /\ RunToggles'
  BY <1>0 DEF TypeOK, CommandInv, MainInv, NoTornObject, RunToggles, MallocData, Malloc, Go, Return, hostVars, Object, Data, Writes, Reads, Deletes, Objects
<1> QED BY <1>1, <1>2, <1>3, <1>4

LEMMA CreateIInv == ASSUME IInv, Create PROVE IInv'
<1> USE DEF IInv
<1>0. UNCHANGED <<main, status, had2, crashes>>
  BY DEF Create, Go, Return, hostVars
<1>1. TypeOK'
  <2>1. opened' \in BOOLEAN /\ had2' \in BOOLEAN
    BY <1>0 DEF TypeOK, Create, Go, Return
  <2>2. tpc' \in TaSteps /\ code' \in Codes /\ heap' \in Nat /\ oom' \in Nat
    BY DEF TypeOK, Create, Go, Return, TaSteps, Codes, CommandInv, Allocated, Buffers, Writes, Reads, Deletes
  <2>3. read_data' \in Contents /\ undeleted' \in SUBSET Objects /\ store' \in [Objects -> Contents \cup {NoObject}]
    BY DEF TypeOK, Create, Go, Return, hostVars, Contents, Objects, Object, Data
  <2> QED BY <1>0, <2>1, <2>2, <2>3 DEF TypeOK
<1>2. CommandInv'
  BY <1>0 DEF TypeOK, CommandInv, Create, Go, Return, Allocated, Buffers, Writes, Reads, Deletes
<1>3. AchievedInv' /\ MainInv'
  BY <1>0 DEF TypeOK, AchievedInv, CommandInv, MainInv, Create, Go, Return, hostVars, Object, Data, Writes, Deletes, Reads, Objects
<1>4. NoTornObject' /\ RunToggles'
  BY <1>0 DEF TypeOK, CommandInv, MainInv, NoTornObject, RunToggles, Create, Go, Return, hostVars, Object, Data, Writes, Reads, Deletes, Objects
<1> QED BY <1>1, <1>2, <1>3, <1>4

LEMMA WriteIInv == ASSUME IInv, Write PROVE IInv'
<1> USE DEF IInv
<1>0. /\ UNCHANGED <<main, status, had2, crashes, oom, undeleted, read_data>>
      /\ tpc = "write" /\ Writes /\ heap = oom + 2 /\ main \in {"write1", "write2"}
  BY DEF Write, hostVars, CommandInv, Allocated, Buffers, Writes, Deletes
<1>1. CASE /\ store' = [store EXCEPT ![Object] = Data]
           /\ opened' = FALSE
           /\ heap' = heap - Buffers
           /\ Return("success")
  <2>1. heap' = oom /\ tpc' = "return" /\ code' = "success"
    BY <1>0, <1>1 DEF Return, Buffers, Writes, Deletes, TypeOK
  <2>2. /\ Data \in {Data1, Data2} /\ Object \in Objects
        /\ Data = (IF Object = Object1 THEN Data1 ELSE Data2)
    BY <1>0 DEF Data, Object, Objects
  <2>3. TypeOK'
    BY <1>0, <1>1, <2>1, <2>2 DEF TypeOK, TaSteps, Codes, Contents
  <2>4. CommandInv'
    BY <1>0, <1>1, <2>1 DEF CommandInv, Allocated, TypeOK
  <2>5. AchievedInv' /\ MainInv'
    BY <1>0, <1>1, <2>1, <2>2 DEF AchievedInv, MainInv, TypeOK, Object, Data, Objects, Writes, Deletes
  <2>6. NoTornObject' /\ RunToggles'
    BY <1>0, <1>1, <2>1, <2>2 DEF NoTornObject, RunToggles, MainInv, TypeOK, Objects
  <2> QED BY <2>3, <2>4, <2>5, <2>6
<1>2. CASE Go("undo") /\ UNCHANGED <<store, opened, heap>>
  <2>1. tpc' = "undo" /\ code' = code
    BY <1>2 DEF Go
  <2>2. TypeOK'
    BY <1>0, <1>2, <2>1 DEF TypeOK, TaSteps
  <2>3. CommandInv'
    BY <1>0, <1>2, <2>1 DEF CommandInv, Allocated, Buffers, Writes, Deletes
  <2>4. AchievedInv' /\ MainInv'
    BY <1>0, <1>2, <2>1 DEF AchievedInv, MainInv
  <2>5. NoTornObject' /\ RunToggles'
    BY <1>0, <1>2, <2>1 DEF NoTornObject, RunToggles, Object
  <2> QED BY <2>2, <2>3, <2>4, <2>5
<1> QED BY <1>1, <1>2 DEF Write

LEMMA UndoIInv == ASSUME IInv, Undo PROVE IInv'
<1> USE DEF IInv
<1>0. UNCHANGED <<main, status, had2, crashes>>
  BY DEF Undo, CloseAndDelete, Return, hostVars
<1>1. TypeOK'
  <2>1. opened' \in BOOLEAN /\ had2' \in BOOLEAN
    BY <1>0 DEF TypeOK, Undo, CloseAndDelete, Return
  <2>2. tpc' \in TaSteps /\ code' \in Codes /\ heap' \in Nat /\ oom' \in Nat
    BY DEF TypeOK, Undo, CloseAndDelete, Return, TaSteps, Codes, CommandInv, Allocated, Buffers, Writes, Reads, Deletes
  <2>3. read_data' \in Contents /\ undeleted' \in SUBSET Objects /\ store' \in [Objects -> Contents \cup {NoObject}]
    BY DEF TypeOK, Undo, CloseAndDelete, Return, hostVars, Contents, Objects, Object, Data
  <2> QED BY <1>0, <2>1, <2>2, <2>3 DEF TypeOK
<1>2. CommandInv'
  BY <1>0 DEF TypeOK, CommandInv, Undo, CloseAndDelete, Return, Allocated, Buffers, Writes, Reads, Deletes
<1>3. AchievedInv' /\ MainInv'
  BY <1>0 DEF TypeOK, AchievedInv, CommandInv, MainInv, Undo, CloseAndDelete, Return, hostVars, Object, Data, Writes, Deletes, Reads, Objects
<1>4. NoTornObject' /\ RunToggles'
  BY <1>0 DEF TypeOK, CommandInv, MainInv, NoTornObject, RunToggles, Undo, CloseAndDelete, Return, hostVars, Object, Data, Writes, Reads, Deletes, Objects
<1> QED BY <1>1, <1>2, <1>3, <1>4

LEMMA OpenIInv == ASSUME IInv, Open PROVE IInv'
<1> USE DEF IInv
<1>0. UNCHANGED <<main, status, had2, crashes>>
  BY DEF Open, Go, Return, hostVars
<1>1. TypeOK'
  <2>1. opened' \in BOOLEAN /\ had2' \in BOOLEAN
    BY <1>0 DEF TypeOK, Open, Go, Return
  <2>2. tpc' \in TaSteps /\ code' \in Codes /\ heap' \in Nat /\ oom' \in Nat
    BY DEF TypeOK, Open, Go, Return, TaSteps, Codes, CommandInv, Allocated, Buffers, Writes, Reads, Deletes
  <2>3. read_data' \in Contents /\ undeleted' \in SUBSET Objects /\ store' \in [Objects -> Contents \cup {NoObject}]
    BY DEF TypeOK, Open, Go, Return, hostVars, Contents, Objects, Object, Data
  <2> QED BY <1>0, <2>1, <2>2, <2>3 DEF TypeOK
<1>2. CommandInv'
  <2>1. CASE /\ opened' = TRUE
             /\ Go(IF Reads THEN "info" ELSE "delete")
             /\ UNCHANGED heap
    BY <1>0, <2>1 DEF TypeOK, CommandInv, Open, Go, Allocated, Buffers, Writes, Reads, Deletes, MainSteps
  <2>2. CASE /\ \E c \in Codes : Return(c)
             /\ heap' = heap - Buffers
             /\ UNCHANGED opened
    BY <1>0, <2>2 DEF TypeOK, CommandInv, Open, Return, Allocated, Buffers, Writes, Reads, Deletes
  <2> QED BY <2>1, <2>2 DEF Open, Codes
<1>3. AchievedInv' /\ MainInv'
  BY <1>0 DEF TypeOK, AchievedInv, CommandInv, MainInv, Open, Go, Return, hostVars, Object, Data, Writes, Deletes, Reads, Objects
<1>4. NoTornObject' /\ RunToggles'
  BY <1>0 DEF TypeOK, CommandInv, MainInv, NoTornObject, RunToggles, Open, Go, Return, hostVars, Object, Data, Writes, Reads, Deletes, Objects
<1> QED BY <1>1, <1>2, <1>3, <1>4

LEMMA InfoIInv == ASSUME IInv, Info PROVE IInv'
<1> USE DEF IInv
<1>0. UNCHANGED <<main, status, had2, crashes>>
  BY DEF Info, Go, hostVars
<1>1. TypeOK'
  <2>1. opened' \in BOOLEAN /\ had2' \in BOOLEAN
    BY <1>0 DEF TypeOK, Info, Go
  <2>2. tpc' \in TaSteps /\ code' \in Codes /\ heap' \in Nat /\ oom' \in Nat
    BY DEF TypeOK, Info, Go, TaSteps, Codes, CommandInv, Allocated, Buffers, Writes, Reads, Deletes
  <2>3. read_data' \in Contents /\ undeleted' \in SUBSET Objects /\ store' \in [Objects -> Contents \cup {NoObject}]
    BY DEF TypeOK, Info, Go, hostVars, Contents, Objects, Object, Data
  <2> QED BY <1>0, <2>1, <2>2, <2>3 DEF TypeOK
<1>2. CommandInv'
  BY <1>0 DEF TypeOK, CommandInv, Info, Go, Allocated, Buffers, Writes, Reads, Deletes
<1>3. AchievedInv' /\ MainInv'
  BY <1>0 DEF TypeOK, AchievedInv, CommandInv, MainInv, Info, Go, hostVars, Object, Data, Writes, Deletes, Reads, Objects
<1>4. NoTornObject' /\ RunToggles'
  BY <1>0 DEF TypeOK, CommandInv, MainInv, NoTornObject, RunToggles, Info, Go, hostVars, Object, Data, Writes, Reads, Deletes, Objects
<1> QED BY <1>1, <1>2, <1>3, <1>4

LEMMA ReadIInv == ASSUME IInv, Read PROVE IInv'
<1> USE DEF IInv
<1>0. UNCHANGED <<main, status, had2, crashes>>
  BY DEF Read, hostVars
<1>1. TypeOK'
  <2>1. opened' \in BOOLEAN /\ had2' \in BOOLEAN
    BY <1>0 DEF TypeOK, Read
  <2>2. tpc' \in TaSteps /\ code' \in Codes /\ heap' \in Nat /\ oom' \in Nat
    BY DEF TypeOK, Read, TaSteps, Codes, CommandInv, Allocated, Buffers, Writes, Reads, Deletes
  <2>3. read_data' \in Contents /\ undeleted' \in SUBSET Objects /\ store' \in [Objects -> Contents \cup {NoObject}]
    <3>1. Object \in Objects /\ tpc = "read" /\ opened /\ UNCHANGED <<undeleted, store>>
      BY DEF Read, CommandInv, Object, Objects
    <3>2. read_data' \in {read_data, store[Object]}
      BY DEF Read
    <3>3. store[Object] # NoObject => store[Object] \in Contents
      BY <3>1 DEF TypeOK
    <3> QED BY <3>1, <3>2, <3>3 DEF TypeOK, AchievedInv
  <2> QED BY <1>0, <2>1, <2>2, <2>3 DEF TypeOK
<1>2. CommandInv'
  BY <1>0 DEF TypeOK, CommandInv, Read, Allocated, Buffers, Writes, Reads, Deletes
<1>3. AchievedInv' /\ MainInv'
  BY <1>0 DEF TypeOK, AchievedInv, CommandInv, MainInv, Read, hostVars, Object, Data, Writes, Deletes, Reads, Objects
<1>4. NoTornObject' /\ RunToggles'
  BY <1>0 DEF TypeOK, CommandInv, MainInv, NoTornObject, RunToggles, Read, hostVars, Object, Data, Writes, Reads, Deletes, Objects
<1> QED BY <1>1, <1>2, <1>3, <1>4

LEMMA CloseReadIInv == ASSUME IInv, CloseRead PROVE IInv'
<1> USE DEF IInv
<1>0. UNCHANGED <<main, status, had2, crashes>>
  BY DEF CloseRead, hostVars
<1>1. TypeOK'
  <2>1. opened' \in BOOLEAN /\ had2' \in BOOLEAN
    BY <1>0 DEF TypeOK, CloseRead
  <2>2. tpc' \in TaSteps /\ code' \in Codes /\ heap' \in Nat /\ oom' \in Nat
    BY DEF TypeOK, CloseRead, TaSteps, Codes, CommandInv, Allocated, Buffers, Writes, Reads, Deletes
  <2>3. read_data' \in Contents /\ undeleted' \in SUBSET Objects /\ store' \in [Objects -> Contents \cup {NoObject}]
    BY DEF TypeOK, CloseRead, hostVars, Contents, Objects, Object, Data
  <2> QED BY <1>0, <2>1, <2>2, <2>3 DEF TypeOK
<1>2. CommandInv'
  BY <1>0 DEF TypeOK, CommandInv, CloseRead, Allocated, Buffers, Writes, Reads, Deletes
<1>3. AchievedInv' /\ MainInv'
  BY <1>0 DEF TypeOK, AchievedInv, CommandInv, MainInv, CloseRead, hostVars, Object, Data, Writes, Deletes, Reads, Objects
<1>4. NoTornObject' /\ RunToggles'
  BY <1>0 DEF TypeOK, CommandInv, MainInv, NoTornObject, RunToggles, CloseRead, hostVars, Object, Data, Writes, Reads, Deletes, Objects
<1> QED BY <1>1, <1>2, <1>3, <1>4

LEMMA DeleteIInv == ASSUME IInv, Delete PROVE IInv'
<1> USE DEF IInv
<1>0. UNCHANGED <<main, status, had2, crashes>>
  BY DEF Delete, CloseAndDelete, Return, hostVars
<1>1. TypeOK'
  <2>1. opened' \in BOOLEAN /\ had2' \in BOOLEAN
    BY <1>0 DEF TypeOK, Delete, CloseAndDelete, Return
  <2>2. tpc' \in TaSteps /\ code' \in Codes /\ heap' \in Nat /\ oom' \in Nat
    BY DEF TypeOK, Delete, CloseAndDelete, Return, TaSteps, Codes, CommandInv, Allocated, Buffers, Writes, Reads, Deletes
  <2>3. read_data' \in Contents /\ undeleted' \in SUBSET Objects /\ store' \in [Objects -> Contents \cup {NoObject}]
    BY DEF TypeOK, Delete, CloseAndDelete, Return, hostVars, Contents, Objects, Object, Data
  <2> QED BY <1>0, <2>1, <2>2, <2>3 DEF TypeOK
<1>2. CommandInv'
  BY <1>0 DEF TypeOK, CommandInv, Delete, CloseAndDelete, Return, Allocated, Buffers, Writes, Reads, Deletes
<1>3. AchievedInv' /\ MainInv'
  BY <1>0 DEF TypeOK, AchievedInv, CommandInv, MainInv, Delete, CloseAndDelete, Return, hostVars, Object, Data, Writes, Deletes, Reads, Objects
<1>4. NoTornObject' /\ RunToggles'
  BY <1>0 DEF TypeOK, CommandInv, MainInv, NoTornObject, RunToggles, Delete, CloseAndDelete, Return, hostVars, Object, Data, Writes, Reads, Deletes, Objects
<1> QED BY <1>1, <1>2, <1>3, <1>4
(* Between two commands: nothing is held, whatever the program does next.  *)
LEMMA FreshCommand ==
  ASSUME FreshInstance
  PROVE  /\ CommandInv'
         /\ tpc' = "idle" /\ code' = "none"
         /\ tpc' \in TaSteps /\ code' \in Codes /\ heap' \in Nat /\ oom' \in Nat
         /\ opened' \in BOOLEAN
<1>1. tpc' = "idle" /\ code' = "none" /\ heap' = 0 /\ oom' = 0 /\ opened' = FALSE
  BY DEF FreshInstance
<1>2. heap' = oom' + Allocated'
  BY <1>1 DEF Allocated
<1>3. CommandInv'
  BY <1>1, <1>2 DEF CommandInv
<1> QED BY <1>1, <1>3 DEF TaSteps, Codes

LEMMA RunIInv == ASSUME IInv, Run PROVE IInv'
<1> USE DEF IInv
<1>1. /\ main' = "write1" /\ status' = "none" /\ read_data' = Empty
      /\ FreshInstance /\ UNCHANGED <<store, crashes, undeleted, had2>>
  BY DEF Run
<1>2. TypeOK'
  BY <1>1, FreshCommand DEF TypeOK, MainSteps, Contents
<1>3. CommandInv' /\ AchievedInv' /\ MainInv'
  BY <1>1, FreshCommand DEF AchievedInv, MainInv
<1>4. NoTornObject' /\ RunToggles'
  <2>1. tpc = "idle"
    BY DEF Run, CommandInv
  <2> QED BY <1>1, <2>1, FreshCommand DEF NoTornObject, RunToggles
<1> QED BY <1>2, <1>3, <1>4

LEMMA InvokeIInv == ASSUME IInv, Invoke PROVE IInv'
<1> USE DEF IInv
<1>1. /\ tpc = "idle" /\ main # "off" /\ tpc' = "id"
      /\ UNCHANGED <<main, status, read_data, had2, code, heap, opened, oom, store, crashes,
                     undeleted>>
  BY DEF Invoke, hostVars
<1>2. TypeOK'
  BY <1>1 DEF TypeOK, TaSteps
<1>3. CommandInv'
  BY <1>1 DEF CommandInv, Allocated
<1>4. AchievedInv' /\ MainInv' /\ NoTornObject' /\ RunToggles'
  BY <1>1 DEF AchievedInv, MainInv, NoTornObject, RunToggles
<1> QED BY <1>2, <1>3, <1>4

(* The program goes on: what the next step relies on is what the command   *)
(* has achieved; or the run ends, well only after its last command.        *)
LEMMA ContinueIInv == ASSUME IInv, Continue PROVE IInv'
<1> USE DEF IInv
<1>1. /\ tpc = "return" /\ main' = NextStep
      /\ had2' = (IF main = "read2" THEN code = "success" ELSE had2)
      /\ UNCHANGED <<read_data, store, crashes, undeleted>>
  BY DEF Continue
<1>2. main \in MainSteps /\ main' \in MainSteps \cup {"off"}
  BY <1>1 DEF NextStep, CommandInv, TypeOK, MainSteps
<1>3. /\ CommandInv' /\ tpc' = "idle" /\ code' = "none"
      /\ tpc' \in TaSteps /\ code' \in Codes /\ heap' \in Nat /\ oom' \in Nat
      /\ opened' \in BOOLEAN
  <2>1. CASE main' = "off"
    BY <2>1, FreshCommand DEF Continue
  <2>2. CASE main' # "off"
    <3>1. tpc' = "idle" /\ code' = "none" /\ UNCHANGED <<heap, opened, oom>>
      BY <2>2 DEF Continue
    <3>2. ~opened /\ heap = oom
      BY <1>1 DEF CommandInv, Allocated, TypeOK
    <3>3. CommandInv'
      BY <3>1, <3>2 DEF CommandInv, Allocated, TypeOK
    <3> QED BY <3>1, <3>3 DEF TypeOK, TaSteps, Codes
  <2> QED BY <2>1, <2>2
<1>4. status' \in {"none", "ok", "failed"} /\ had2' \in BOOLEAN
  BY <1>1 DEF Continue, TypeOK
<1>5. TypeOK'
  BY <1>1, <1>2, <1>3, <1>4 DEF TypeOK
<1>6. AchievedInv'
  BY <1>3 DEF AchievedInv
<1>7. status' = "ok" => /\ main' = "off" /\ code = "success"
                        /\ main \in {"write2", "delete2"}
  BY <1>1, <1>2 DEF Continue, MainInv, MainSteps
<1>8. MainInv'
  <2>1. main' = "read1" => store[Object1] = Data1
    BY <1>1, <1>2 DEF NextStep, AchievedInv, MainSteps, Writes, Object, Data
  <2>2. main' \in {"read2", "write2", "delete2"} =>
          store[Object1] = NoObject \/ Object1 \in undeleted
    BY <1>1, <1>2 DEF NextStep, AchievedInv, MainInv, MainSteps, Deletes, Object
  <2>3. main' \in {"write2", "delete2"} => main = "read2"
    BY <1>1, <1>2 DEF NextStep, MainSteps
  <2>4. (main' = "write2" => code = "not_found") /\ (main' = "delete2" => code = "success")
    BY <1>1, <1>2 DEF NextStep, MainSteps
  <2>5. (main' = "write2" => ~had2') /\ (main' = "delete2" => had2')
    BY <1>1, <2>3, <2>4
  <2> QED BY <1>1, <1>7, <2>1, <2>2, <2>5 DEF MainInv
<1>9. NoTornObject'
  BY <1>1, <1>3 DEF NoTornObject
<1>10. RunToggles'
  <2> SUFFICES ASSUME status' = "ok"
               PROVE  /\ store[Object2] = NoObject <=> (had2 /\ Object2 \notin undeleted)
                      /\ store[Object1] = NoObject \/ Object1 \in undeleted
    BY <1>1, <1>7 DEF RunToggles
  <2>1. CASE main = "write2"
    BY <1>1, <1>7, <2>1 DEF AchievedInv, MainInv, Writes, Object, Data
  <2>2. CASE main = "delete2"
    BY <1>1, <1>7, <2>2 DEF AchievedInv, MainInv, Deletes, Object
  <2> QED BY <1>7, <2>1, <2>2
<1> QED BY <1>3, <1>5, <1>6, <1>8, <1>9, <1>10

(* After a power failure an object may be empty, and no run is under way.  *)
LEMMA PowerLossIInv == ASSUME IInv, PowerLoss PROVE IInv'
<1> USE DEF IInv
<1>1. /\ main' = "off" /\ status' = "failed" /\ FreshInstance
      /\ undeleted' = undeleted \cup {o \in Objects : store[o] = Empty}
      /\ UNCHANGED <<read_data, store, had2>>
  BY DEF PowerLoss
<1>2. crashes' \in 0 .. MaxCrashes
  BY DEF PowerLoss, TypeOK
<1>3. TypeOK'
  BY <1>1, <1>2, FreshCommand DEF TypeOK
<1>4. CommandInv' /\ AchievedInv' /\ MainInv'
  BY <1>1, FreshCommand DEF AchievedInv, MainInv
<1>5. NoTornObject' /\ RunToggles'
  BY <1>1 DEF NoTornObject, RunToggles
<1> QED BY <1>3, <1>4, <1>5

LEMMA StepIInv == IInv /\ [Next]_vars => IInv'
<1> SUFFICES ASSUME IInv, [Next]_vars PROVE IInv'
  OBVIOUS
<1>1. CASE Command
  BY <1>1, MallocIdIInv, MallocDataIInv, CreateIInv, WriteIInv, UndoIInv, OpenIInv, InfoIInv,
     ReadIInv, CloseReadIInv, DeleteIInv DEF Command
<1>2. CASE Run \/ Invoke \/ Continue \/ PowerLoss
  BY <1>2, RunIInv, InvokeIInv, ContinueIInv, PowerLossIInv
<1>3. CASE UNCHANGED vars
  BY <1>3 DEF vars, IInv, TypeOK, CommandInv, Allocated, Buffers, Writes, Reads, Deletes,
              AchievedInv, Object, Data, MainInv, NoTornObject, RunToggles
<1> QED BY <1>1, <1>2, <1>3 DEF Next

THEOREM Invariance == Spec => []IInv
  BY InitIInv, StepIInv, PTL DEF Spec

(* Every variable keeps its type: no command frees what it has not         *)
(* allocated, over any number of runs.                                     *)
THEOREM TypeCorrect == Spec => []TypeOK
<1>1. IInv => TypeOK
  BY DEF IInv
<1> QED BY <1>1, Invariance, PTL

(* Whatever earlier runs, failed calls and power failures have left, the   *)
(* program reads back from object 1 what it wrote.                         *)
THEOREM ReadBack == Spec => []ReadsBackWhatItWrote
<1>1. IInv => ReadsBackWhatItWrote
  BY DEF IInv, AchievedInv, ReadsBackWhatItWrote
<1> QED BY <1>1, Invariance, PTL

(* A command that has returned has closed its object and freed its         *)
(* buffers, on every path but the one that fails to allocate the second.   *)
THEOREM CleanUp == Spec => []CommandsCleanUp
<1>1. IInv => CommandsCleanUp
  <2> SUFFICES ASSUME IInv, tpc \in {"idle", "return"} PROVE ~opened /\ heap = oom
    BY DEF CommandsCleanUp
  <2>1. ~opened
    BY DEF IInv, CommandInv
  <2>2. heap = oom
    BY DEF IInv, TypeOK, CommandInv, Allocated
  <2> QED BY <2>1, <2>2
<1> QED BY <1>1, Invariance, PTL

(* No object is left empty but by a power failure or a refused deletion. *)
THEOREM NoneTorn == Spec => []NoTornObject
<1>1. IInv => NoTornObject
  BY DEF IInv
<1> QED BY <1>1, Invariance, PTL

(* Each run that ends well creates object 2 or deletes it, by turns. *)
THEOREM Toggles == Spec => []RunToggles
<1>1. IInv => RunToggles
  BY DEF IInv
<1> QED BY <1>1, Invariance, PTL
=============================================================================
