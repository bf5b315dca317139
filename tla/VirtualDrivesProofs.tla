------------------------ MODULE VirtualDrivesProofs ------------------------
(***************************************************************************)
(* What VirtualDrives promises, for any number of channels, drives, driver *)
(* types and heap objects.                                                 *)
(***************************************************************************)
EXTENDS VirtualDrives, TLAPS

\* The status byte computed from well-typed handles is well typed.
LEMMA DriveStatusType ==
    ASSUME NEW h \in [Drive -> Handle]
    PROVE  DriveStatus(h) \in [ins : SUBSET Drive, wr : SUBSET Drive]
BY DEF DriveStatus

\* Clearing the status of a handle keeps its type and its pointers.
LEMMA ClearedType ==
    ASSUME NEW x \in Handle
    PROVE  /\ Cleared(x) \in Handle
           /\ ~Cleared(x).ins
BY DEF Cleared, Handle

LEMMA ToggledType ==
    ASSUME NEW x \in Handle
    PROVE  /\ Toggled(x) \in Handle
           /\ Toggled(x).ins = x.ins /\ Toggled(x).ro = x.ro
           /\ Toggled(x).file = x.file /\ Toggled(x).desc = x.desc
BY DEF Toggled, Handle

LEMMA BlankType == Blank \in Handle /\ ~Blank.ins
BY DEF Blank, Handle

\* Releasing objects keeps the heap well typed.
LEMMA ReleasedType ==
    ASSUME TypeOK, NEW D
    PROVE  Released(D) \in [Obj -> Cell]
BY DEF Released, TypeOK, Cell

\* The initial drives are well typed, and every call keeps them so.
LEMMA TypeInit == Init => TypeOK
BY BlankType, DriverAssumption DEF Init, TypeOK, Cell

LEMMA TypeStep == TypeOK /\ [Next]_vars => TypeOK'
<1> SUFFICES ASSUME TypeOK, [Next]_vars PROVE TypeOK'
  OBVIOUS
<1>1. ASSUME NEW ch \in Channel, NEW d \in Drive, CallInsert(ch, d) PROVE TypeOK'
  <2>1. CASE InsertNoFile(ch, d)
    <3>1. [Blank EXCEPT !.ro = TRUE] \in Handle
      BY BlankType DEF Handle, Blank
    <3> QED BY <2>1, <3>1 DEF InsertNoFile, TypeOK
  <2>2. ASSUME NEW s \in BOOLEAN, NEW w \in BOOLEAN, InsertFile(ch, d, s, w) PROVE TypeOK'
    <3>1. PICK f \in IF s THEN {NULL} ELSE {o \in FileObj : mem[o] = "free"},
               r \in InsertInit(fch_driver[ch], s) :
            \E g \in IF r.desc THEN {o \in DescObj : mem[o] = "free"} ELSE {NULL} :
                InsertResult(ch, d, w, f, r, g)
      BY <2>2 DEF InsertFile
    <3>a. PICK g \in IF r.desc THEN {o \in DescObj : mem[o] = "free"} ELSE {NULL} :
                InsertResult(ch, d, w, f, r, g)
      BY <3>1
    <3>2. r.ok \in BOOLEAN /\ r.ro \in BOOLEAN
      BY DEF InsertInit
    <3>3. [ins |-> r.ok, ro |-> w \/ r.ro, prot |-> FALSE, file |-> f, desc |-> g] \in Handle
      BY <3>2 DEF Handle
    <3>4. handle' \in [Channel -> [Drive -> Handle]]
      BY <3>a, <3>3 DEF TypeOK, InsertResult
    <3>5. mem' \in [Obj -> Cell]
      BY <3>a DEF TypeOK, Cell, InsertResult
    <3>6. fpga' \in [Channel -> [ins : SUBSET Drive, wr : SUBSET Drive]]
      BY <3>a, <3>4, DriveStatusType DEF TypeOK, InsertResult
    <3> QED BY <3>a, <3>4, <3>5, <3>6 DEF TypeOK, InsertResult
  <2> QED BY <1>1, <2>1, <2>2 DEF CallInsert, FCh_Insert
<1>2. ASSUME NEW ch \in Channel, NEW d \in Drive, CallEject(ch, d) PROVE TypeOK'
  <2>1. handle' \in [Channel -> [Drive -> Handle]]
    BY <1>2, ClearedType DEF CallEject, FCh_Eject, TypeOK
  <2> QED BY <1>2, <2>1, DriveStatusType, ReleasedType DEF CallEject, FCh_Eject, TypeOK
<1>3. ASSUME NEW ch \in Channel, NEW d \in Drive, FCh_TogProtect(ch, d) PROVE TypeOK'
  <2>1. handle' \in [Channel -> [Drive -> Handle]]
    BY <1>3, ToggledType DEF FCh_TogProtect, TypeOK
  <2> QED BY <1>3, <2>1, DriveStatusType DEF FCh_TogProtect, TypeOK
<1>4. ASSUME NEW ch \in Channel, NEW d \in Drive, FCh_Process(ch, d) PROVE TypeOK'
  BY <1>4 DEF FCh_Process, TypeOK
<1>5. ASSUME EjectAllMem PROVE /\ mem' \in [Obj -> Cell]
                               /\ fpga' \in [Channel -> [ins : SUBSET Drive, wr : SUBSET Drive]]
                               /\ memOK' \in BOOLEAN
                               /\ fch_driver' \in [Channel -> DriverType]
  <2>1. ASSUME NEW c \in Channel
        PROVE [d \in Drive |-> IF GetInserted(c, d) THEN Cleared(handle[c][d])
                               ELSE handle[c][d]] \in [Drive -> Handle]
    BY ClearedType DEF TypeOK
  <2> QED BY <1>5, <2>1, DriveStatusType, ReleasedType DEF EjectAllMem, TypeOK
<1>6. CASE EjectAll
  BY <1>5, <1>6, ClearedType DEF EjectAll, TypeOK
<1>7. CASE EjectAllAndInit
  BY <1>5, <1>7, BlankType DEF EjectAllAndInit, TypeOK
<1>8. CASE CallInit
  BY <1>8, BlankType DEF CallInit, FCh_Init, TypeOK
<1>9. CASE CallSetDrivers
  BY <1>9, DriveStatusType DEF CallSetDrivers, SetDrivers, TypeOK
<1>10. CASE UNCHANGED vars
  BY <1>10 DEF vars, TypeOK
<1> QED BY <1>1, <1>2, <1>3, <1>4, <1>6, <1>7, <1>8, <1>9, <1>10 DEF Next

\* Every state of the drives is well typed (fileio.c: fch_handle, fch_driver
\* and the status bytes sent to the FPGA).
THEOREM TypeCorrect == Spec => []TypeOK
BY TypeInit, TypeStep, PTL DEF Spec

-----------------------------------------------------------------------------
(* Ownership.  DriveInv is inductive: well typed, nothing freed or used     *)
(* wrongly so far, and every inserted drive owns its two objects.           *)

\* A successful or failed insertion disturbs no other drive's objects, because
\* what it allocates was free.
LEMMA InsertKeepsInv ==
    ASSUME DriveInv,
           NEW ch \in Channel, NEW d \in Drive, NEW s \in BOOLEAN, NEW w \in BOOLEAN,
           InsertFile(ch, d, s, w)
    PROVE  (MemorySafe /\ InsertedOwns)'
<1>1. PICK f \in IF s THEN {NULL} ELSE {o \in FileObj : mem[o] = "free"},
           r \in InsertInit(fch_driver[ch], s) :
        \E g \in IF r.desc THEN {o \in DescObj : mem[o] = "free"} ELSE {NULL} :
            InsertResult(ch, d, w, f, r, g)
  BY DEF InsertFile
<1>2. PICK g \in IF r.desc THEN {o \in DescObj : mem[o] = "free"} ELSE {NULL} :
            InsertResult(ch, d, w, f, r, g)
  BY <1>1
<1>3. r.ok \in BOOLEAN /\ (r.ok => r.desc)
  BY DEF InsertInit
<1> DEFINE new == [ins |-> r.ok, ro |-> w \/ r.ro, prot |-> FALSE, file |-> f, desc |-> g]
<1>4. \A c \in Channel, x \in Drive :
         handle'[c][x] = IF c = ch /\ x = d THEN new ELSE handle[c][x]
  BY <1>2 DEF InsertResult, DriveInv, TypeOK
<1>5. /\ f = NULL \/ (f \in FileObj /\ mem[f] = "free")
      /\ r.ok => g \in DescObj /\ mem[g] = "free"
  BY <1>3
<1>6. \A c \in Channel, x \in Drive : GetInserted(c, x)' => Live(c, x)'
  <2> SUFFICES ASSUME NEW c \in Channel, NEW x \in Drive, GetInserted(c, x)'
               PROVE  Live(c, x)'
    OBVIOUS
  <2>1. CASE c = ch /\ x = d
    <3>1. r.ok /\ handle'[c][x].file = f /\ handle'[c][x].desc = g
      BY <1>4, <2>1 DEF GetInserted
    <3>2. f # NULL => mem'[f] = "file"
      BY <3>1, <1>2, <1>5 DEF InsertResult, Obj
    <3>3. g # NULL /\ mem'[g] = fch_driver'[c]
      BY <3>1, <1>2, <1>5, <2>1, HeapAssumption DEF InsertResult, Obj
    <3> QED BY <3>1, <3>2, <3>3 DEF Live, FileLive, DescLive
  <2>2. CASE ~(c = ch /\ x = d)
    <3>1. handle'[c][x] = handle[c][x] /\ GetInserted(c, x)
      BY <1>4, <2>2 DEF GetInserted
    <3>2. Live(c, x)
      BY <3>1 DEF DriveInv, InsertedOwns
    <3>3. /\ handle[c][x].file = NULL \/ handle[c][x].file \in FileObj
          /\ handle[c][x].desc \in DescObj
          /\ fch_driver[c] \in DriverType
      BY <3>2 DEF Live, DescLive, DriveInv, TypeOK, Handle
    <3>4. handle[c][x].file # NULL => mem'[handle[c][x].file] = "file"
      BY <3>2, <3>3, <1>2, <1>5, HeapAssumption, DriverAssumption
         DEF Live, FileLive, InsertResult, Obj
    <3>5. handle[c][x].desc # NULL /\ mem'[handle[c][x].desc] = fch_driver[c]
      BY <3>2, <3>3, <1>2, <1>5, HeapAssumption, DriverAssumption
         DEF Live, DescLive, InsertResult, Obj
    <3> QED BY <3>1, <3>4, <3>5, <1>2 DEF Live, InsertResult, FileLive, DescLive
  <2> QED BY <2>1, <2>2
<1>7. Unshared(AllDrives)'
  <2>1. ASSUME NEW c \in Channel, NEW x \in Drive, GetInserted(c, x), ~(c = ch /\ x = d), r.ok
        PROVE  /\ handle[c][x].desc # g
               /\ handle[c][x].file # f \/ f = NULL
    <3>1. Live(c, x)
      BY <2>1 DEF DriveInv, InsertedOwns
    <3>2. fch_driver[c] # "free"
      BY DriverAssumption DEF DriveInv, TypeOK
    <3> QED BY <3>1, <3>2, <1>5, <2>1 DEF Live, DescLive, FileLive
  <2> SUFFICES ASSUME NEW p \in AllDrives, NEW q \in AllDrives, p # q,
                      GetInserted(p[1], p[2])', GetInserted(q[1], q[2])'
               PROVE  /\ handle'[p[1]][p[2]].desc # handle'[q[1]][q[2]].desc
                      /\ \/ handle'[p[1]][p[2]].file # handle'[q[1]][q[2]].file
                         \/ handle'[p[1]][p[2]].file = NULL
    BY DEF Unshared
  <2>2. /\ p[1] \in Channel /\ p[2] \in Drive /\ q[1] \in Channel /\ q[2] \in Drive
        /\ ~(p[1] = q[1] /\ p[2] = q[2])
    BY DEF AllDrives
  <2>3. CASE p[1] = ch /\ p[2] = d
    BY <2>1, <2>2, <2>3, <1>4 DEF GetInserted
  <2>4. CASE q[1] = ch /\ q[2] = d
    BY <2>1, <2>2, <2>4, <1>4 DEF GetInserted
  <2>5. CASE ~(p[1] = ch /\ p[2] = d) /\ ~(q[1] = ch /\ q[2] = d)
    <3>1. /\ GetInserted(p[1], p[2]) /\ GetInserted(q[1], q[2])
          /\ handle'[p[1]][p[2]] = handle[p[1]][p[2]]
          /\ handle'[q[1]][q[2]] = handle[q[1]][q[2]]
      BY <2>2, <2>5, <1>4 DEF GetInserted
    <3> QED BY <3>1 DEF DriveInv, InsertedOwns, Unshared
  <2> QED BY <2>3, <2>4, <2>5
<1>8. MemorySafe'
  BY <1>2 DEF DriveInv, MemorySafe, InsertResult
<1> QED BY <1>6, <1>7, <1>8 DEF InsertedOwns

\* Taking drives out: the objects of the remaining inserted drives stay live.
\* D holds the drives that are released; none of them is inserted afterwards.
LEMMA ReleaseKeepsOwns ==
    ASSUME TypeOK, InsertedOwns, NEW D \in SUBSET AllDrives,
           mem' = Released(D), fch_driver' = fch_driver,
           \A c \in Channel, x \in Drive :
               GetInserted(c, x)' => /\ <<c, x>> \notin D
                                     /\ GetInserted(c, x)
                                     /\ handle'[c][x] = handle[c][x]
    PROVE  InsertedOwns'
<1>1. ASSUME NEW c \in Channel, NEW x \in Drive, GetInserted(c, x)' PROVE Live(c, x)'
  <2>1. /\ <<c, x>> \notin D /\ GetInserted(c, x) /\ Live(c, x)
        /\ handle'[c][x] = handle[c][x]
    BY <1>1 DEF InsertedOwns
  <2> DEFINE h == handle[c][x]
  <2>2. /\ h.file \in FileObj \cup {NULL} /\ h.desc \in DescObj
        /\ h.file # NULL => mem[h.file] = "file"
        /\ mem[h.desc] = fch_driver[c]
    BY <2>1 DEF Live, FileLive, DescLive, TypeOK, Handle
  <2>3. ASSUME NEW p \in D, GetInserted(p[1], p[2])
        PROVE  /\ handle[p[1]][p[2]].desc # h.desc
               /\ handle[p[1]][p[2]].file # h.file \/ h.file = NULL
               /\ handle[p[1]][p[2]].desc # h.file \/ h.file = NULL
               /\ handle[p[1]][p[2]].file # h.desc
    <3>1. p \in AllDrives /\ <<c, x>> \in AllDrives /\ p # <<c, x>>
      BY <2>1, <2>3 DEF AllDrives
    <3>2. /\ handle[p[1]][p[2]].file \in FileObj \cup {NULL}
          /\ handle[p[1]][p[2]].desc \in DescObj \cup {NULL}
      BY <3>1 DEF AllDrives, TypeOK, Handle
    <3>3. LET q == <<c, x>> IN
            /\ handle[p[1]][p[2]].desc # handle[q[1]][q[2]].desc
            /\ \/ handle[p[1]][p[2]].file # handle[q[1]][q[2]].file
               \/ handle[p[1]][p[2]].file = NULL
      <4>1. Unshared(AllDrives)
        BY DEF InsertedOwns
      <4> QED BY <2>1, <2>3, <3>1, <4>1 DEF Unshared
    <3>4. h.file \in FileObj \cup {NULL} /\ h.desc \in DescObj
      BY <2>2
    <3> DEFINE g == handle[p[1]][p[2]]
    <3>5. /\ g.file \in FileObj \cup {NULL} /\ g.desc \in DescObj \cup {NULL}
          /\ g.desc # h.desc /\ (g.file # h.file \/ g.file = NULL)
      BY <3>2, <3>3
    <3> HIDE DEF g, h
    <3>6. /\ g.desc # h.desc /\ (g.file # h.file \/ h.file = NULL)
          /\ (g.desc # h.file \/ h.file = NULL) /\ g.file # h.desc
      BY <3>4, <3>5, HeapAssumption DEF Obj
    <3> QED BY <3>6 DEF g, h
  <2>4. h.file # NULL => mem'[h.file] = "file"
    BY <2>2, <2>3 DEF Released, Obj
  <2>5. h.desc # NULL /\ mem'[h.desc] = fch_driver[c]
    BY <2>2, <2>3, HeapAssumption DEF Released, Obj
  <2> QED BY <2>1, <2>4, <2>5 DEF Live, FileLive, DescLive
<1>2. Unshared(AllDrives)'
  <2> SUFFICES ASSUME NEW p \in AllDrives, NEW q \in AllDrives, p # q,
                      GetInserted(p[1], p[2])', GetInserted(q[1], q[2])'
               PROVE  /\ handle'[p[1]][p[2]].desc # handle'[q[1]][q[2]].desc
                      /\ \/ handle'[p[1]][p[2]].file # handle'[q[1]][q[2]].file
                         \/ handle'[p[1]][p[2]].file = NULL
    BY DEF Unshared
  <2>1. p[1] \in Channel /\ p[2] \in Drive /\ q[1] \in Channel /\ q[2] \in Drive
    BY DEF AllDrives
  <2>2. /\ GetInserted(p[1], p[2]) /\ handle'[p[1]][p[2]] = handle[p[1]][p[2]]
        /\ GetInserted(q[1], q[2]) /\ handle'[q[1]][q[2]] = handle[q[1]][q[2]]
    BY <2>1
  <2> QED BY <2>2 DEF InsertedOwns, Unshared
<1> QED BY <1>1, <1>2 DEF InsertedOwns

\* A step that touches no drive and no memory keeps what every drive owns.
LEMMA SameKeepsOwns ==
    ASSUME InsertedOwns, handle' = handle, mem' = mem, fch_driver' = fch_driver
    PROVE  InsertedOwns'
<1>1. \A c \in Channel, x \in Drive : GetInserted(c, x)' => Live(c, x)'
  <2> SUFFICES ASSUME NEW c \in Channel, NEW x \in Drive, GetInserted(c, x)'
               PROVE  Live(c, x)'
    OBVIOUS
  <2>1. GetInserted(c, x)
    BY DEF GetInserted
  <2>2. Live(c, x)
    BY <2>1 DEF InsertedOwns
  <2> QED BY <2>2 DEF Live, FileLive, DescLive
<1>2. Unshared(AllDrives)'
  <2>1. Unshared(AllDrives)
    BY DEF InsertedOwns
  <2>2. \A c, x : GetInserted(c, x)' <=> GetInserted(c, x)
    BY DEF GetInserted
  <2> QED BY <2>1, <2>2 DEF Unshared
<1> QED BY <1>1, <1>2 DEF InsertedOwns

\* No file or descriptor is freed twice, freed or used by a drive that does not
\* own it, and every inserted drive owns live objects of its own: the pointers
\* that FileIO_FCh_Eject and a failed FileIO_FCh_Insert leave dangling are
\* never followed, whatever the allocator reuses and however often an ini file
\* inserts over an inserted drive.
THEOREM Ownership == Spec => []DriveInv
<1>1. Init => DriveInv
  <2> SUFFICES ASSUME Init PROVE DriveInv
    OBVIOUS
  <2>1. TypeOK
    BY BlankType, DriverAssumption DEF Init, TypeOK, Cell
  <2>2. \A c \in Channel, x \in Drive : ~GetInserted(c, x)
    BY BlankType DEF Init, GetInserted
  <2> QED BY <2>1, <2>2 DEF DriveInv, InsertedOwns, Unshared, AllDrives, MemorySafe, Init
<1>2. TypeOK /\ TypeOK' /\ DriveInv /\ [Next]_vars => DriveInv'
  <2> SUFFICES ASSUME TypeOK, TypeOK', DriveInv, [Next]_vars
               PROVE  (MemorySafe /\ InsertedOwns)'
    BY DEF DriveInv
  <2>1. ASSUME NEW ch \in Channel, NEW d \in Drive, CallInsert(ch, d)
        PROVE  (MemorySafe /\ InsertedOwns)'
    <3>1. CASE InsertNoFile(ch, d)
      <4>1. \A c \in Channel, x \in Drive :
              handle'[c][x] = IF c = ch /\ x = d THEN [Blank EXCEPT !.ro = TRUE]
                              ELSE handle[c][x]
        BY <3>1 DEF InsertNoFile, TypeOK
      <4>2. ~[Blank EXCEPT !.ro = TRUE].ins
        BY DEF Blank
      <4>3. mem' = Released({})
        BY <3>1 DEF InsertNoFile, Released, TypeOK
      <4>4. \A c \in Channel, x \in Drive :
               GetInserted(c, x)' => /\ <<c, x>> \notin {}
                                     /\ GetInserted(c, x) /\ handle'[c][x] = handle[c][x]
        BY <4>1, <4>2 DEF GetInserted
      <4>5. InsertedOwns'
        <5>1. {} \in SUBSET AllDrives /\ fch_driver' = fch_driver /\ InsertedOwns
          BY <3>1 DEF InsertNoFile, DriveInv
        <5> QED BY <5>1, <4>3, <4>4, ReleaseKeepsOwns
      <4> QED BY <3>1, <4>5 DEF InsertNoFile, DriveInv, MemorySafe
    <3>2. ASSUME NEW s \in BOOLEAN, NEW w \in BOOLEAN, InsertFile(ch, d, s, w)
          PROVE  (MemorySafe /\ InsertedOwns)'
      BY <3>2, InsertKeepsInv
    <3> QED BY <2>1, <3>1, <3>2 DEF CallInsert, FCh_Insert
  <2>2. ASSUME NEW ch \in Channel, NEW d \in Drive, CallEject(ch, d)
        PROVE  (MemorySafe /\ InsertedOwns)'
    <3>0. /\ GetInserted(ch, d) => memOK' = (memOK /\ Live(ch, d))
          /\ ~GetInserted(ch, d) => memOK' = memOK
      BY <2>2 DEF CallEject, FCh_Eject
    <3>1. MemorySafe'
      BY <3>0 DEF DriveInv, MemorySafe, InsertedOwns
    <3>2. \A c \in Channel, x \in Drive :
            handle'[c][x] = IF c = ch /\ x = d THEN Cleared(handle[ch][d]) ELSE handle[c][x]
      BY <2>2 DEF CallEject, FCh_Eject, TypeOK
    <3>3. ~Cleared(handle[ch][d]).ins
      BY ClearedType DEF TypeOK
    <3>4. \A c \in Channel, x \in Drive :
             GetInserted(c, x)' => /\ <<c, x>> \notin {<<ch, d>>}
                                   /\ GetInserted(c, x) /\ handle'[c][x] = handle[c][x]
      BY <3>2, <3>3 DEF GetInserted
    <3>5. InsertedOwns'
      BY <2>2, <3>4, ReleaseKeepsOwns DEF CallEject, FCh_Eject, DriveInv, AllDrives
    <3> QED BY <3>1, <3>5
  <2>3. ASSUME NEW ch \in Channel, NEW d \in Drive, FCh_TogProtect(ch, d)
        PROVE  (MemorySafe /\ InsertedOwns)'
    <3>1. \A c \in Channel, x \in Drive :
            handle'[c][x] = IF c = ch /\ x = d THEN Toggled(handle[c][x]) ELSE handle[c][x]
      BY <2>3 DEF FCh_TogProtect, TypeOK
    <3>2. \A c \in Channel, x \in Drive :
            /\ handle'[c][x].ins = handle[c][x].ins
            /\ handle'[c][x].file = handle[c][x].file
            /\ handle'[c][x].desc = handle[c][x].desc
      <4> SUFFICES ASSUME NEW c \in Channel, NEW x \in Drive
                   PROVE  /\ handle'[c][x].ins = handle[c][x].ins
                          /\ handle'[c][x].file = handle[c][x].file
                          /\ handle'[c][x].desc = handle[c][x].desc
        OBVIOUS
      <4> DEFINE h == handle[c][x]
      <4>1. h \in Handle
        BY DEF TypeOK
      <4>2. handle'[c][x] = h \/ handle'[c][x] = Toggled(h)
        BY <3>1
      <4> HIDE DEF h
      <4>3. Toggled(h).ins = h.ins /\ Toggled(h).file = h.file /\ Toggled(h).desc = h.desc
        BY <4>1, ToggledType
      <4>4. /\ handle'[c][x].ins = h.ins /\ handle'[c][x].file = h.file
            /\ handle'[c][x].desc = h.desc
        BY <4>2, <4>3
      <4> QED BY <4>4 DEF h
    <3>3. mem' = mem /\ fch_driver' = fch_driver /\ memOK' = memOK
      BY <2>3 DEF FCh_TogProtect
    <3>4. \A c \in Channel, x \in Drive : GetInserted(c, x)' => Live(c, x)'
      <4> SUFFICES ASSUME NEW c \in Channel, NEW x \in Drive, GetInserted(c, x)'
                   PROVE  Live(c, x)'
        OBVIOUS
      <4>1. /\ handle'[c][x].ins = handle[c][x].ins
            /\ handle'[c][x].file = handle[c][x].file
            /\ handle'[c][x].desc = handle[c][x].desc
        BY <3>2
      <4>2. GetInserted(c, x)
        BY <4>1 DEF GetInserted
      <4>3. Live(c, x)
        BY <4>2 DEF DriveInv, InsertedOwns
      <4> QED BY <3>3, <4>1, <4>3 DEF Live, FileLive, DescLive
    <3>5. Unshared(AllDrives)'
      <4>1. \A p \in AllDrives : p[1] \in Channel /\ p[2] \in Drive
        BY DEF AllDrives
      <4>2. \A p \in AllDrives :
              /\ GetInserted(p[1], p[2])' <=> GetInserted(p[1], p[2])
              /\ handle'[p[1]][p[2]].file = handle[p[1]][p[2]].file
              /\ handle'[p[1]][p[2]].desc = handle[p[1]][p[2]].desc
        BY <3>2, <4>1 DEF GetInserted
      <4> QED BY <4>2 DEF DriveInv, InsertedOwns, Unshared
    <3> QED BY <3>3, <3>4, <3>5 DEF DriveInv, InsertedOwns, MemorySafe
  <2>4. ASSUME NEW ch \in Channel, NEW d \in Drive, FCh_Process(ch, d)
        PROVE  (MemorySafe /\ InsertedOwns)'
    <3>1. GetInserted(ch, d) /\ memOK' = (memOK /\ Live(ch, d))
      BY <2>4 DEF FCh_Process
    <3>2. memOK /\ InsertedOwns
      BY DEF DriveInv, MemorySafe
    <3>3. Live(ch, d)
      BY <3>1, <3>2 DEF InsertedOwns
    <3>4. MemorySafe'
      BY <3>1, <3>2, <3>3 DEF MemorySafe
    <3>5. handle' = handle /\ mem' = mem /\ fch_driver' = fch_driver
      BY <2>4 DEF FCh_Process
    <3>6. InsertedOwns'
      BY <3>2, <3>5, SameKeepsOwns
    <3> QED BY <3>4, <3>6
  <2>5. ASSUME EjectAllMem, \A c \in Channel, x \in Drive : ~GetInserted(c, x)'
        PROVE  (MemorySafe /\ InsertedOwns)'
    <3>1. MemorySafe'
      BY <2>5 DEF EjectAllMem, DriveInv, MemorySafe, InsertedOwns, AllDrives
    <3>2. InsertedOwns'
      BY <2>5, ReleaseKeepsOwns DEF EjectAllMem, DriveInv
    <3> QED BY <3>1, <3>2
  <2>6. CASE EjectAll
    <3>1. \A c \in Channel, x \in Drive : ~GetInserted(c, x)'
      BY <2>6, ClearedType DEF EjectAll, GetInserted, TypeOK
    <3> QED BY <2>5, <2>6, <3>1 DEF EjectAll
  <2>7. CASE EjectAllAndInit
    <3>1. \A c \in Channel, x \in Drive : ~GetInserted(c, x)'
      BY <2>7, BlankType DEF EjectAllAndInit, GetInserted
    <3> QED BY <2>5, <2>7, <3>1 DEF EjectAllAndInit
  <2>8. ASSUME memOK' = memOK, \A c \in Channel, x \in Drive : ~GetInserted(c, x)'
        PROVE  (MemorySafe /\ InsertedOwns)'
    BY <2>8 DEF DriveInv, MemorySafe, InsertedOwns, Unshared, AllDrives
  <2>9. CASE CallInit
    BY <2>8, <2>9, BlankType DEF CallInit, FCh_Init, GetInserted
  <2>10. CASE CallSetDrivers
    BY <2>8, <2>10 DEF CallSetDrivers, SetDrivers, NoneInserted, GetInserted
  <2>11. CASE UNCHANGED vars
    <3>1. handle' = handle /\ mem' = mem /\ fch_driver' = fch_driver /\ memOK' = memOK
      BY <2>11 DEF vars
    <3>2. InsertedOwns'
      BY <3>1, SameKeepsOwns DEF DriveInv
    <3> QED BY <3>1, <3>2 DEF DriveInv, MemorySafe
  <2> QED BY <2>1, <2>2, <2>3, <2>4, <2>6, <2>7, <2>9, <2>10, <2>11 DEF Next
<1> QED BY <1>1, <1>2, TypeCorrect, PTL DEF Spec

-----------------------------------------------------------------------------
(* What needs that no drive is inserted over an inserted one: no leak, and  *)
(* the FPGA's copy of the drives.                                           *)

\* Insertion into an empty drive changes that drive only, and an object that
\* is allocated afterwards was so before or is one of the drive's own.
LEMMA InsertChanges ==
    ASSUME TypeOK, ReInsert = FALSE,
           NEW ch \in Channel, NEW d \in Drive, CallInsert(ch, d)
    PROVE  /\ ~GetInserted(ch, d)
           /\ \A c \in Channel, x \in Drive :
                 ~(c = ch /\ x = d) => handle'[c][x] = handle[c][x]
           /\ \/ mem' = mem /\ fpga' = fpga /\ ~GetInserted(ch, d)'
              \/ /\ GetInserted(ch, d)'
                 /\ fpga' = [fpga EXCEPT ![ch] = DriveStatus(handle'[ch])]
                 /\ \A o \in Obj : mem'[o] # mem[o] =>
                       o \in {handle'[ch][d].file, handle'[ch][d].desc}
<1>1. ~GetInserted(ch, d) /\ FCh_Insert(ch, d)
  BY DEF CallInsert
<1>2. CASE InsertNoFile(ch, d)
  <2>1. handle' = [handle EXCEPT ![ch][d] = [Blank EXCEPT !.ro = TRUE]]
    BY <1>2 DEF InsertNoFile
  <2>2. ~[Blank EXCEPT !.ro = TRUE].ins
    BY DEF Blank
  <2> QED BY <1>1, <1>2, <2>1, <2>2 DEF InsertNoFile, GetInserted, TypeOK
<1>3. ASSUME NEW s \in BOOLEAN, NEW w \in BOOLEAN, InsertFile(ch, d, s, w)
      PROVE  /\ \A c \in Channel, x \in Drive :
                   ~(c = ch /\ x = d) => handle'[c][x] = handle[c][x]
             /\ \/ mem' = mem /\ fpga' = fpga /\ ~GetInserted(ch, d)'
                \/ /\ GetInserted(ch, d)'
                   /\ fpga' = [fpga EXCEPT ![ch] = DriveStatus(handle'[ch])]
                   /\ \A o \in Obj : mem'[o] # mem[o] =>
                         o \in {handle'[ch][d].file, handle'[ch][d].desc}
  <2>1. PICK f \in IF s THEN {NULL} ELSE {o \in FileObj : mem[o] = "free"},
             r \in InsertInit(fch_driver[ch], s) :
          \E g \in IF r.desc THEN {o \in DescObj : mem[o] = "free"} ELSE {NULL} :
              InsertResult(ch, d, w, f, r, g)
    BY <1>3 DEF InsertFile
  <2>2. PICK g \in IF r.desc THEN {o \in DescObj : mem[o] = "free"} ELSE {NULL} :
              InsertResult(ch, d, w, f, r, g)
    BY <2>1
  <2> DEFINE new == [ins |-> r.ok, ro |-> w \/ r.ro, prot |-> FALSE, file |-> f, desc |-> g]
  <2>3. handle' = [handle EXCEPT ![ch][d] = new]
    BY <2>2 DEF InsertResult
  <2>4. /\ handle'[ch][d] = new
        /\ \A c \in Channel, x \in Drive :
              ~(c = ch /\ x = d) => handle'[c][x] = handle[c][x]
    BY <2>3 DEF TypeOK
  <2>5. handle'[ch][d].ins = r.ok /\ handle'[ch][d].file = f /\ handle'[ch][d].desc = g
    BY <2>4
  <2>6. CASE r.ok
    <3>1. GetInserted(ch, d)' /\ fpga' = [fpga EXCEPT ![ch] = DriveStatus(handle'[ch])]
      BY <2>2, <2>5, <2>6 DEF InsertResult, GetInserted
    <3>2. \A o \in Obj : mem'[o] # mem[o] => o = f \/ o = g
      BY <2>2, <2>6 DEF InsertResult
    <3> QED BY <3>1, <3>2, <2>4, <2>5
  <2>7. CASE ~r.ok
    <3>1. mem' = mem /\ fpga' = fpga
      BY <2>2, <2>7 DEF InsertResult
    <3>2. ~GetInserted(ch, d)'
      BY <2>5, <2>7 DEF GetInserted
    <3> QED BY <3>1, <3>2, <2>4
  <2> QED BY <2>6, <2>7
<1> QED BY <1>1, <1>2, <1>3 DEF FCh_Insert

\* Objects of drives that stay as they are stay owned.  D: the drives released.
LEMMA ReleaseKeepsNoLeak ==
    ASSUME NoLeak, NEW D \in SUBSET AllDrives,
           mem' = Released(D),
           \A c \in Channel, x \in Drive :
               GetInserted(c, x) /\ <<c, x>> \notin D =>
                   /\ GetInserted(c, x)' /\ handle'[c][x].file = handle[c][x].file
                   /\ handle'[c][x].desc = handle[c][x].desc
    PROVE  NoLeak'
<1> SUFFICES ASSUME NEW o \in Obj, mem'[o] # "free"
             PROVE  \E c \in Channel, x \in Drive :
                        GetInserted(c, x)' /\ o \in {handle'[c][x].file, handle'[c][x].desc}
  BY DEF NoLeak
<1>1. /\ mem[o] # "free"
      /\ ~\E p \in D : /\ GetInserted(p[1], p[2])
                       /\ o \in {handle[p[1]][p[2]].file, handle[p[1]][p[2]].desc}
  BY DEF Released
<1>2. PICK c \in Channel, x \in Drive :
          GetInserted(c, x) /\ o \in {handle[c][x].file, handle[c][x].desc}
  BY <1>1 DEF NoLeak
<1>3. <<c, x>> \notin D
  <2> SUFFICES ASSUME <<c, x>> \in D PROVE FALSE
    OBVIOUS
  <2>1. /\ GetInserted(<<c, x>>[1], <<c, x>>[2])
        /\ o \in {handle[<<c, x>>[1]][<<c, x>>[2]].file, handle[<<c, x>>[1]][<<c, x>>[2]].desc}
    BY <1>2
  <2> QED BY <1>1, <2>1
<1> QED BY <1>2, <1>3

\* Whatever is allocated belongs to an inserted drive, in any number of drives
\* and in any order of calls, as long as none is inserted over another
\* (FileIO_FCh_Insert does not look): what main.c asserts after its ejection loop.
THEOREM NothingLeaks ==
    ASSUME ReInsert = FALSE
    PROVE  Spec => []NoLeak
<1>1. Init => NoLeak
  BY DEF Init, NoLeak
<1>2. TypeOK /\ NoLeak /\ [Next]_vars => NoLeak'
  <2> SUFFICES ASSUME TypeOK, NoLeak, [Next]_vars PROVE NoLeak'
    OBVIOUS
  <2>1. ASSUME NEW ch \in Channel, NEW d \in Drive, CallInsert(ch, d) PROVE NoLeak'
    <3> SUFFICES ASSUME NEW o \in Obj, mem'[o] # "free"
                 PROVE  \E c \in Channel, x \in Drive :
                            GetInserted(c, x)' /\ o \in {handle'[c][x].file, handle'[c][x].desc}
      BY DEF NoLeak
    <3>1. CASE mem'[o] # mem[o]
      <4>1. \/ mem' = mem
            \/ /\ GetInserted(ch, d)'
               /\ \A b \in Obj : mem'[b] # mem[b] =>
                     b \in {handle'[ch][d].file, handle'[ch][d].desc}
        BY <2>1, InsertChanges
      <4>2. GetInserted(ch, d)' /\ o \in {handle'[ch][d].file, handle'[ch][d].desc}
        BY <3>1, <4>1
      <4> QED BY <4>2
    <3>2. CASE mem'[o] = mem[o]
      <4>1. PICK c \in Channel, x \in Drive :
                GetInserted(c, x) /\ o \in {handle[c][x].file, handle[c][x].desc}
        BY <3>2 DEF NoLeak
      <4>2. ~GetInserted(ch, d)
            /\ \A k \in Channel, y \in Drive :
                  ~(k = ch /\ y = d) => handle'[k][y] = handle[k][y]
        BY <2>1, InsertChanges
      <4>3. ~(c = ch /\ x = d)
        BY <4>1, <4>2
      <4>4. handle'[c][x] = handle[c][x]
        BY <4>2, <4>3
      <4> QED BY <4>1, <4>4 DEF GetInserted
    <3> QED BY <3>1, <3>2
  <2>2. ASSUME NEW ch \in Channel, NEW d \in Drive, CallEject(ch, d) PROVE NoLeak'
    <3>1. \A c \in Channel, x \in Drive :
             GetInserted(c, x) /\ <<c, x>> \notin {<<ch, d>>} =>
                 /\ GetInserted(c, x)' /\ handle'[c][x].file = handle[c][x].file
                 /\ handle'[c][x].desc = handle[c][x].desc
      BY <2>2 DEF CallEject, FCh_Eject, TypeOK, GetInserted
    <3>2. {<<ch, d>>} \in SUBSET AllDrives /\ mem' = Released({<<ch, d>>})
      BY <2>2 DEF CallEject, FCh_Eject, AllDrives
    <3> QED BY <3>1, <3>2, ReleaseKeepsNoLeak
  <2>3. ASSUME NEW ch \in Channel, NEW d \in Drive, FCh_TogProtect(ch, d) PROVE NoLeak'
    <3>1. \A c \in Channel, x \in Drive :
            handle'[c][x] = IF c = ch /\ x = d THEN Toggled(handle[c][x]) ELSE handle[c][x]
      BY <2>3 DEF FCh_TogProtect, TypeOK
    <3>2. \A c \in Channel, x \in Drive :
            /\ handle'[c][x].ins = handle[c][x].ins
            /\ handle'[c][x].file = handle[c][x].file
            /\ handle'[c][x].desc = handle[c][x].desc
      BY <3>1, ToggledType DEF TypeOK
    <3> QED BY <2>3, <3>2 DEF FCh_TogProtect, NoLeak, GetInserted
  <2>4. ASSUME NEW ch \in Channel, NEW d \in Drive, FCh_Process(ch, d) PROVE NoLeak'
    BY <2>4 DEF FCh_Process, NoLeak, GetInserted
  <2>5. ASSUME EjectAllMem PROVE NoLeak'
    <3>1. \A c \in Channel, x \in Drive :
             GetInserted(c, x) /\ <<c, x>> \notin AllDrives =>
                 /\ GetInserted(c, x)' /\ handle'[c][x].file = handle[c][x].file
                 /\ handle'[c][x].desc = handle[c][x].desc
      BY DEF AllDrives
    <3> QED BY <2>5, <3>1, ReleaseKeepsNoLeak DEF EjectAllMem
  <2>6. ASSUME NoneInserted, mem' = mem PROVE NoLeak'
    BY <2>6 DEF NoneInserted, NoLeak
  <2>7. CASE CallInit
    BY <2>6, <2>7 DEF CallInit, FCh_Init
  <2>8. CASE CallSetDrivers
    BY <2>6, <2>8 DEF CallSetDrivers, SetDrivers
  <2>9. CASE UNCHANGED vars
    BY <2>9 DEF vars, NoLeak, GetInserted
  <2> QED BY <2>1, <2>2, <2>3, <2>4, <2>5, <2>7, <2>8, <2>9
          DEF Next, EjectAll, EjectAllAndInit
<1> QED BY <1>1, <1>2, TypeCorrect, PTL DEF Spec

\* After every step the byte that the FPGA was last sent names the inserted
\* drives and, of those, the writable ones (FileIO_FCh_UpdateDriveStatus and
\* the early returns around it), as long as no drive is inserted over another.
THEOREM FpgaIsTold ==
    ASSUME ReInsert = FALSE
    PROVE  Spec => []FpgaAgrees
<1> DEFINE Told(h, b) ==
             /\ b.ins = {x \in Drive : h[x].ins}
             /\ \A x \in Drive : h[x].ins => (x \in b.wr <=> ~(h[x].ro \/ h[x].prot))
<1>1. ASSUME NEW h PROVE Told(h, DriveStatus(h))
  BY DEF DriveStatus
<1>2. FpgaAgrees <=> \A c \in Channel : Told(handle[c], fpga[c])
  BY DEF FpgaAgrees, GetInserted
<1>3. FpgaAgrees' <=> \A c \in Channel : Told(handle'[c], fpga'[c])
  BY DEF FpgaAgrees, GetInserted
<1> HIDE DEF Told
<1>4. Init => FpgaAgrees
  <2>1. ~Blank.ins
    BY BlankType
  <2> QED BY <2>1 DEF Init, FpgaAgrees, GetInserted
<1>5. TypeOK /\ FpgaAgrees /\ [Next]_vars => FpgaAgrees'
  <2> SUFFICES ASSUME TypeOK, FpgaAgrees, [Next]_vars PROVE FpgaAgrees'
    OBVIOUS
  <2>1. ASSUME NEW ch \in Channel, NEW d \in Drive,
               fpga' = [fpga EXCEPT ![ch] = DriveStatus(handle'[ch])],
               \A c \in Channel : c # ch => handle'[c] = handle[c]
        PROVE  FpgaAgrees'
    <3>1. fpga'[ch] = DriveStatus(handle'[ch]) /\ \A c \in Channel : c # ch => fpga'[c] = fpga[c]
      BY <2>1 DEF TypeOK
    <3> QED BY <3>1, <2>1, <1>1, <1>2, <1>3
  <2>2. ASSUME NEW ch \in Channel, NEW d \in Drive, CallInsert(ch, d) PROVE FpgaAgrees'
    <3>1. CASE GetInserted(ch, d)'
      <4>1. fpga' = [fpga EXCEPT ![ch] = DriveStatus(handle'[ch])]
        BY <2>2, <3>1, InsertChanges
      <4>2. \A c \in Channel : fpga'[c] = IF c = ch THEN DriveStatus(handle'[c]) ELSE fpga[c]
        BY <4>1 DEF TypeOK
      <4>a. \A c \in Channel, x \in Drive :
               ~(c = ch /\ x = d) => handle'[c][x] = handle[c][x]
        BY <2>2, InsertChanges
      <4>3. \A c \in Channel, x \in Drive : c # ch => handle'[c][x] = handle[c][x]
        BY <4>a
      <4>4. ASSUME NEW c \in Channel PROVE Told(handle'[c], fpga'[c])
        <5>1. CASE c = ch
          BY <5>1, <4>2, <1>1
        <5>2. CASE c # ch
          BY <5>2, <4>2, <4>3, <1>2 DEF Told
        <5> QED BY <5>1, <5>2
      <4> QED BY <4>4, <1>3
    <3>2. CASE ~GetInserted(ch, d)'
      <4>1. /\ fpga' = fpga /\ ~GetInserted(ch, d)
            /\ \A c \in Channel, x \in Drive :
                  ~(c = ch /\ x = d) => handle'[c][x] = handle[c][x]
        BY <2>2, <3>2, InsertChanges
      <4> QED BY <4>1, <3>2 DEF FpgaAgrees, GetInserted
    <3> QED BY <3>1, <3>2
  <2>3. ASSUME NEW ch \in Channel, NEW d \in Drive, CallEject(ch, d) PROVE FpgaAgrees'
    BY <2>1, <2>3 DEF CallEject, FCh_Eject, TypeOK
  <2>4. ASSUME NEW ch \in Channel, NEW d \in Drive, FCh_TogProtect(ch, d) PROVE FpgaAgrees'
    BY <2>1, <2>4 DEF FCh_TogProtect, TypeOK
  <2>5. ASSUME NEW ch \in Channel, NEW d \in Drive, FCh_Process(ch, d) PROVE FpgaAgrees'
    BY <2>5 DEF FCh_Process, FpgaAgrees, GetInserted
  <2>6. ASSUME EjectAllMem, \A c \in Channel, x \in Drive : ~GetInserted(c, x)'
        PROVE  FpgaAgrees'
    <3> SUFFICES ASSUME NEW c \in Channel PROVE fpga'[c].ins = {}
      BY <2>6 DEF FpgaAgrees
    <3>1. CASE \E x \in Drive : GetInserted(c, x)
      <4> DEFINE h == [x \in Drive |-> IF GetInserted(c, x) THEN Cleared(handle[c][x])
                                       ELSE handle[c][x]]
      <4>1. fpga'[c] = DriveStatus(h)
        BY <2>6, <3>1 DEF EjectAllMem
      <4>2. \A x \in Drive : ~h[x].ins
        BY ClearedType DEF TypeOK, GetInserted
      <4> HIDE DEF h
      <4> QED BY <4>1, <4>2 DEF DriveStatus
    <3>2. CASE ~\E x \in Drive : GetInserted(c, x)
      <4>1. fpga'[c] = fpga[c]
        BY <2>6, <3>2 DEF EjectAllMem
      <4> QED BY <4>1, <3>2 DEF FpgaAgrees
    <3> QED BY <3>1, <3>2
  <2>7. CASE EjectAll
    <3>1. \A c \in Channel, x \in Drive : ~GetInserted(c, x)'
      BY <2>7, ClearedType DEF EjectAll, GetInserted, TypeOK
    <3> QED BY <2>6, <2>7, <3>1 DEF EjectAll
  <2>8. CASE EjectAllAndInit
    <3>1. \A c \in Channel, x \in Drive : ~GetInserted(c, x)'
      BY <2>8, BlankType DEF EjectAllAndInit, GetInserted
    <3> QED BY <2>6, <2>8, <3>1 DEF EjectAllAndInit
  <2>9. CASE CallInit
    <3>1. \A c \in Channel, x \in Drive : ~GetInserted(c, x)'
      BY <2>9, BlankType DEF CallInit, FCh_Init, GetInserted
    <3> QED BY <2>9, <3>1 DEF CallInit, FCh_Init, NoneInserted, FpgaAgrees
  <2>10. CASE CallSetDrivers
    <3>1. \A c \in Channel : fpga'[c] = DriveStatus(handle'[c])
      BY <2>10 DEF CallSetDrivers, SetDrivers
    <3> QED BY <3>1, <1>1, <1>3
  <2>11. CASE UNCHANGED vars
    BY <2>11 DEF vars, FpgaAgrees, GetInserted
  <2> QED BY <2>2, <2>3, <2>4, <2>5, <2>7, <2>8, <2>9, <2>10, <2>11 DEF Next
<1> QED BY <1>4, <1>5, TypeCorrect, PTL DEF Spec
=============================================================================
