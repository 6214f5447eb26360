---------------------------- MODULE StartupProofs ----------------------------
(***************************************************************************)
(* Proofs about Startup: from wherever the process is stopped, the key and *)
(* data files stay usable and no client is locked out by a rotation, for   *)
(* any clients, environments and number of keys.                           *)
(***************************************************************************)
EXTENDS Startup, TLAPS

USE DEF Queue, Prekeys, CA, Parts, Stores, Absent, Torn, Content, Down,
        Serving

-----------------------------------------------------------------------------
(* The inductive invariant. *)

(* A file that is being written is Torn until os.WriteFile returns. *)
WriteInProgress == writing => stage \in Parts /\ key[stage] = Torn

(* New builds the parts in order, each with the key of its file. *)
BuiltInOrder == \A p \in Stores : stage > p => key[p] > 0 /\ mem[p] = key[p]

(* A key file holds the last key minted for it. *)
Newest == \A p \in Parts : key[p] > 0 => key[p] = minted[p]

(* A process that runs was accepted by config.Load. *)
Accepted == stage # Down => env \in Envs /\ Load(env)

(* The CA keys a client can have seen: each was in the key file, and leaves *)
(* it only for .prev.                                                       *)
Traceable == {key[CA], prevKey} \cup overwritten

PinsTraceable ==
  /\ \A c \in Clients : pin[c] \in {Absent} \cup Traceable
  /\ stage = Serving => ca.pub > 0 /\ ca.pub \in Traceable

StartupInv ==
  /\ StartupTypeOK
  /\ WriteInProgress
  /\ BuiltInOrder
  /\ Newest
  /\ Accepted
  /\ DataReadable
  /\ StartsAgain
  /\ PinsTraceable
  /\ ClientsFollow

-----------------------------------------------------------------------------
(* The types of all variables but the two flags. *)
TypeButFlags ==
  /\ key \in [Parts -> Content]
  /\ prevKey \in Content
  /\ data \in [Stores -> Nat]
  /\ stage \in Down..Serving
  /\ mem \in [Parts -> Nat]
  /\ ca \in [pub : Nat, prev : Nat]
  /\ env \in Envs \cup {NoEnv}
  /\ minted \in [Parts -> Nat]
  /\ pin \in [Clients -> Nat]
  /\ overwritten \subseteq Int

(* Before the first start there is nothing to lose. *)
LEMMA InitStartup == Init => StartupInv
<1>. SUFFICES ASSUME Init PROVE StartupInv
  OBVIOUS
<1>. USE DEF Init
<1>1. TypeButFlags
  BY DEF TypeButFlags
<1>2. writing \in BOOLEAN /\ hasServed \in BOOLEAN
  BY Zenon
<1>3. WriteInProgress /\ BuiltInOrder /\ Newest /\ Accepted
  BY DEF WriteInProgress, BuiltInOrder, Newest, Accepted
<1>4. DataReadable /\ StartsAgain /\ PinsTraceable /\ ClientsFollow
  BY DEF DataReadable, StartsAgain, PinsTraceable, Traceable, ClientsFollow
<1>. QED  BY <1>1, <1>2, <1>3, <1>4, Zenon DEF StartupInv, StartupTypeOK, TypeButFlags

(* os.Exit and crashes: the files decide what the invariant says. *)
LEMMA ExitStartup ==
  ASSUME StartupInv, Exit,
         UNCHANGED <<key, prevKey, data, minted, pin, hasServed, overwritten>>
  PROVE  StartupInv'
<1>. USE DEF StartupInv, Exit
<1>1. StartupTypeOK'
  <2>1. TypeButFlags'
    BY DEF StartupTypeOK, TypeButFlags
  <2>2. writing' \in BOOLEAN /\ hasServed' \in BOOLEAN
    BY Zenon DEF StartupTypeOK
  <2>. QED  BY <2>1, <2>2, Zenon DEF StartupTypeOK, TypeButFlags
<1>2. WriteInProgress' /\ BuiltInOrder' /\ Newest' /\ Accepted'
  BY DEF WriteInProgress, BuiltInOrder, Newest, Accepted
<1>3. DataReadable' /\ StartsAgain'
  BY DEF DataReadable, StartsAgain
<1>4. PinsTraceable' /\ ClientsFollow'
  BY DEF PinsTraceable, Traceable, ClientsFollow
<1>. QED  BY <1>1, <1>2, <1>3, <1>4

(* A part that has its key k, read from the file or just written to it. *)
LEMMA ConstructedStartup ==
  ASSUME StartupInv, NEW p \in Parts, stage = p, NEW k \in Nat \ {0},
         key[p] \in {k, Torn}, key' = [key EXCEPT ![p] = k],
         minted' = [minted EXCEPT ![p] = k], UNCHANGED <<prevKey, pin, overwritten>>,
         Constructed(p, k)
  PROVE  StartupInv'
<1>. USE DEF StartupInv
<1>t. StartupTypeOK
  OBVIOUS
<1>k. key' \in [Parts -> Content] /\ key'[p] = k /\ \A q \in Parts \ {p} : key'[q] = key[q]
  BY <1>t DEF StartupTypeOK
<1>m. minted' \in [Parts -> Nat] /\ minted'[p] = k /\ \A q \in Parts \ {p} : minted'[q] = minted[q]
  BY <1>t DEF StartupTypeOK
<1>n. Newest'
  BY <1>k, <1>m DEF Newest
<1>d. \A q \in Stores : data[q] # Absent => key'[q] = data[q]
  BY <1>k DEF StartupTypeOK, DataReadable
<1>1. CASE /\ p \in Stores /\ data[p] \in {Absent, k}
           /\ data' = IF p = Queue THEN [data EXCEPT ![p] = k] ELSE data
           /\ mem' = [mem EXCEPT ![p] = k]
           /\ stage' = stage + 1
           /\ writing' = FALSE
           /\ UNCHANGED <<ca, env, hasServed>>
  <2>1. StartupTypeOK'
    <3>1. TypeButFlags'
      BY <1>1, <1>k, <1>m DEF StartupTypeOK, TypeButFlags
    <3>2. writing' \in BOOLEAN /\ hasServed' \in BOOLEAN
      BY <1>1, Zenon DEF StartupTypeOK
    <3>. QED  BY <3>1, <3>2, Zenon DEF StartupTypeOK, TypeButFlags
  <2>2. WriteInProgress' /\ Accepted'
    BY <1>1 DEF WriteInProgress, Accepted
  <2>3. BuiltInOrder'
    BY <1>1, <1>k, <1>t DEF BuiltInOrder, StartupTypeOK
  <2>4. DataReadable'
    BY <1>1, <1>k, <1>d, <1>t DEF DataReadable, StartupTypeOK
  <2>5. StartsAgain'
    BY <1>1, <1>k, <1>m DEF StartsAgain
  <2>6. PinsTraceable' /\ ClientsFollow'
    BY <1>1, <1>k DEF PinsTraceable, Traceable, ClientsFollow
  <2>. QED  BY <1>n, <2>1, <2>2, <2>3, <2>4, <2>5, <2>6
<1>2. CASE Exit /\ UNCHANGED <<data, hasServed>>
  <2>. USE <1>2 DEF Exit
  <2>1. StartupTypeOK'
    <3>1. TypeButFlags'
      BY <1>k, <1>m DEF StartupTypeOK, TypeButFlags
    <3>2. writing' \in BOOLEAN /\ hasServed' \in BOOLEAN
      BY Zenon DEF StartupTypeOK
    <3>. QED  BY <3>1, <3>2, Zenon DEF StartupTypeOK, TypeButFlags
  <2>2. WriteInProgress' /\ BuiltInOrder' /\ Newest' /\ Accepted'
    BY <1>n DEF WriteInProgress, BuiltInOrder, Newest, Accepted
  <2>3. DataReadable'
    BY <1>d DEF DataReadable
  <2>4. StartsAgain'
    BY <1>k, <1>m DEF StartsAgain
  <2>5. PinsTraceable' /\ ClientsFollow'
    BY <1>k, <1>t DEF PinsTraceable, Traceable, ClientsFollow, StartupTypeOK
  <2>. QED  BY <2>1, <2>2, <2>3, <2>4, <2>5
<1>3. CASE /\ p = CA
           /\ ca' = [pub |-> k, prev |-> Proof]
           /\ mem' = [mem EXCEPT ![p] = k]
           /\ stage' = Serving
           /\ writing' = FALSE
           /\ hasServed' = TRUE
           /\ UNCHANGED <<data, env>>
  <2>0. Proof \in Nat /\ Proof = (IF prevKey > 0 THEN prevKey ELSE Absent)
    BY <1>t DEF Proof, PrevKey, StartupTypeOK
  <2>1. StartupTypeOK'
    <3>1. TypeButFlags'
      BY <1>3, <1>k, <1>m, <2>0 DEF StartupTypeOK, TypeButFlags
    <3>2. writing' \in BOOLEAN /\ hasServed' \in BOOLEAN
      BY <1>3, Zenon
    <3>. QED  BY <3>1, <3>2, Zenon DEF StartupTypeOK, TypeButFlags
  <2>2. WriteInProgress' /\ BuiltInOrder' /\ Newest' /\ Accepted'
    BY <1>3, <1>k, <1>n, <1>t DEF WriteInProgress, BuiltInOrder, Newest, Accepted, StartupTypeOK
  <2>3. DataReadable'
    BY <1>3, <1>d DEF DataReadable
  <2>4. StartsAgain'
    BY <1>3, <1>k DEF StartsAgain, BuiltInOrder
  <2>5. \A c \in Clients : pin[c] \in {Absent, k, prevKey} \cup overwritten
    BY <1>3, <1>t DEF PinsTraceable, Traceable, StartupTypeOK
  <2>6. PinsTraceable'
    BY <1>3, <1>k, <2>5 DEF PinsTraceable, Traceable
  <2>7. ClientsFollow'
    BY <1>3, <1>t, <2>0, <2>5 DEF ClientsFollow, StartupTypeOK
  <2>. QED  BY <2>1, <2>2, <2>3, <2>4, <2>6, <2>7
<1>. QED  BY <1>1, <1>2, <1>3, Zenon DEF Constructed

-----------------------------------------------------------------------------
(* The steps of the start: each reads, creates or completes one key file. *)
LEMMA BootStartup ==
  ASSUME StartupInv,
         NEW p \in Parts, LoadKey(p) \/ RejectKey(p) \/ CreateKeyFile(p) \/ WriteKeyFile(p)
  PROVE  StartupInv'
<1>t. StartupTypeOK /\ TypeButFlags
  BY Zenon DEF StartupInv, StartupTypeOK, TypeButFlags
<1>1. CASE LoadKey(p)
  <2>1. key[p] \in Nat \ {0} /\ key' = [key EXCEPT ![p] = key[p]] /\ stage = p
    BY <1>1, <1>t DEF LoadKey, StartupTypeOK
  <2>2. minted' = [minted EXCEPT ![p] = key[p]] /\ UNCHANGED <<prevKey, pin, overwritten>>
    BY <1>1, <1>t DEF LoadKey, StartupTypeOK, StartupInv, Newest
  <2>. QED  BY <1>1, <2>1, <2>2, ConstructedStartup, Zenon DEF LoadKey
<1>2. CASE RejectKey(p)
  BY <1>2, ExitStartup DEF RejectKey
<1>3. CASE CreateKeyFile(p)
  <2>. USE <1>3 DEF CreateKeyFile, MustMint
  <2>k. key' \in [Parts -> Content] /\ key'[p] = Torn /\ \A q \in Parts \ {p} : key'[q] = key[q]
    BY <1>t DEF StartupTypeOK
  <2>1. StartupTypeOK'
    <3>1. TypeButFlags'
      BY <1>t, <2>k DEF TypeButFlags
    <3>2. writing' \in BOOLEAN /\ hasServed' \in BOOLEAN
      BY <1>t DEF StartupTypeOK
    <3>. QED  BY <3>1, <3>2, Zenon DEF StartupTypeOK, TypeButFlags
  <2>2. WriteInProgress' /\ Accepted'
    BY <2>k DEF StartupInv, WriteInProgress, Accepted
  <2>3. BuiltInOrder' /\ Newest'
    BY <2>k DEF StartupInv, BuiltInOrder, Newest
  <2>4. DataReadable'
    BY <2>k, <1>t DEF StartupInv, DataReadable, StartupTypeOK
  <2>5. StartsAgain'
    BY <2>k DEF StartupInv, StartsAgain
  <2>6. PinsTraceable' /\ ClientsFollow'
    BY <2>k DEF StartupInv, PinsTraceable, Traceable, ClientsFollow
  <2>. QED  BY <2>1, <2>2, <2>3, <2>4, <2>5, <2>6 DEF StartupInv
<1>4. CASE WriteKeyFile(p)
  <2>. DEFINE k == minted[p] + 1
  <2>1. k \in Nat \ {0} /\ minted' = [minted EXCEPT ![p] = k] /\ minted'[p] = k
    BY <1>4, <1>t DEF WriteKeyFile, StartupTypeOK
  <2>2. stage = p /\ key[p] = Torn
    BY <1>4 DEF WriteKeyFile, StartupInv, WriteInProgress
  <2>3. key' = [key EXCEPT ![p] = k] /\ Constructed(p, k)
    BY <1>4, <2>1, Zenon DEF WriteKeyFile, NewContent
  <2>4. UNCHANGED <<prevKey, pin, overwritten>>
    BY <1>4 DEF WriteKeyFile
  <2>. HIDE DEF k
  <2>. QED  BY <2>1, <2>2, <2>3, <2>4, ConstructedStartup, Zenon
<1>. QED  BY <1>1, <1>2, <1>3, <1>4

(* The steps in service and those of the operator. *)
LEMMA ServiceStartup ==
  ASSUME StartupInv,
         \/ \E e \in Envs : LoadConfig(e)
         \/ \E p \in Stores : Persist(p)
         \/ \E c \in Clients : FetchCA(c)
  PROVE  StartupInv'
<1>t. StartupTypeOK /\ TypeButFlags
  BY Zenon DEF StartupInv, StartupTypeOK, TypeButFlags
<1>1. ASSUME NEW e \in Envs, LoadConfig(e)
      PROVE  StartupInv'
  <2>. USE <1>1 DEF LoadConfig
  <2>1. StartupTypeOK'
    <3>1. TypeButFlags'
      BY <1>t DEF TypeButFlags
    <3>2. writing' \in BOOLEAN /\ hasServed' \in BOOLEAN
      BY <1>t DEF StartupTypeOK
    <3>. QED  BY <3>1, <3>2, Zenon DEF StartupTypeOK, TypeButFlags
  <2>2. WriteInProgress' /\ BuiltInOrder' /\ Newest' /\ Accepted'
    BY DEF StartupInv, WriteInProgress, BuiltInOrder, Newest, Accepted
  <2>3. DataReadable' /\ StartsAgain' /\ PinsTraceable' /\ ClientsFollow'
    BY DEF StartupInv, DataReadable, StartsAgain, PinsTraceable, Traceable, ClientsFollow
  <2>. QED  BY <2>1, <2>2, <2>3 DEF StartupInv
<1>2. ASSUME NEW p \in Stores, Persist(p)
      PROVE  StartupInv'
  <2>. USE <1>2 DEF Persist, bootVars
  <2>k. mem[p] = key[p]
    BY DEF StartupInv, BuiltInOrder
  <2>1. StartupTypeOK'
    <3>1. TypeButFlags'
      BY <1>t DEF TypeButFlags
    <3>2. writing' \in BOOLEAN /\ hasServed' \in BOOLEAN
      BY <1>t DEF StartupTypeOK
    <3>. QED  BY <3>1, <3>2, Zenon DEF StartupTypeOK, TypeButFlags
  <2>2. WriteInProgress' /\ BuiltInOrder' /\ Newest' /\ Accepted'
    BY DEF StartupInv, WriteInProgress, BuiltInOrder, Newest, Accepted
  <2>3. DataReadable'
    BY <2>k, <1>t DEF StartupInv, DataReadable, StartupTypeOK
  <2>4. StartsAgain' /\ PinsTraceable' /\ ClientsFollow'
    BY DEF StartupInv, StartsAgain, PinsTraceable, Traceable, ClientsFollow
  <2>. QED  BY <2>1, <2>2, <2>3, <2>4 DEF StartupInv
<1>3. ASSUME NEW c \in Clients, FetchCA(c)
      PROVE  StartupInv'
  <2>. USE <1>3 DEF FetchCA, bootVars
  <2>p. \A d \in Clients : pin'[d] \in {pin[d], ca.pub}
    BY <1>t DEF StartupTypeOK
  <2>1. StartupTypeOK'
    <3>1. TypeButFlags'
      BY <1>t DEF TypeButFlags
    <3>2. writing' \in BOOLEAN /\ hasServed' \in BOOLEAN
      BY <1>t DEF StartupTypeOK
    <3>. QED  BY <3>1, <3>2, Zenon DEF StartupTypeOK, TypeButFlags
  <2>2. WriteInProgress' /\ BuiltInOrder' /\ Newest' /\ Accepted' /\ DataReadable' /\ StartsAgain'
    BY DEF StartupInv, WriteInProgress, BuiltInOrder, Newest, Accepted, DataReadable, StartsAgain
  <2>3. PinsTraceable' /\ ClientsFollow'
    BY <2>p DEF StartupInv, PinsTraceable, Traceable, ClientsFollow
  <2>. QED  BY <2>1, <2>2, <2>3 DEF StartupInv
<1>. QED  BY <1>1, <1>2, <1>3

(* The operator moves, removes or deletes a file. *)
LEMMA OperatorStartup ==
  ASSUME StartupInv, RotateCA \/ RemovePrev \/ \E p \in Parts : DeleteTorn(p)
  PROVE  StartupInv'
<1>t. StartupTypeOK /\ TypeButFlags
  BY Zenon DEF StartupInv, StartupTypeOK, TypeButFlags
<1>f. UNCHANGED <<writing, hasServed>> => writing' \in BOOLEAN /\ hasServed' \in BOOLEAN
  BY <1>t DEF StartupTypeOK
<1>q. TypeButFlags' /\ UNCHANGED <<writing, hasServed>> => StartupTypeOK'
  BY <1>f, Zenon DEF StartupTypeOK, TypeButFlags
<1>1. CASE RotateCA
  <2>. USE <1>1 DEF RotateCA, bootVars
  <2>k. key' \in [Parts -> Content] /\ key'[CA] = Absent /\ \A p \in Stores : key'[p] = key[p]
    BY <1>t DEF StartupTypeOK
  <2>1. StartupTypeOK'
    BY <1>t, <1>q, <2>k DEF TypeButFlags
  <2>2. WriteInProgress' /\ BuiltInOrder' /\ Newest' /\ Accepted'
    BY <2>k DEF StartupInv, WriteInProgress, BuiltInOrder, Newest, Accepted
  <2>3. DataReadable'
    BY <2>k DEF StartupInv, DataReadable
  <2>6. key[CA] \in {minted[CA], Torn}
    BY <1>t DEF StartupInv, Newest, StartupTypeOK
  <2>7. StartsAgain'
    BY <2>k, <2>6 DEF StartupInv, StartsAgain
  <2>4. Traceable \subseteq Traceable'
    BY DEF Traceable
  <2>5. PinsTraceable' /\ ClientsFollow'
    BY <2>4 DEF StartupInv, PinsTraceable, ClientsFollow
  <2>. QED  BY <2>1, <2>2, <2>3, <2>5, <2>7 DEF StartupInv
<1>2. CASE RemovePrev
  <2>. USE <1>2 DEF RemovePrev, bootVars
  <2>1. StartupTypeOK'
    BY <1>t, <1>q DEF TypeButFlags
  <2>2. WriteInProgress' /\ BuiltInOrder' /\ Newest' /\ Accepted' /\ DataReadable' /\ ClientsFollow'
    BY DEF StartupInv, WriteInProgress, BuiltInOrder, Newest, Accepted, DataReadable, ClientsFollow
  <2>3. StartsAgain'
    BY DEF StartupInv, StartsAgain, PinsTraceable
  <2>4. PinsTraceable'
    BY DEF StartupInv, PinsTraceable, Traceable
  <2>. QED  BY <2>1, <2>2, <2>3, <2>4 DEF StartupInv
<1>3. ASSUME NEW p \in Parts, DeleteTorn(p)
      PROVE  StartupInv'
  <2>. USE <1>3 DEF DeleteTorn, bootVars
  <2>k. key' \in [Parts -> Content] /\ key'[p] = Absent /\ \A q \in Parts \ {p} : key'[q] = key[q]
    BY <1>t DEF StartupTypeOK
  <2>1. StartupTypeOK'
    BY <1>t, <1>q, <2>k DEF TypeButFlags
  <2>2. WriteInProgress' /\ BuiltInOrder' /\ Newest' /\ Accepted'
    BY <2>k DEF StartupInv, WriteInProgress, BuiltInOrder, Newest, Accepted
  <2>3. DataReadable' /\ StartsAgain'
    BY <2>k, <1>t DEF StartupInv, DataReadable, StartsAgain, StartupTypeOK
  <2>4. PinsTraceable' /\ ClientsFollow'
    BY <2>k, <1>t DEF StartupInv, PinsTraceable, Traceable, ClientsFollow, StartupTypeOK
  <2>. QED  BY <2>1, <2>2, <2>3, <2>4 DEF StartupInv
<1>. QED  BY <1>1, <1>2, <1>3

(* The invariant is inductive. *)
LEMMA NextStartup == StartupInv /\ [Next]_vars => StartupInv'
<1>. SUFFICES ASSUME StartupInv, [Next]_vars
              PROVE  StartupInv'
  OBVIOUS
<1>1. CASE Crash
  BY <1>1, ExitStartup DEF Crash
<1>2. CASE UNCHANGED vars
  BY <1>2 DEF vars, bootVars, StartupInv, StartupTypeOK, WriteInProgress, BuiltInOrder,
     Newest, Accepted, DataReadable, StartsAgain, PinsTraceable, Traceable, ClientsFollow
<1>. QED
  BY <1>1, <1>2, BootStartup, ServiceStartup, OperatorStartup DEF Next

(* The invariant says that the process serves as configured. *)
LEMMA AcceptedServes == StartupInv => ServesAsConfigured
BY DEF StartupInv, Accepted, ServesAsConfigured, Load, Listener

(* No step touches a complete key file but the operator's move. *)
LEMMA StepKeepsKeys ==
  ASSUME StartupInv, [Next]_vars
  PROVE  \A p \in Parts :
           key[p] > 0 => \/ key'[p] = key[p]
                         \/ p = CA /\ key'[p] = Absent /\ prevKey' = key[p]
<1>t. key \in [Parts -> Content]
  BY DEF StartupInv, StartupTypeOK
<1>1. ASSUME NEW p \in Parts, CreateKeyFile(p) \/ WriteKeyFile(p) \/ DeleteTorn(p)
      PROVE  key[p] <= 0 /\ \A q \in Parts \ {p} : key'[q] = key[q]
  BY <1>t, <1>1 DEF CreateKeyFile, MustMint, WriteKeyFile, DeleteTorn, StartupInv, WriteInProgress
<1>2. CASE RotateCA
  BY <1>t, <1>2 DEF RotateCA
<1>3. CASE UNCHANGED key
  BY <1>3
<1>4. CASE \E p \in Parts : LoadKey(p) \/ RejectKey(p)
  BY <1>3, <1>4 DEF LoadKey, RejectKey
<1>5. CASE \/ \E e \in Envs : LoadConfig(e)
           \/ \E p \in Stores : Persist(p)
           \/ \E c \in Clients : FetchCA(c)
           \/ RemovePrev
           \/ Crash
           \/ UNCHANGED vars
  BY <1>3, <1>5 DEF LoadConfig, Persist, FetchCA, RemovePrev, Crash, vars
<1>. QED  BY <1>t, <1>1, <1>2, <1>4, <1>5 DEF Next

-----------------------------------------------------------------------------
(* The results. *)

(* The invariant holds in every state of every run of the relay. *)
THEOREM StartupInvariant == Spec => []StartupInv
<1>. QED  BY InitStartup, NextStartup, PTL DEF Spec

(* Every variable of the start keeps its type. *)
THEOREM StartupTypeCorrect == Spec => []StartupTypeOK
<1>1. StartupInv => StartupTypeOK
  BY DEF StartupInv
<1>. QED  BY <1>1, StartupInvariant, PTL

(* A crash anywhere in New, also inside os.WriteFile, leaves no data file   *)
(* whose key is gone.                                                       *)
THEOREM StartupDataReadable == Spec => []DataReadable
<1>1. StartupInv => DataReadable
  BY DEF StartupInv
<1>. QED  BY <1>1, StartupInvariant, PTL

(* Once in service, the relay starts again from its files. *)
THEOREM StartupStartsAgain == Spec => []StartsAgain
<1>1. StartupInv => StartsAgain
  BY DEF StartupInv
<1>. QED  BY <1>1, StartupInvariant, PTL

(* A client's pin is the served CA key, the one that signed it, or one      *)
(* whose .prev file was overwritten by another move.                        *)
THEOREM StartupClientsFollow == Spec => []ClientsFollow
<1>1. StartupInv => ClientsFollow
  BY DEF StartupInv
<1>. QED  BY <1>1, StartupInvariant, PTL

(* What config.Load accepted is what Run serves with. *)
THEOREM StartupServesAsConfigured == Spec => []ServesAsConfigured
<1>. QED  BY AcceptedServes, StartupInvariant, PTL

(* loadOrCreateKey and readPrevKey never overwrite a complete key file. *)
THEOREM StartupKeyKept == Spec => KeyKept
<1>1. StartupInv /\ [Next]_vars =>
        [\A p \in Parts :
           key[p] > 0 => \/ key'[p] = key[p]
                         \/ p = CA /\ key'[p] = Absent /\ prevKey' = key[p]]_vars
  BY StepKeepsKeys
<1>. QED  BY <1>1, StartupInvariant, PTL DEF Spec, KeyKept

=============================================================================
