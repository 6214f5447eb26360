------------------------------- MODULE Startup -------------------------------
(***************************************************************************)
(* The start of the process: config.Load, then server.New, which builds    *)
(* the offline queue, the prekey directory and the sealed-sender CA one    *)
(* after the other, and the listener of Run.  Each of the three parts has  *)
(* a key file that is read, or minted with os.WriteFile, which creates the *)
(* file and fills it in a second step: a crash between the two leaves a    *)
(* file of the wrong length.                                               *)
(*                                                                         *)
(* The CA's key can be rotated: the operator moves it to <path>.prev, and  *)
(* the next start mints a key and serves it with a proof signed by the old *)
(* one.  Clients pin the key they first see and follow such proofs (their  *)
(* code is elsewhere; sealed_ca.go:39-53 says what they do).               *)
(*                                                                         *)
(* A file's content is Absent, Torn, or the number of the key it holds;    *)
(* `hasServed' and `overwritten' are history.                              *)
(***************************************************************************)
EXTENDS Integers

CONSTANTS
  Clients,     \* clients of GET /sealed-ca
  Envs,        \* environments the operator may start the relay with
  NoEnv,
  Default,     \* the default of the numeric settings
  MaxMints     \* bound on the keys minted per part

ASSUME StartupAssumption ==
  /\ Default \in Nat \ {0}
  /\ MaxMints \in Nat
  /\ Envs \subseteq [dev : BOOLEAN, cert : BOOLEAN, tlsKey : BOOLEAN,
                     limit : [form : {"unset", "garbage", "number"}, n : Int]]

Queue == 1
Prekeys == 2
CA == 3
Parts == {Queue, Prekeys, CA}
Stores == {Queue, Prekeys}      \* the parts that also have a data file

Absent == 0
Torn == -1
Content == Nat \cup {Torn}

Down == 0
Serving == 4

VARIABLES
  key,          \* the key files
  prevKey,      \* <path>.prev of the CA
  data,         \* the key under which a data file is encrypted, or Absent
  stage,        \* Down, the part New is building, or Serving
  writing,      \* inside os.WriteFile of that part's key
  mem,          \* the keys in memory
  ca,           \* what /sealed-ca serves: the key and the one that signed it
  env,          \* the environment of the running process
  minted,       \* how many keys a part has minted
  pin,          \* the key a client has pinned
  hasServed,    \* the relay has been in service
  overwritten   \* CA keys that were in .prev when another file was moved there

bootVars == <<stage, writing, mem, ca, env>>
vars == <<key, prevKey, data, bootVars, minted, pin, hasServed, overwritten>>

StartupTypeOK ==
  /\ key \in [Parts -> Content]
  /\ prevKey \in Content
  /\ data \in [Stores -> Nat]
  /\ stage \in Down..Serving
  /\ writing \in BOOLEAN
  /\ mem \in [Parts -> Nat]
  /\ ca \in [pub : Nat, prev : Nat]
  /\ env \in Envs \cup {NoEnv}
  /\ minted \in [Parts -> Nat]
  /\ pin \in [Clients -> Nat]
  /\ hasServed \in BOOLEAN
  /\ overwritten \subseteq Int

-----------------------------------------------------------------------------
(* Wrong variants of definitions below. *)

(* cert == "" && key == "" *)
Load_bug(e) ==
  /\ e.dev \/ e.cert \/ e.tlsKey
  /\ (IF e.limit.form = "number" THEN e.limit.n ELSE Default) > 0

(* The length of .prev is not checked. *)
PrevKey_bug == prevKey

(* No proof once the new key has been established. *)
Proof_bug == IF ~writing THEN Absent ELSE IF prevKey > 0 THEN prevKey ELSE Absent

(* The error of os.WriteFile is not looked at. *)
NewContent_bug(k) == Torn

(* A key is minted at every start. *)
MustMint_bug(content) == content # Torn

-----------------------------------------------------------------------------
(* config.Load *)

getEnvInt(v) == IF v.form = "number" THEN v.n ELSE Default

Load(e) ==
  /\ e.dev \/ (e.cert /\ e.tlsKey)
  /\ getEnvInt(e.limit) > 0

(* The listener Run chooses. *)
Listener(e) == IF e.dev /\ ~(e.cert /\ e.tlsKey) THEN "plain" ELSE "tls"

(* main: a rejected configuration ends the process before it does anything. *)
LoadConfig(e) ==
  /\ stage = Down
  /\ Load(e)
  /\ stage' = Queue
  /\ env' = e
  /\ UNCHANGED <<key, prevKey, data, writing, mem, ca, minted, pin, hasServed, overwritten>>

-----------------------------------------------------------------------------
(* server.New *)

(* os.Exit, or a crash: the files stay as they are. *)
Exit ==
  /\ stage' = Down
  /\ writing' = FALSE
  /\ mem' = [p \in Parts |-> Absent]
  /\ ca' = [pub |-> Absent, prev |-> Absent]
  /\ env' = NoEnv

(* readPrevKey: an absent or malformed file is no error. *)
PrevKey == IF prevKey > 0 THEN prevKey ELSE Absent

(* The key whose signature goes with the served one, in a mint and in every *)
(* later start.                                                             *)
Proof == PrevKey

(* The part has its key k.  The stores now read their data file, which must *)
(* decrypt under k; a queue without one writes it (initSchema).             *)
Constructed(p, k) ==
  \/ /\ p \in Stores /\ data[p] \in {Absent, k}
     /\ data' = IF p = Queue THEN [data EXCEPT ![p] = k] ELSE data
     /\ mem' = [mem EXCEPT ![p] = k]
     /\ stage' = stage + 1
     /\ writing' = FALSE
     /\ UNCHANGED <<ca, env, hasServed>>
  \/ /\ p \in Stores
     /\ \/ data[p] \notin {Absent, k}       \* authentication failed
        \/ p = Queue /\ data[p] = Absent    \* initSchema failed
     /\ Exit
     /\ UNCHANGED <<data, hasServed>>
  \/ /\ p = CA
     /\ ca' = [pub |-> k, prev |-> Proof]
     /\ mem' = [mem EXCEPT ![p] = k]
     /\ stage' = Serving
     /\ writing' = FALSE
     /\ hasServed' = TRUE
     /\ UNCHANGED <<data, env>>

(* The key file exists and has the right length. *)
LoadKey(p) ==
  /\ stage = p /\ ~writing
  /\ key[p] > 0
  /\ Constructed(p, key[p])
  /\ UNCHANGED <<key, prevKey, minted, pin, overwritten>>

RejectKey(p) ==
  /\ stage = p /\ ~writing
  /\ key[p] = Torn
  /\ Exit
  /\ UNCHANGED <<key, prevKey, data, minted, pin, hasServed, overwritten>>

(* os.ReadFile fails with ErrNotExist. *)
MustMint(content) == content = Absent

(* No key file: generate a key; os.WriteFile creates the file. *)
CreateKeyFile(p) ==
  /\ stage = p /\ ~writing
  /\ MustMint(key[p])
  /\ minted[p] < MaxMints
  /\ key' = [key EXCEPT ![p] = Torn]
  /\ writing' = TRUE
  /\ UNCHANGED <<prevKey, data, stage, mem, ca, env, minted, pin, hasServed, overwritten>>

(* What the file holds after os.WriteFile has returned nil. *)
NewContent(k) == k

WriteKeyFile(p) ==
  /\ stage = p /\ writing
  /\ minted' = [minted EXCEPT ![p] = @ + 1]
  /\ key' = [key EXCEPT ![p] = NewContent(minted'[p])]
  /\ Constructed(p, minted'[p])
  /\ UNCHANGED <<prevKey, pin, overwritten>>

(* The process ends at any moment, also because os.WriteFile or Run fails. *)
Crash ==
  /\ stage # Down
  /\ Exit
  /\ UNCHANGED <<key, prevKey, data, minted, pin, hasServed, overwritten>>

-----------------------------------------------------------------------------
(* In service. *)

(* persistLocked of a store. *)
Persist(p) ==
  /\ stage = Serving
  /\ data' = [data EXCEPT ![p] = mem[p]]
  /\ UNCHANGED <<key, prevKey, bootVars, minted, pin, hasServed, overwritten>>

(* GET /sealed-ca.  A client without a pin adopts the key; one with another *)
(* pin adopts it if that key signed it, and otherwise keeps what it has.    *)
FetchCA(c) ==
  /\ stage = Serving
  /\ pin' = [pin EXCEPT ![c] = IF @ \in {Absent, ca.prev} THEN ca.pub ELSE @]
  /\ UNCHANGED <<key, prevKey, data, bootVars, minted, hasServed, overwritten>>

(* The operator. *)

(* "move the current key file to <path>.prev and restart" *)
RotateCA ==
  /\ stage \in {Down, Serving}
  /\ key[CA] # Absent
  /\ prevKey' = key[CA]
  /\ key' = [key EXCEPT ![CA] = Absent]
  /\ overwritten' = overwritten \cup {prevKey}
  /\ UNCHANGED <<data, bootVars, minted, pin, hasServed>>

(* "operators may remove it once all clients have migrated" *)
RemovePrev ==
  /\ stage = Serving
  /\ key[CA] = ca.pub
  /\ \A c \in Clients : pin[c] \in {Absent, ca.pub}
  /\ prevKey' = Absent
  /\ UNCHANGED <<key, data, bootVars, minted, pin, hasServed, overwritten>>

(* A key file that stops the relay from starting is deleted. *)
DeleteTorn(p) ==
  /\ stage = Down
  /\ key[p] = Torn
  /\ key' = [key EXCEPT ![p] = Absent]
  /\ UNCHANGED <<prevKey, data, bootVars, minted, pin, hasServed, overwritten>>

Init ==
  /\ key = [p \in Parts |-> Absent]
  /\ prevKey = Absent
  /\ data = [p \in Stores |-> Absent]
  /\ stage = Down
  /\ writing = FALSE
  /\ mem = [p \in Parts |-> Absent]
  /\ ca = [pub |-> Absent, prev |-> Absent]
  /\ env = NoEnv
  /\ minted = [p \in Parts |-> 0]
  /\ pin = [c \in Clients |-> Absent]
  /\ hasServed = FALSE
  /\ overwritten = {}

Next ==
  \/ \E e \in Envs : LoadConfig(e)
  \/ \E p \in Parts : LoadKey(p) \/ RejectKey(p) \/ CreateKeyFile(p) \/ WriteKeyFile(p)
  \/ \E p \in Parts : DeleteTorn(p)
  \/ \E p \in Stores : Persist(p)
  \/ \E c \in Clients : FetchCA(c)
  \/ RotateCA
  \/ RemovePrev
  \/ Crash

Spec == Init /\ [][Next]_vars

-----------------------------------------------------------------------------
(* Wherever the process was stopped, a data file is encrypted under the key *)
(* in its key file, so that a start never fails to authenticate it          *)
(* (store.go:372, prekey_store.go:358).                                     *)
DataReadable ==
  \A p \in Stores : data[p] # Absent => key[p] = data[p]

(* The relay never gives up a key: a complete key file stays as it is,      *)
(* except that the operator moves the CA's to .prev.  The served CA key is  *)
(* the same after every restart ("CA key not stable across reloads",        *)
(* sealed_ca_test.go:78).                                                   *)
KeyKept ==
  [][\A p \in Parts :
       key[p] > 0 => \/ key'[p] = key[p]
                     \/ p = CA /\ key'[p] = Absent /\ prevKey' = key[p]]_vars

(* Key files are written in place, but once the relay has been in service   *)
(* no crash can leave one that stops it from starting (store.go:502,        *)
(* sealed_ca.go:121), except in the course of a rotation: .prev holds the   *)
(* last key that was minted, and no key has taken its place yet, or a torn  *)
(* file the operator moved there.  An old .prev excuses nothing.            *)
StartsAgain ==
  hasServed => /\ \A p \in Stores : key[p] > 0
               /\ key[CA] > 0 \/ prevKey \in {minted[CA], Torn}

(* Rotations lock no client out: its pin is the served key or the one that  *)
(* signed it.  The exception is the pin whose key file, in .prev, was       *)
(* overwritten by a later move: the client missed a rotation before that    *)
(* one, or the operator repeated the move after an interrupted start        *)
(* (sealed_ca.go:39-49).                                                    *)
ClientsFollow ==
  stage = Serving =>
    \A c \in Clients : pin[c] \in {Absent, ca.pub, ca.prev} \cup overwritten

(* The checks of config.Load suffice for the choice Run makes later: the    *)
(* limits are positive, and the TLS listener is chosen only when there is a *)
(* certificate and a key to serve with (config.go:56-65, server.go:137).    *)
ServesAsConfigured ==
  stage # Down =>
    /\ getEnvInt(env.limit) > 0
    /\ Listener(env) = "tls" => env.cert /\ env.tlsKey

=============================================================================
