------------------------- MODULE ProvisioningProofs -------------------------
(***************************************************************************)
(* Provisioning, for any slots, configurations and secrets, any number of  *)
(* runs and kills: one run at a time, as the lock promises, and then runs  *)
(* that interleave in any order.                                           *)
(*                                                                         *)
(* One at a time: the run inside is alone, so what it knows of its slot    *)
(* stays true.  It has finished a prefix of its configuration; for the     *)
(* last entry of each slot there the database says what the entry asks     *)
(* for, unless the entry in work is for the same slot, and so it does for  *)
(* the last default of each type.  At the end the prefix is all of it.     *)
(*                                                                         *)
(* In any order: a run only relies on facts nobody takes back.             *)
(***************************************************************************)
EXTENDS Provisioning, SequenceTheorems, TLAPS

USE DEF Goto

(* An entry is in work; it has been loaded.                                *)
InWork == {"resolve"} \cup ServiceCalls
Loaded == InWork \cup {"next", "complete"}

(* How many entries a run has finished.                                    *)
Finished(p) == Len(config[p]) - Len(todo[p])

(* Entry i is the last of its slot, or the last default of its type, of    *)
(* the first n.                                                            *)
LastIn(c, n, i) ==
    i \in 1..n /\ \A j \in 1..n : c[j].slot = c[i].slot => j <= i
LastDefaultIn(c, n, i) ==
    /\ i \in 1..n /\ c[i].asDefault
    /\ \A j \in 1..n :
          (c[j].asDefault /\ TypeOf[c[j].slot] = TypeOf[c[i].slot]) => j <= i

(* Every slot of the first n entries has a last one.                       *)
HaveLast(c, n) ==
    \A i \in 1..n : \E k \in 1..n : LastIn(c, n, k) /\ c[k].slot = c[i].slot

(* The database says what an entry asks for.                               *)
InPlace(e) ==
    active[e.slot] # 0 /\ rows[e.slot][active[e.slot]] = e.secret /\ enabled[e.slot]

(* What is left to do is the rest of a valid configuration.                *)
RestOfConfig(p) ==
    /\ \A i \in DOMAIN config[p] : config[p][i].wellFormed
    /\ Len(todo[p]) <= Len(config[p])
    /\ \A i \in 1..Len(todo[p]) : todo[p][i] = config[p][Finished(p) + i]

(* What a run knows of its slot.                                           *)
KnowsSlot(p) ==
    /\ at[p] = "create" /\ Slot(p) \notin Unmatched => Len(rows[Slot(p)]) = 0
    /\ at[p] = "update" => cred[p] \in 1..Len(rows[Slot(p)])
    /\ at[p] \in {"update", "add"} /\ active[Slot(p)] # 0 => cred[p] = active[Slot(p)]
    /\ at[p] = "resolve" /\ Slot(p) \notin Unmatched =>
          Len(rows[Slot(p)]) = 1 /\ rows[Slot(p)][1] = Current(p).secret
    /\ at[p] \in {"add", "enable", "default"} =>
          cred[p] \in 1..Len(rows[Slot(p)]) /\ rows[Slot(p)][cred[p]] = Current(p).secret
    /\ at[p] \in {"enable", "default"} => active[Slot(p)] = cred[p]
    /\ at[p] = "default" => enabled[Slot(p)] /\ Current(p).asDefault

(* The finished entries are in place.                                      *)
PrefixInPlace(p) ==
    /\ HaveLast(config[p], Finished(p))
    /\ \A i \in 1..Finished(p) :
          /\ LastIn(config[p], Finished(p), i) =>
                \/ at[p] \in InWork /\ config[p][i].slot = Slot(p)
                \/ InPlace(config[p][i])
          /\ LastDefaultIn(config[p], Finished(p), i) =>
                default[TypeOf[config[p][i].slot]] = config[p][i].slot

Progress(p) ==
    /\ at[p] \in InWork => todo[p] # <<>>
    /\ at[p] = "complete" => todo[p] = <<>>
    /\ KnowsSlot(p)
    /\ at[p] \in Loaded => RestOfConfig(p) /\ PrefixInPlace(p)

Alone == \A p, q \in Pods : at[p] # "idle" /\ at[q] # "idle" => p = q

(* The inductive invariant.                                                *)
ProvisioningIInv ==
    /\ ProvisioningTypeOK
    /\ UsableModels
    /\ Alone
    /\ \A p \in Pods : Progress(p)

(* A sound store has its types, and its models are usable.                 *)
LEMMA StoresSound ==
    ASSUME ProvisioningInit PROVE ProvisioningTypeOK /\ UsableModels
<1>1. PICK s \in Stores : /\ rows = s.rows /\ active = s.active
                          /\ enabled = s.enabled /\ default = s.default
  BY DEF ProvisioningInit
<1>2. SoundStore(s)
  BY ProvisioningAssumption
<1> QED BY <1>1, <1>2 DEF ProvisioningInit, SoundStore, ProvisioningTypeOK, Points, UsableModels

(* The store is sound and nobody inside initially.                         *)
LEMMA ProvisioningInitIInv == ProvisioningInit => ProvisioningIInv
BY StoresSound DEF ProvisioningInit, ProvisioningIInv, Alone, Progress, KnowsSlot, Loaded,
                   InWork, ServiceCalls
-----------------------------------------------------------------------------
(* The entry in work, and what remains after it.                           *)
LEMMA CurrentEntry ==
    ASSUME ProvisioningTypeOK, NEW p \in Pods, todo[p] # <<>>
    PROVE  /\ Current(p) = todo[p][1] /\ Current(p) \in Entry
           /\ Slot(p) \in Slots /\ Current(p).secret \in Secrets
           /\ Len(todo[p]) \in Nat \ {0} /\ Tail(todo[p]) \in Seq(Entry)
           /\ Len(Tail(todo[p])) = Len(todo[p]) - 1
           /\ \A i \in 1..Len(Tail(todo[p])) : Tail(todo[p])[i] = todo[p][i + 1]
<1>1. todo[p] \in Seq(Entry)
  BY DEF ProvisioningTypeOK
<1>2. Len(todo[p]) \in Nat \ {0}
  BY <1>1, EmptySeq
<1>3. Current(p) = todo[p][1]
  BY <1>1 DEF Current
<1>4. todo[p][1] \in Entry
  BY <1>1, <1>2, ElementOfSeq
<1>5. Slot(p) \in Slots /\ Current(p).secret \in Secrets
  BY <1>3, <1>4 DEF Slot, Entry
<1> QED BY <1>1, <1>2, <1>3, <1>4, <1>5, HeadTailProperties

(* A run that has not moved, on a store that has not changed.              *)
LEMMA SameProgress ==
    ASSUME NEW q \in Pods, Progress(q), UNCHANGED store,
           at'[q] = at[q], todo'[q] = todo[q], cred'[q] = cred[q], config'[q] = config[q]
    PROVE  Progress(q)'
<1>1. Finished(q)' = Finished(q) /\ Current(q)' = Current(q) /\ Slot(q)' = Slot(q)
  BY DEF Finished, Current, Slot
<1>2. KnowsSlot(q)' = KnowsSlot(q)
  BY <1>1 DEF KnowsSlot, store
<1>3. RestOfConfig(q)' = RestOfConfig(q)
  BY <1>1 DEF RestOfConfig
<1>4. PrefixInPlace(q)' = PrefixInPlace(q)
  BY <1>1 DEF PrefixInPlace, store, InPlace, HaveLast, LastIn, LastDefaultIn
<1> QED BY <1>2, <1>3, <1>4 DEF Progress

(* A step of the run inside, in terms of that run.                         *)
LEMMA OnlyInside ==
    ASSUME ProvisioningIInv, NEW p \in Pods, at[p] # "idle",
           NEW s \in Points, at' = [at EXCEPT ![p] = s],
           ProvisioningTypeOK', UsableModels', Progress(p)'
    PROVE  ProvisioningIInv'
<1>1. \A q \in Pods \ {p} : at[q] = "idle" /\ at'[q] = "idle"
  BY DEF ProvisioningIInv, Alone, ProvisioningTypeOK
<1>2. \A q \in Pods \ {p} : Progress(q)'
  BY <1>1 DEF Progress, KnowsSlot, Loaded, InWork, ServiceCalls
<1>3. Alone'
  BY <1>1 DEF Alone
<1> QED BY <1>2, <1>3 DEF ProvisioningIInv

(* A run that has ended has no claims.                                     *)
LEMMA EndsIInv ==
    ASSUME ProvisioningIInv, NEW p \in Pods, Forget(p), UNCHANGED store
    PROVE  ProvisioningIInv'
<1>1. at' = [at EXCEPT ![p] = "idle"] /\ "idle" \in Points
  BY DEF Forget, Points
<1>2. ProvisioningTypeOK' /\ UsableModels'
  BY <1>1 DEF ProvisioningIInv, ProvisioningTypeOK, UsableModels, Forget,
              store
<1>3. \A q \in Pods : at'[q] = at[q] \/ at'[q] = "idle"
  BY <1>1 DEF ProvisioningIInv, ProvisioningTypeOK
<1>4. Alone'
  BY <1>1 DEF ProvisioningIInv, ProvisioningTypeOK, Alone
<1>5. ASSUME NEW q \in Pods PROVE Progress(q)'
  <2>1. CASE q = p
    BY <1>1, <2>1 DEF ProvisioningIInv, ProvisioningTypeOK, Progress, KnowsSlot, Loaded, InWork,
                      ServiceCalls
  <2>2. CASE q # p
    <3>1. at'[q] = at[q] /\ todo'[q] = todo[q] /\ cred'[q] = cred[q] /\ config'[q] = config[q]
      BY <2>2 DEF ProvisioningIInv, ProvisioningTypeOK, Forget
    <3> QED BY <3>1, SameProgress DEF ProvisioningIInv
  <2> QED BY <2>1, <2>2
<1> QED BY <1>2, <1>4, <1>5 DEF ProvisioningIInv
-----------------------------------------------------------------------------
(* The steps in front of the entries.                                      *)

(* Nothing of a configuration just loaded is finished.                     *)
LEMMA LoadIInv ==
    ASSUME ProvisioningIInv, NEW p \in Pods, Load(p) PROVE ProvisioningIInv'
<1> USE DEF ProvisioningIInv, ProvisioningTypeOK
<1>1. PICK c \in Configs, d \in Settings :
         /\ d # Unparsable /\ Accepted(c)
         /\ todo' = [todo EXCEPT ![p] = c] /\ config' = [config EXCEPT ![p] = c]
         /\ disabled' = [disabled EXCEPT ![p] = d]
  BY DEF Load
<1>2. c \in Seq(Entry) /\ d \in SUBSET Slots
  BY <1>1, ProvisioningAssumption DEF Accepted
<1>3. /\ at[p] = "load" /\ at' = [at EXCEPT ![p] = "next"] /\ "next" \in Points
      /\ UNCHANGED <<store, cred>>
  BY DEF Load, Points
<1>4. ProvisioningTypeOK' /\ UsableModels'
  BY <1>1, <1>2, <1>3 DEF UsableModels, store
<1>5. at'[p] = "next" /\ todo'[p] = c /\ config'[p] = c /\ Len(c) \in Nat
  BY <1>1, <1>2, <1>3
<1>6. Finished(p)' = 0
  BY <1>5 DEF Finished
<1>7. RestOfConfig(p)'
  BY <1>1, <1>5, <1>6, <1>2 DEF RestOfConfig, Accepted
<1>8. PrefixInPlace(p)'
  BY <1>6 DEF PrefixInPlace, HaveLast
<1>9. Progress(p)'
  BY <1>5, <1>7, <1>8 DEF Progress, KnowsSlot, InWork, ServiceCalls
<1> QED BY <1>3, <1>4, <1>9, OnlyInside

(* The run begins, alone.                                                  *)
LEMMA BeginIInv ==
    ASSUME ProvisioningIInv, NEW p \in Pods, BeginAlone(p) PROVE ProvisioningIInv'
<1> USE DEF ProvisioningIInv, ProvisioningTypeOK
<1>1. /\ \A q \in Pods : at[q] = "idle"
      /\ at' = [at EXCEPT ![p] = "load"] /\ "load" \in Points
      /\ UNCHANGED <<store, todo, cred, config, disabled>>
  BY DEF BeginAlone, BeginProvisioning, Points
<1>2. ProvisioningTypeOK' /\ UsableModels' /\ Alone'
  BY <1>1 DEF UsableModels, Alone, store
<1>3. \A q \in Pods : at'[q] \in {"idle", "load"}
  BY <1>1
<1>4. \A q \in Pods : Progress(q)'
  BY <1>3 DEF Progress, KnowsSlot, Loaded, InWork, ServiceCalls
<1> QED BY <1>2, <1>4

(* At the end of the list.                                                 *)
LEMMA NoMoreIInv ==
    ASSUME ProvisioningIInv, NEW p \in Pods, NoMoreCurrent(p) PROVE ProvisioningIInv'
<1> USE DEF ProvisioningIInv, ProvisioningTypeOK
<1>1. /\ at[p] = "next" /\ todo[p] = <<>>
      /\ at' = [at EXCEPT ![p] = "complete"] /\ "complete" \in Points
      /\ UNCHANGED <<store, todo, cred, config, disabled>>
  BY DEF NoMoreCurrent, Points
<1>2. ProvisioningTypeOK' /\ UsableModels'
  BY <1>1 DEF UsableModels, store
<1>3. RestOfConfig(p) /\ PrefixInPlace(p) /\ at'[p] = "complete"
  BY <1>1 DEF Progress, Loaded
<1>4. RestOfConfig(p)'
  BY <1>1, <1>3 DEF RestOfConfig, Finished
<1>5. PrefixInPlace(p)'
  <2>1. Finished(p)' = Finished(p)
    BY <1>1 DEF Finished
  <2>2. at[p] \notin InWork
    BY <1>1 DEF InWork, ServiceCalls
  <2> QED BY <1>1, <1>3, <2>1, <2>2 DEF PrefixInPlace, store, InPlace, HaveLast, LastIn,
                                        LastDefaultIn
<1>6. Progress(p)'
  BY <1>1, <1>3, <1>4, <1>5 DEF Progress, KnowsSlot, InWork, ServiceCalls
<1> QED BY <1>1, <1>2, <1>6, OnlyInside
-----------------------------------------------------------------------------
(* The entry in work.                                                      *)

(* A step within an entry touches the entry's slot only.                   *)
LEMMA WithinEntry ==
    ASSUME ProvisioningIInv, NEW p \in Pods, at[p] \in InWork \cup {"next"}, todo[p] # <<>>,
           NEW s \in InWork, at' = [at EXCEPT ![p] = s],
           UNCHANGED <<todo, config, default>>,
           \A t \in Slots \ {Slot(p)} :
              rows'[t] = rows[t] /\ active'[t] = active[t] /\ enabled'[t] = enabled[t],
           ProvisioningTypeOK', UsableModels', KnowsSlot(p)'
    PROVE  ProvisioningIInv'
<1>1. s \in Points /\ at'[p] = s /\ at[p] # "idle"
  BY DEF ProvisioningIInv, ProvisioningTypeOK, Points, InWork, ServiceCalls
<1>2. RestOfConfig(p) /\ PrefixInPlace(p)
  BY DEF ProvisioningIInv, Progress, Loaded
<1>3. Finished(p)' = Finished(p) /\ Slot(p)' = Slot(p)
  BY DEF Finished, Slot, Current
<1>4. RestOfConfig(p)'
  BY <1>2, <1>3 DEF RestOfConfig
<1>5. PrefixInPlace(p)'
  <2>1. HaveLast(config[p], Finished(p))'
    BY <1>2, <1>3 DEF PrefixInPlace, HaveLast, LastIn
  <2>2. ASSUME NEW i \in 1..Finished(p)
        PROVE  /\ LastIn(config[p], Finished(p), i)' =>
                     config[p][i].slot = Slot(p) \/ InPlace(config[p][i])'
               /\ LastDefaultIn(config[p], Finished(p), i)' =>
                     default[TypeOf[config[p][i].slot]] = config[p][i].slot
    <3>1. config[p][i].slot \in Slots
      <4>1. i \in 1..Len(config[p]) /\ config[p] \in Seq(Entry)
        BY <1>2, CurrentEntry DEF RestOfConfig, Finished, ProvisioningIInv, ProvisioningTypeOK
      <4>2. config[p][i] \in Entry
        BY <4>1, ElementOfSeq
      <4> QED BY <4>2 DEF Entry
    <3>2. /\ LastIn(config[p], Finished(p), i)' = LastIn(config[p], Finished(p), i)
          /\ LastDefaultIn(config[p], Finished(p), i)' = LastDefaultIn(config[p], Finished(p), i)
      BY <1>3 DEF LastIn, LastDefaultIn
    <3> QED BY <1>2, <3>1, <3>2 DEF PrefixInPlace, InPlace
  <2> QED BY <1>1, <1>3, <2>1, <2>2 DEF PrefixInPlace
<1>6. Progress(p)'
  BY <1>1, <1>4, <1>5 DEF Progress, InWork, ServiceCalls
<1> QED BY <1>1, <1>6, OnlyInside

(* The id that is looked up is one of a stored credential.                 *)
LEMMA ResolvedId ==
    ASSUME ProvisioningTypeOK, NEW s \in Slots
    PROVE  /\ ResolveCredentialId(s) \in 0..Len(rows[s])
           /\ ResolveCredentialId(s) # 0 =>
                 s \notin Unmatched /\ (active[s] # 0 => ResolveCredentialId(s) = active[s])
           /\ ResolveCredentialId(s) = 0 /\ s \notin Unmatched => Len(rows[s]) = 0
<1>1. active[s] \in Nat /\ Len(rows[s]) \in Nat /\ active[s] <= Len(rows[s])
  BY DEF ProvisioningTypeOK
<1> QED BY <1>1 DEF ResolveCredentialId

(* The credential of the next entry is looked up.                          *)
LEMMA NextEntryIInv ==
    ASSUME ProvisioningIInv, NEW p \in Pods, NextEntry(p) PROVE ProvisioningIInv'
<1> USE DEF ProvisioningIInv, ProvisioningTypeOK
<1> DEFINE id == ResolveCredentialId(Slot(p))
<1>1. /\ at[p] = "next" /\ todo[p] # <<>>
      /\ cred' = [cred EXCEPT ![p] = id]
      /\ UNCHANGED <<store, todo, config, disabled>>
      /\ \/ id # 0 /\ at' = [at EXCEPT ![p] = "update"]
         \/ id = 0 /\ at' = [at EXCEPT ![p] = "create"]
  BY DEF NextEntry
<1>2. Slot(p) \in Slots
  BY <1>1, CurrentEntry
<1>3. /\ id \in 0..Len(rows[Slot(p)]) /\ Len(rows[Slot(p)]) \in Nat
      /\ id = 0 /\ Slot(p) \notin Unmatched => Len(rows[Slot(p)]) = 0
  BY <1>2, ResolvedId
<1>4. PICK s \in {"update", "create"} : /\ at' = [at EXCEPT ![p] = s]
                                        /\ s = "update" <=> id # 0
  BY <1>1
<1>5. s \in InWork /\ s \in Points
  BY DEF InWork, ServiceCalls, Points
<1>6. ProvisioningTypeOK' /\ UsableModels'
  BY <1>1, <1>3, <1>4, <1>5 DEF UsableModels, store
<1>7. Slot(p)' = Slot(p) /\ at'[p] = s /\ cred'[p] = id
  BY <1>1, <1>4 DEF Slot, Current
<1>8. KnowsSlot(p)'
  BY <1>1, <1>2, <1>3, <1>4, <1>7, ResolvedId DEF KnowsSlot, store
<1> QED BY <1>1, <1>4, <1>5, <1>6, <1>8, WithinEntry DEF store

(* The credential is overwritten in its place, or is the same already.     *)
LEMMA UpdateIInv ==
    ASSUME ProvisioningIInv, NEW p \in Pods, UpdateCredential(p) PROVE ProvisioningIInv'
<1> USE DEF ProvisioningIInv, ProvisioningTypeOK
<1> DEFINE t == Slot(p)
           secret == Current(p).secret
<1>1. /\ at[p] = "update" /\ at' = [at EXCEPT ![p] = "add"]
      /\ UNCHANGED <<active, enabled, default, todo, cred, config, disabled>>
      /\ \/ rows' = [rows EXCEPT ![t] = [rows[t] EXCEPT ![cred[p]] = secret]]
         \/ rows[t][cred[p]] = secret /\ UNCHANGED rows
  BY DEF UpdateCredential
<1>2. /\ todo[p] # <<>> /\ cred[p] \in 1..Len(rows[t])
      /\ active[t] # 0 => cred[p] = active[t]
  BY <1>1 DEF Progress, KnowsSlot, InWork, ServiceCalls
<1>3. t \in Slots /\ secret \in Secrets
  BY <1>2, CurrentEntry
<1>4. rows[t] \in Seq(Secrets)
  BY <1>3
<1>5. /\ rows' \in [Slots -> Seq(Secrets)]
      /\ \A s \in Slots : Len(rows'[s]) = Len(rows[s])
      /\ \A s \in Slots \ {t} : rows'[s] = rows[s]
      /\ rows'[t][cred[p]] = secret
  <2>1. CASE rows' = [rows EXCEPT ![t] = [rows[t] EXCEPT ![cred[p]] = secret]]
    <3> DEFINE new == [rows[t] EXCEPT ![cred[p]] = secret]
    <3>1. new \in Seq(Secrets) /\ Len(new) = Len(rows[t]) /\ new[cred[p]] = secret
      BY <1>2, <1>3, <1>4, ExceptSeq
    <3>2. rows' = [rows EXCEPT ![t] = new]
      BY <2>1
    <3> HIDE DEF new
    <3> QED BY <1>3, <3>1, <3>2
  <2>2. CASE rows[t][cred[p]] = secret /\ UNCHANGED rows
    BY <2>2
  <2> QED BY <1>1, <2>1, <2>2
<1>6. "add" \in InWork /\ "add" \in Points
  BY DEF InWork, ServiceCalls, Points
<1>7. ProvisioningTypeOK' /\ UsableModels'
  BY <1>1, <1>5, <1>6 DEF UsableModels
<1>8. Slot(p)' = t /\ Current(p)' = Current(p) /\ at'[p] = "add"
  BY <1>1 DEF Slot, Current
<1>9. KnowsSlot(p)'
  BY <1>1, <1>2, <1>3, <1>5, <1>8 DEF KnowsSlot
<1> QED BY <1>1, <1>2, <1>5, <1>6, <1>7, <1>9, WithinEntry DEF InWork, ServiceCalls

(* A credential is stored where there is none, if its slot can be          *)
(* resolved.                                                               *)
LEMMA CreateIInv ==
    ASSUME ProvisioningIInv, NEW p \in Pods, CreateCredential(p) PROVE ProvisioningIInv'
<1> USE DEF ProvisioningIInv, ProvisioningTypeOK
<1> DEFINE t == Slot(p)
           secret == Current(p).secret
           new == Append(rows[t], secret)
<1>1. /\ at[p] = "create" /\ at' = [at EXCEPT ![p] = "resolve"]
      /\ UNCHANGED <<enabled, default, todo, cred, config, disabled>>
      /\ \/ /\ rows' = [rows EXCEPT ![t] = new]
            /\ \/ UNCHANGED active
               \/ active[t] = 0 /\ active' = [active EXCEPT ![t] = Len(rows[t]) + 1]
         \/ Contains(rows[t], secret) /\ UNCHANGED <<rows, active>>
  BY DEF CreateCredential
<1>2. todo[p] # <<>> /\ (t \notin Unmatched => Len(rows[t]) = 0)
  BY <1>1 DEF Progress, KnowsSlot, InWork, ServiceCalls
<1>3. t \in Slots /\ secret \in Secrets
  BY <1>2, CurrentEntry
<1>4. rows[t] \in Seq(Secrets) /\ Len(rows[t]) \in Nat /\ active[t] \in 0..Len(rows[t])
  BY <1>3
<1>5. /\ rows' \in [Slots -> Seq(Secrets)] /\ active' \in [Slots -> Nat]
      /\ \A s \in Slots \ {t} : rows'[s] = rows[s] /\ active'[s] = active[s]
      /\ active'[t] <= Len(rows'[t]) /\ (active[t] # 0 => active'[t] # 0)
      /\ t \notin Unmatched => Len(rows'[t]) = 1 /\ rows'[t][1] = secret
  <2>1. new \in Seq(Secrets) /\ Len(new) = Len(rows[t]) + 1 /\ new[Len(rows[t]) + 1] = secret
    BY <1>3, <1>4
  <2>2. CASE rows' = [rows EXCEPT ![t] = new]
    <3> HIDE DEF new, t, secret
    <3>1. rows'[t] = new
      BY <1>3, <2>2
    <3>2. CASE UNCHANGED active
      BY <1>2, <1>3, <1>4, <2>1, <2>2, <3>1, <3>2
    <3>3. CASE active[t] = 0 /\ active' = [active EXCEPT ![t] = Len(rows[t]) + 1]
      BY <1>2, <1>3, <1>4, <2>1, <2>2, <3>1, <3>3
    <3>4. CASE Contains(rows[t], secret) /\ UNCHANGED <<rows, active>>
      BY <1>2, <1>3, <1>4, <2>1, <3>1, <3>4
    <3> QED BY <1>1, <2>2, <3>2, <3>3, <3>4 DEF new, t, secret
  <2>3. CASE Contains(rows[t], secret) /\ UNCHANGED <<rows, active>>
    <3>1. Len(rows[t]) # 0
      BY <1>4, <2>3 DEF Contains
    <3> QED BY <1>2, <1>4, <2>3, <3>1
  <2> QED BY <1>1, <2>2, <2>3
<1>6. "resolve" \in InWork /\ "resolve" \in Points
  BY DEF InWork, ServiceCalls, Points
<1>7. ProvisioningTypeOK' /\ UsableModels'
  <2>1. \A s \in Slots : active'[s] <= Len(rows'[s]) /\ (active[s] # 0 => active'[s] # 0)
    BY <1>5
  <2>2. ProvisioningTypeOK'
    BY <1>1, <1>5, <1>6, <2>1
  <2> QED BY <1>1, <2>1, <2>2 DEF UsableModels
<1>8. Slot(p)' = t /\ Current(p)' = Current(p) /\ at'[p] = "resolve"
  BY <1>1 DEF Slot, Current
<1>9. KnowsSlot(p)'
  BY <1>5, <1>8 DEF KnowsSlot
<1> QED BY <1>1, <1>2, <1>5, <1>6, <1>7, <1>9, WithinEntry DEF InWork, ServiceCalls

(* The new credential is found, and is the one just stored.                *)
LEMMA ResolveCreatedIInv ==
    ASSUME ProvisioningIInv, NEW p \in Pods, ResolveCreated(p) PROVE ProvisioningIInv'
<1> USE DEF ProvisioningIInv, ProvisioningTypeOK
<1> DEFINE id == ResolveCredentialId(Slot(p))
<1>1. /\ at[p] = "resolve" /\ at' = [at EXCEPT ![p] = "add"] /\ id # 0
      /\ cred' = [cred EXCEPT ![p] = id]
      /\ UNCHANGED <<store, todo, config, disabled>>
  BY DEF ResolveCreated
<1>2. /\ todo[p] # <<>>
      /\ Slot(p) \notin Unmatched =>
            Len(rows[Slot(p)]) = 1 /\ rows[Slot(p)][1] = Current(p).secret
  BY <1>1 DEF Progress, KnowsSlot, InWork, ServiceCalls
<1>3. Slot(p) \in Slots
  BY <1>2, CurrentEntry
<1>4. id = 1 /\ Len(rows[Slot(p)]) = 1 /\ rows[Slot(p)][1] = Current(p).secret
  <2>1. id \in 0..Len(rows[Slot(p)]) /\ id # 0 /\ Slot(p) \notin Unmatched
    BY <1>1, <1>3, ResolvedId
  <2>2. Len(rows[Slot(p)]) = 1 /\ rows[Slot(p)][1] = Current(p).secret
    BY <1>2, <2>1
  <2>3. id = 1
    BY <2>1, <2>2
  <2> QED BY <2>2, <2>3
<1>5. "add" \in InWork /\ "add" \in Points
  BY DEF InWork, ServiceCalls, Points
<1>6. ProvisioningTypeOK' /\ UsableModels'
  BY <1>1, <1>4, <1>5 DEF UsableModels, store
<1>7. Slot(p)' = Slot(p) /\ Current(p)' = Current(p) /\ at'[p] = "add" /\ cred'[p] = 1
  BY <1>1, <1>4 DEF Slot, Current
<1>8. KnowsSlot(p)'
  <2>1. active[Slot(p)] # 0 => active[Slot(p)] = 1
    BY <1>1, <1>3, <1>4, ResolvedId
  <2> QED BY <1>1, <1>4, <1>7, <2>1 DEF KnowsSlot, store
<1> QED BY <1>1, <1>2, <1>5, <1>6, <1>8, WithinEntry DEF store, InWork, ServiceCalls

(* The resolved credential becomes the active one.                         *)
LEMMA AddIInv ==
    ASSUME ProvisioningIInv, NEW p \in Pods, AddToModelList(p) PROVE ProvisioningIInv'
<1> USE DEF ProvisioningIInv, ProvisioningTypeOK
<1> DEFINE t == Slot(p)
<1>1. /\ at[p] = "add" /\ at' = [at EXCEPT ![p] = "enable"]
      /\ active' = [active EXCEPT ![t] = cred[p]]
      /\ UNCHANGED <<rows, enabled, default, todo, cred, config, disabled>>
  BY DEF AddToModelList
<1>2. /\ todo[p] # <<>> /\ cred[p] \in 1..Len(rows[t])
      /\ rows[t][cred[p]] = Current(p).secret
  BY <1>1 DEF Progress, KnowsSlot, InWork, ServiceCalls
<1>3. t \in Slots
  BY <1>2, CurrentEntry
<1>4. "enable" \in InWork /\ "enable" \in Points
  BY DEF InWork, ServiceCalls, Points
<1>5. /\ active'[t] = cred[p] /\ active'[t] # 0
      /\ \A s \in Slots \ {t} : active'[s] = active[s]
  BY <1>1, <1>2, <1>3
<1>6. ProvisioningTypeOK' /\ UsableModels'
  <2> HIDE DEF t
  <2>1. active' \in [Slots -> Nat] /\ \A s \in Slots : active'[s] <= Len(rows[s])
    BY <1>1, <1>2, <1>3, <1>5
  <2>2. \A s \in Slots : active[s] # 0 => active'[s] # 0
    BY <1>5
  <2> QED BY <1>1, <1>4, <2>1, <2>2 DEF UsableModels
<1>7. Slot(p)' = t /\ Current(p)' = Current(p) /\ at'[p] = "enable"
  BY <1>1 DEF Slot, Current
<1>8. KnowsSlot(p)'
  BY <1>1, <1>2, <1>5, <1>7 DEF KnowsSlot
<1> QED BY <1>1, <1>2, <1>4, <1>5, <1>6, <1>8, WithinEntry DEF InWork, ServiceCalls
-----------------------------------------------------------------------------
(* The end of an entry.                                                    *)

(* A prefix grows by an entry, which is then the last of its slot.         *)
LEMMA PrefixGrows ==
    ASSUME NEW c, NEW n \in Nat, HaveLast(c, n)
    PROVE  HaveLast(c, n + 1)
<1>1. \A k \in 1..n : c[k].slot # c[n + 1].slot => (LastIn(c, n, k) <=> LastIn(c, n + 1, k))
  BY DEF LastIn
<1>2. LastIn(c, n + 1, n + 1)
  BY DEF LastIn
<1>3. ASSUME NEW i \in 1..n + 1
      PROVE  \E k \in 1..n + 1 : LastIn(c, n + 1, k) /\ c[k].slot = c[i].slot
  <2>1. CASE c[i].slot = c[n + 1].slot
    BY <1>2, <2>1
  <2>2. CASE c[i].slot # c[n + 1].slot
    <3>1. i \in 1..n
      BY <2>2
    <3>2. PICK k \in 1..n : LastIn(c, n, k) /\ c[k].slot = c[i].slot
      BY <3>1 DEF HaveLast
    <3> QED BY <1>1, <2>2, <3>2
  <2> QED BY <2>1, <2>2
<1> QED BY <1>3 DEF HaveLast

(* The defaults of a prefix that grows by an entry.                        *)
LEMMA DefaultsGrow ==
    ASSUME NEW c, NEW n \in Nat, NEW i \in 1..n, LastDefaultIn(c, n + 1, i)
    PROVE  /\ LastDefaultIn(c, n, i)
           /\ ~(c[n + 1].asDefault /\ TypeOf[c[n + 1].slot] = TypeOf[c[i].slot])
<1>1. n + 1 \in 1..n + 1 /\ ~(n + 1 <= i) /\ \A j \in 1..n : j \in 1..n + 1
  OBVIOUS
<1> QED BY <1>1 DEF LastDefaultIn

(* When an entry is finished its slot is in place, and if it is to be the  *)
(* default of its type, it is.                                             *)
LEMMA FinishEntry ==
    ASSUME ProvisioningIInv, NEW p \in Pods, at[p] \in InWork,
           at' = [at EXCEPT ![p] = "next"], todo' = [todo EXCEPT ![p] = Tail(todo[p])],
           UNCHANGED <<rows, active, cred, config, disabled>>,
           enabled' \in [Slots -> BOOLEAN], default' \in [ModelTypes -> Slots \cup {NoSlot}],
           \A s \in Slots \ {Slot(p)} : enabled'[s] = enabled[s],
           active[Slot(p)] # 0, rows[Slot(p)][active[Slot(p)]] = Current(p).secret,
           enabled'[Slot(p)],
           \A t \in ModelTypes :
              \/ default'[t] = default[t]
              \/ Current(p).asDefault /\ TypeOf[Slot(p)] = t,
           Current(p).asDefault => default'[TypeOf[Slot(p)]] = Slot(p),
           UsableModels'
    PROVE  ProvisioningIInv'
<1> USE DEF ProvisioningIInv, ProvisioningTypeOK
<1> DEFINE c == config[p]
           n == Finished(p)
           rest == Tail(todo[p])
           Now(e) == /\ active[e.slot] # 0 /\ rows[e.slot][active[e.slot]] = e.secret
                     /\ enabled'[e.slot]
<1>1. todo[p] # <<>> /\ RestOfConfig(p) /\ PrefixInPlace(p)
  BY DEF Progress, Loaded
<1>2. /\ Current(p) = todo[p][1] /\ Current(p) \in Entry /\ Slot(p) \in Slots
      /\ Len(todo[p]) \in Nat \ {0} /\ rest \in Seq(Entry)
      /\ Len(rest) = Len(todo[p]) - 1
      /\ \A i \in 1..Len(rest) : rest[i] = todo[p][i + 1]
  BY <1>1, CurrentEntry
<1>3. c \in Seq(Entry) /\ Len(c) \in Nat /\ n \in Nat /\ n + 1 \in 1..Len(c)
  BY <1>1, <1>2 DEF RestOfConfig, Finished
<1>4. todo'[p] = rest /\ config'[p] = c /\ at'[p] = "next" /\ "next" \in Points
  BY DEF Points
<1>5. Finished(p)' = n + 1
  BY <1>2, <1>3, <1>4 DEF Finished
<1>6. c[n + 1] = Current(p)
  BY <1>1, <1>2 DEF RestOfConfig
<1>7. ProvisioningTypeOK'
  <2>1. todo' \in [Pods -> Seq(Entry)] /\ at' \in [Pods -> Points]
    BY <1>2, <1>4
  <2> QED BY <2>1
<1>8. RestOfConfig(p)'
  <2>1. ASSUME NEW i \in 1..Len(rest) PROVE rest[i] = c[n + 1 + i]
    <3>1. rest[i] = todo[p][i + 1] /\ i + 1 \in 1..Len(todo[p])
      BY <1>2
    <3>2. todo[p][i + 1] = c[n + (i + 1)]
      BY <1>1, <3>1 DEF RestOfConfig
    <3>3. n + (i + 1) = n + 1 + i
      BY <1>3
    <3> QED BY <3>1, <3>2, <3>3
  <2>2. Len(rest) <= Len(c)
    BY <1>1, <1>2, <1>3 DEF RestOfConfig
  <2>3. \A i \in DOMAIN c : c[i].wellFormed
    BY <1>1 DEF RestOfConfig
  <2> HIDE DEF c, n, rest
  <2>4. (Len(todo[p]) <= Len(config[p]))'
    BY <1>4, <2>2
  <2>5. (\A i \in DOMAIN config[p] : config[p][i].wellFormed)'
    BY <1>4, <2>3
  <2>6. (\A i \in 1..Len(todo[p]) : todo[p][i] = config[p][Finished(p) + i])'
    BY <1>4, <1>5, <2>1
  <2> QED BY <2>4, <2>5, <2>6 DEF RestOfConfig
<1>9. PrefixInPlace(p)'
  <2>1. HaveLast(c, n + 1)
    BY <1>1, <1>3, PrefixGrows DEF PrefixInPlace
  <2>2. ASSUME NEW i \in 1..n + 1, LastIn(c, n + 1, i) PROVE Now(c[i])
    <3>1. CASE i = n + 1
      BY <1>6, <3>1 DEF Slot
    <3>2. CASE i # n + 1
      <4>1. i \in 1..n /\ LastIn(c, n, i) /\ c[i].slot # c[n + 1].slot
        BY <1>3, <2>2, <3>2 DEF LastIn
      <4>2. c[i].slot # Slot(p)
        BY <1>6, <4>1 DEF Slot
      <4>3. InPlace(c[i])
        BY <1>1, <4>1, <4>2 DEF PrefixInPlace
      <4>4. i \in 1..Len(c)
        BY <1>3, <4>1
      <4>5. c[i] \in Entry
        BY <1>3, <4>4, ElementOfSeq
      <4>6. c[i].slot \in Slots
        BY <4>5 DEF Entry
      <4> QED BY <4>2, <4>3, <4>6 DEF InPlace
    <3> QED BY <3>1, <3>2
  <2>3. ASSUME NEW i \in 1..n + 1, LastDefaultIn(c, n + 1, i)
        PROVE  default'[TypeOf[c[i].slot]] = c[i].slot
    <3>1. CASE i = n + 1
      BY <1>6, <2>3, <3>1 DEF LastDefaultIn, Slot
    <3>2. CASE i # n + 1
      <4>1. /\ i \in 1..n /\ LastDefaultIn(c, n, i)
            /\ ~(c[n + 1].asDefault /\ TypeOf[c[n + 1].slot] = TypeOf[c[i].slot])
        <5>1. i \in 1..n
          BY <1>3, <3>2
        <5> HIDE DEF c, n
        <5> QED BY <1>3, <2>3, <5>1, DefaultsGrow
      <4>2. default[TypeOf[c[i].slot]] = c[i].slot
        BY <1>1, <4>1 DEF PrefixInPlace
      <4>4. i \in 1..Len(c)
        BY <1>3, <4>1
      <4>5. c[i] \in Entry
        BY <1>3, <4>4, ElementOfSeq
      <4>6. TypeOf[c[i].slot] \in ModelTypes
        BY <4>5, ProvisioningAssumption DEF Entry
      <4> QED BY <1>6, <4>1, <4>2, <4>6 DEF Slot
    <3> QED BY <3>1, <3>2
  <2> HIDE DEF c, n, rest
  <2>4. HaveLast(config[p], Finished(p))'
    BY <1>4, <1>5, <2>1 DEF HaveLast, LastIn
  <2>5. ASSUME NEW i \in 1..n + 1
        PROVE  /\ LastIn(config[p], Finished(p), i)' => InPlace(config[p][i])'
               /\ LastDefaultIn(config[p], Finished(p), i)' =>
                     (default[TypeOf[config[p][i].slot]] = config[p][i].slot)'
    <3>1. LastIn(config[p], Finished(p), i)' => LastIn(c, n + 1, i)
      BY <1>4, <1>5 DEF LastIn
    <3>2. LastDefaultIn(config[p], Finished(p), i)' => LastDefaultIn(c, n + 1, i)
      BY <1>4, <1>5 DEF LastDefaultIn
    <3> QED BY <1>4, <2>2, <2>3, <3>1, <3>2 DEF InPlace
  <2> QED BY <1>5, <2>4, <2>5 DEF PrefixInPlace
<1>10. Progress(p)'
  BY <1>4, <1>8, <1>9 DEF Progress, KnowsSlot, InWork, ServiceCalls
<1>11. at[p] # "idle"
  BY DEF InWork, ServiceCalls
<1> QED BY <1>4, <1>7, <1>10, <1>11, OnlyInside

(* The model is enabled; the entry is finished, or is to be the default.   *)
LEMMA EnableIInv ==
    ASSUME ProvisioningIInv, NEW p \in Pods, EnableModel(p) PROVE ProvisioningIInv'
<1> USE DEF ProvisioningIInv, ProvisioningTypeOK
<1> DEFINE t == Slot(p)
<1>1. /\ at[p] = "enable" /\ enabled' = [enabled EXCEPT ![t] = TRUE]
      /\ UNCHANGED <<rows, active, default, cred, config, disabled>>
  BY DEF EnableModel
<1>2. /\ todo[p] # <<>> /\ cred[p] \in 1..Len(rows[t])
      /\ rows[t][cred[p]] = Current(p).secret /\ active[t] = cred[p]
  BY <1>1 DEF Progress, KnowsSlot, InWork, ServiceCalls
<1>3. t \in Slots
  BY <1>2, CurrentEntry
<1>4. active[t] # 0 /\ rows[t][active[t]] = Current(p).secret
  BY <1>2, <1>3
<1>5. /\ enabled' \in [Slots -> BOOLEAN] /\ enabled'[t]
      /\ \A s \in Slots \ {t} : enabled'[s] = enabled[s]
  BY <1>1, <1>3
<1>6. UsableModels'
  <2>1. ASSUME NEW s \in Slots, enabled'[s] PROVE active[s] # 0
    BY <1>4, <1>5, <2>1 DEF UsableModels
  <2>2. ASSUME NEW s \in Slots, enabled[s] PROVE enabled'[s]
    BY <1>5, <2>2
  <2> QED BY <1>1, <2>1, <2>2 DEF UsableModels
<1>7. CASE Current(p).asDefault
  <2>1. at' = [at EXCEPT ![p] = "default"] /\ UNCHANGED todo
    BY <1>7 DEF EnableModel
  <2>2. "default" \in InWork /\ "default" \in Points
    BY DEF InWork, ServiceCalls, Points
  <2>3. ProvisioningTypeOK'
    BY <1>1, <1>5, <2>1, <2>2
  <2>4. Slot(p)' = t /\ Current(p)' = Current(p) /\ at'[p] = "default"
    BY <2>1 DEF Slot, Current
  <2>5. KnowsSlot(p)'
    BY <1>1, <1>2, <1>5, <1>7, <2>4 DEF KnowsSlot
  <2> QED BY <1>1, <1>2, <1>5, <1>6, <2>1, <2>2, <2>3, <2>5, WithinEntry DEF InWork, ServiceCalls
<1>8. CASE ~Current(p).asDefault
  <2>1. at' = [at EXCEPT ![p] = "next"] /\ todo' = [todo EXCEPT ![p] = Tail(todo[p])]
    BY <1>8 DEF EnableModel
  <2>2. default' \in [ModelTypes -> Slots \cup {NoSlot}]
    BY <1>1
  <2>3. at[p] \in InWork
    BY <1>1 DEF InWork, ServiceCalls
  <2> QED BY <1>1, <1>4, <1>5, <1>6, <1>8, <2>1, <2>2, <2>3, FinishEntry
<1> QED BY <1>7, <1>8

(* The model becomes its type's default, whatever that was.                *)
LEMMA DefaultIInv ==
    ASSUME ProvisioningIInv, NEW p \in Pods, SetDefault(p) PROVE ProvisioningIInv'
<1> USE DEF ProvisioningIInv, ProvisioningTypeOK
<1> DEFINE s == Slot(p)
<1>1. /\ at[p] = "default" /\ default' = [default EXCEPT ![TypeOf[s]] = s]
      /\ at' = [at EXCEPT ![p] = "next"] /\ todo' = [todo EXCEPT ![p] = Tail(todo[p])]
      /\ UNCHANGED <<rows, active, enabled, cred, config, disabled>>
  BY DEF SetDefault
<1>2. /\ todo[p] # <<>> /\ cred[p] \in 1..Len(rows[s])
      /\ rows[s][cred[p]] = Current(p).secret /\ active[s] = cred[p]
      /\ enabled[s] /\ Current(p).asDefault
  BY <1>1 DEF Progress, KnowsSlot, InWork, ServiceCalls
<1>3. s \in Slots
  BY <1>2, CurrentEntry
<1>4. TypeOf[s] \in ModelTypes
  BY <1>3, ProvisioningAssumption
<1>5. active[s] # 0 /\ rows[s][active[s]] = Current(p).secret
  BY <1>2, <1>3
<1>6. /\ default' \in [ModelTypes -> Slots \cup {NoSlot}] /\ default'[TypeOf[s]] = s
      /\ \A t \in ModelTypes : TypeOf[s] # t => default'[t] = default[t]
  <2> HIDE DEF s
  <2> QED BY <1>1, <1>3, <1>4
<1>7. UsableModels'
  BY <1>1, <1>2, <1>6 DEF UsableModels
<1>8. at[p] \in InWork /\ enabled' \in [Slots -> BOOLEAN]
  BY <1>1 DEF InWork, ServiceCalls
<1> QED BY <1>1, <1>2, <1>5, <1>6, <1>7, <1>8, FinishEntry
-----------------------------------------------------------------------------
(* Every step of every run, and every kill, preserves the invariant.       *)
LEMMA ProvisioningPreserved ==
    ASSUME ProvisioningIInv, [OneByOneNext]_provisioningVars PROVE ProvisioningIInv'
<1>1. ASSUME NEW p \in Pods, ProvisionStep(p) PROVE ProvisioningIInv'
  BY <1>1, LoadIInv, NextEntryIInv, NoMoreIInv, UpdateIInv, CreateIInv, ResolveCreatedIInv,
     AddIInv, EnableIInv, DefaultIInv DEF ProvisionStep
<1>2. ASSUME NEW p \in Pods, ProvisionRaises(p) \/ EndProvisioning(p) \/ Kill(p)
      PROVE  ProvisioningIInv'
  <2>1. Forget(p) /\ UNCHANGED store
    BY <1>2 DEF ProvisionRaises, LoadRefused, Unresolved, ServiceRaises, EndProvisioning, Kill
  <2> QED BY <2>1, EndsIInv
<1>3. ASSUME NEW p \in Pods, BeginAlone(p) PROVE ProvisioningIInv'
  BY <1>3, BeginIInv
<1>4. CASE UNCHANGED provisioningVars
  <2>1. UNCHANGED store /\ UNCHANGED progress
    BY <1>4 DEF provisioningVars
  <2>2. \A p \in Pods : Progress(p)'
    BY <2>1, SameProgress DEF ProvisioningIInv, progress
  <2> QED BY <2>1, <2>2 DEF ProvisioningIInv, ProvisioningTypeOK,
                            UsableModels, Alone, store, progress
<1> QED BY <1>1, <1>2, <1>3, <1>4 DEF OneByOneNext, Run

(* What a run has finished is in place, and it knows its slot.             *)
THEOREM ProvisioningInvariance == OneByOne => []ProvisioningIInv
BY ProvisioningInitIInv, ProvisioningPreserved, PTL DEF OneByOne

(* A step of the store is a call of the run inside, on its slot.           *)
LEMMA RunUpserts ==
    ASSUME ProvisioningIInv, NEW p \in Pods, ProvisionStep(p), NEW s \in Slots
    PROVE  /\ s \notin Unmatched /\ rows[s] # <<>> => Len(rows'[s]) = Len(rows[s])
           /\ active[s] # 0 =>
                 /\ active'[s] = active[s]
                 /\ \A i \in DOMAIN rows[s] \ {active[s]} : rows'[s][i] = rows[s][i]
<1> USE DEF ProvisioningIInv, ProvisioningTypeOK
<1>1. rows[s] \in Seq(Secrets) /\ active[s] \in 0..Len(rows[s])
  OBVIOUS
<1>2. CASE UNCHANGED <<rows, active>>
  BY <1>2
<1>3. CASE UpdateCredential(p)
  <2> DEFINE t == Slot(p)
  <2>1. /\ at[p] = "update" /\ UNCHANGED active
        /\ \/ rows' = [rows EXCEPT ![t] = [rows[t] EXCEPT ![cred[p]] = Current(p).secret]]
           \/ UNCHANGED rows
    BY <1>3 DEF UpdateCredential
  <2>2. cred[p] \in 1..Len(rows[t]) /\ (active[t] # 0 => cred[p] = active[t])
    BY <2>1 DEF Progress, KnowsSlot
  <2> QED BY <1>1, <2>1, <2>2
<1>4. CASE CreateCredential(p)
  <2> DEFINE t == Slot(p)
             new == Append(rows[t], Current(p).secret)
  <2>1. /\ at[p] = "create"
        /\ \/ /\ rows' = [rows EXCEPT ![t] = new]
              /\ \/ UNCHANGED active
                 \/ active[t] = 0 /\ active' = [active EXCEPT ![t] = Len(rows[t]) + 1]
           \/ UNCHANGED <<rows, active>>
    BY <1>4 DEF CreateCredential
  <2>2. todo[p] # <<>> /\ (t \notin Unmatched => Len(rows[t]) = 0)
    BY <2>1 DEF Progress, KnowsSlot, InWork, ServiceCalls
  <2>3. t \in Slots
    BY <2>2, CurrentEntry
  <2>4. CASE s # t
    BY <2>1, <2>4
  <2>5. CASE s = t
    <3>1. t \notin Unmatched => rows[t] = <<>> /\ active[t] = 0
      BY <1>1, <2>2, <2>5, EmptySeq
    <3>2. \A i \in DOMAIN rows[t] : new[i] = rows[t][i]
      BY <1>1, <2>5
    <3>3. rows'[t] = new \/ UNCHANGED rows
      BY <2>1, <2>3
    <3>4. active[t] # 0 => UNCHANGED active
      BY <2>1
    <3> HIDE DEF t, new
    <3> QED BY <2>5, <3>1, <3>2, <3>3, <3>4
  <2> QED BY <2>4, <2>5
<1>5. CASE AddToModelList(p)
  <2>1. /\ at[p] = "add" /\ UNCHANGED rows
        /\ active' = [active EXCEPT ![Slot(p)] = cred[p]]
    BY <1>5 DEF AddToModelList
  <2>2. active[Slot(p)] # 0 => cred[p] = active[Slot(p)]
    BY <2>1 DEF Progress, KnowsSlot
  <2> QED BY <2>1, <2>2
<1> QED BY <1>2, <1>3, <1>4, <1>5
        DEF ProvisionStep, Load, NextEntry, NoMoreCurrent, ResolveCreated, EnableModel,
            SetDefault, store

(* However many runs are cut off wherever: no rows pile up, and nothing a  *)
(* user has chosen is swapped for another credential.                      *)
THEOREM UpsertsStayInPlace == OneByOne => UpsertsInPlace
<1> DEFINE InPlaceStep ==
              \A s \in Slots :
                 /\ s \notin Unmatched /\ rows[s] # <<>> => Len(rows'[s]) = Len(rows[s])
                 /\ active[s] # 0 =>
                       /\ active'[s] = active[s]
                       /\ \A i \in DOMAIN rows[s] \ {active[s]} : rows'[s][i] = rows[s][i]
<1>1. ProvisioningIInv /\ [OneByOneNext]_provisioningVars => [InPlaceStep]_provisioningVars
  <2> SUFFICES ASSUME ProvisioningIInv, OneByOneNext PROVE InPlaceStep
    BY DEF provisioningVars
  <2>1. PICK p \in Pods : BeginAlone(p) \/ Run(p) \/ Kill(p)
    BY DEF OneByOneNext
  <2>2. CASE ProvisionStep(p)
    BY <2>2, RunUpserts
  <2>3. CASE ~ProvisionStep(p)
    BY <2>1, <2>3 DEF BeginAlone, BeginProvisioning, Run, ProvisionRaises, LoadRefused,
                      Unresolved, ServiceRaises, EndProvisioning, Kill, store
  <2> QED BY <2>2, <2>3
<1> QED BY <1>1, ProvisioningInvariance, PTL DEF OneByOne, UpsertsInPlace

(* The whole configuration is in place when all of it is finished.         *)
LEMMA PrefixApplied ==
    ASSUME ProvisioningIInv, NEW p \in Pods, at[p] = "complete"
    PROVE  Applied(config[p])
<1> DEFINE c == config[p]
<1>1. todo[p] = <<>> /\ PrefixInPlace(p) /\ at[p] \notin InWork
  BY DEF ProvisioningIInv, Progress, Loaded, InWork, ServiceCalls
<1>2. c \in Seq(Entry) /\ Len(c) \in Nat /\ DOMAIN c = 1..Len(c) /\ Finished(p) = Len(c)
  BY <1>1 DEF ProvisioningIInv, ProvisioningTypeOK, Finished
<1>3. /\ HaveLast(c, Len(c))
      /\ \A i \in 1..Len(c) :
            /\ LastIn(c, Len(c), i) => InPlace(c[i])
            /\ LastDefaultIn(c, Len(c), i) => default[TypeOf[c[i].slot]] = c[i].slot
  BY <1>1, <1>2 DEF PrefixInPlace
<1> HIDE DEF c
<1>4. ASSUME NEW s \in SlotsOf(c)
      PROVE  active[s] # 0 /\ rows[s][active[s]] = c[LastFor(c, s)].secret /\ enabled[s]
  <2> DEFINE IsLast(i) == c[i].slot = s /\ \A j \in DOMAIN c : c[j].slot = s => j <= i
  <2>1. PICK i \in 1..Len(c) : c[i].slot = s
    BY <1>2 DEF SlotsOf
  <2>2. PICK k \in 1..Len(c) : LastIn(c, Len(c), k) /\ c[k].slot = s
    BY <1>3, <2>1 DEF HaveLast
  <2>3. k \in DOMAIN c /\ IsLast(k)
    BY <1>2, <2>2 DEF LastIn
  <2>4. LastFor(c, s) = CHOOSE n \in DOMAIN c : IsLast(n)
    BY DEF LastFor
  <2> HIDE DEF IsLast
  <2>5. LastFor(c, s) \in DOMAIN c /\ IsLast(LastFor(c, s))
    BY <2>3, <2>4
  <2>6. LastFor(c, s) \in 1..Len(c) /\ LastIn(c, Len(c), LastFor(c, s))
        /\ c[LastFor(c, s)].slot = s
    BY <1>2, <2>5 DEF IsLast, LastIn
  <2>7. InPlace(c[LastFor(c, s)])
    BY <1>3, <2>6
  <2> QED BY <2>6, <2>7 DEF InPlace
<1>5. ASSUME NEW t \in ModelTypes, NEW i \in DefaultsOf(c, t),
             \A j \in DefaultsOf(c, t) : j <= i
      PROVE  default[t] = c[i].slot
  <2>1. i \in 1..Len(c) /\ LastDefaultIn(c, Len(c), i) /\ TypeOf[c[i].slot] = t
    BY <1>2, <1>5 DEF DefaultsOf, LastDefaultIn
  <2> QED BY <1>3, <2>1
<1>6. Applied(c)
  BY <1>4, <1>5 DEF Applied
<1> QED BY <1>6 DEF c

(* A run that completes has its configuration in place, whatever earlier   *)
(* runs, with other configurations and cut off anywhere, have left.        *)
THEOREM CompletedIsApplied == OneByOne => []AppliedAtCompletion
<1>1. ProvisioningIInv => AppliedAtCompletion
  BY PrefixApplied DEF AppliedAtCompletion
<1> QED BY <1>1, ProvisioningInvariance, PTL
-----------------------------------------------------------------------------
(* Runs that interleave, as they may after a pod has lost the lock.  What  *)
(* other runs write to a slot, a run is not told of; but nothing is taken  *)
(* away that it relies on: credentials are never removed, a slot that has  *)
(* an active credential keeps one, an enabled model stays enabled.         *)
Grows ==
    \A s \in Slots :
       /\ Len(rows[s]) <= Len(rows'[s])
       /\ active[s] # 0 => active'[s] # 0
       /\ enabled[s] => enabled'[s]

(* What a run knows however many others there are.                         *)
RunKnows(p) ==
    /\ \A i \in DOMAIN config[p] : config[p][i].wellFormed
    /\ at[p] \in InWork => todo[p] # <<>>
    /\ at[p] \in {"update", "add", "enable", "default"} => cred[p] \in 1..Len(rows[Slot(p)])
    /\ at[p] \in {"enable", "default"} => active[Slot(p)] # 0
    /\ at[p] = "default" => enabled[Slot(p)]

(* The inductive invariant of interleaved runs.                            *)
InterleavedIInv ==
    /\ ProvisioningTypeOK
    /\ UsableModels
    /\ \A p \in Pods : RunKnows(p)

(* A sound store, and no run yet.                                          *)
LEMMA InterleavedInit == ProvisioningInit => InterleavedIInv
BY StoresSound DEF ProvisioningInit, InterleavedIInv, ProvisioningTypeOK, RunKnows, InWork,
                   ServiceCalls

(* A step of one run: its own facts and those of the store are enough.     *)
LEMMA OthersKnow ==
    ASSUME InterleavedIInv, NEW p \in Pods, ProvisioningTypeOK', UsableModels', Grows,
           RunKnows(p)',
           \A q \in Pods \ {p} :
              at'[q] = at[q] /\ todo'[q] = todo[q] /\ cred'[q] = cred[q] /\ config'[q] = config[q]
    PROVE  InterleavedIInv'
<1>1. ASSUME NEW q \in Pods \ {p} PROVE RunKnows(q)'
  <2>1. /\ at'[q] = at[q] /\ todo'[q] = todo[q] /\ cred'[q] = cred[q]
        /\ config'[q] = config[q] /\ Slot(q)' = Slot(q) /\ RunKnows(q)
    BY DEF InterleavedIInv, Slot, Current
  <2>2. CASE at[q] \in InWork
    <3>1. Slot(q) \in Slots
      BY <2>1, <2>2, CurrentEntry DEF InterleavedIInv, RunKnows
    <3>2. Len(rows[Slot(q)]) \in Nat /\ Len(rows'[Slot(q)]) \in Nat
      BY <3>1 DEF InterleavedIInv, ProvisioningTypeOK
    <3> QED BY <2>1, <3>1, <3>2 DEF RunKnows, Grows
  <2>3. CASE at[q] \notin InWork
    BY <2>1, <2>3 DEF RunKnows, InWork, ServiceCalls
  <2> QED BY <2>2, <2>3
<1> QED BY <1>1 DEF InterleavedIInv

(* A step that leaves the store alone and ends at a point of no claims.    *)
LEMMA UnclaimedInterleaved ==
    ASSUME InterleavedIInv, NEW p \in Pods, UNCHANGED store,
           NEW s \in {"idle", "load", "next", "complete"}, at' = [at EXCEPT ![p] = s],
           NEW t \in Seq(Entry), todo' = [todo EXCEPT ![p] = t],
           NEW i \in Nat, cred' = [cred EXCEPT ![p] = i],
           NEW c \in Seq(Entry), config' = [config EXCEPT ![p] = c],
           \A n \in DOMAIN c : c[n].wellFormed,
           NEW d \in SUBSET Slots, disabled' = [disabled EXCEPT ![p] = d]
    PROVE  InterleavedIInv'
<1> USE DEF InterleavedIInv, ProvisioningTypeOK
<1>1. s \in Points
  BY DEF Points
<1>2. ProvisioningTypeOK' /\ UsableModels' /\ Grows
  BY <1>1 DEF store, UsableModels, Grows
<1>3. at'[p] = s /\ config'[p] = c
  OBVIOUS
<1>4. RunKnows(p)'
  BY <1>3 DEF RunKnows, InWork, ServiceCalls
<1> QED BY <1>2, <1>4, OthersKnow

(* A run that ends, in whatever way.                                       *)
LEMMA EndsInterleaved ==
    ASSUME InterleavedIInv, NEW p \in Pods, Forget(p), UNCHANGED store
    PROVE  InterleavedIInv'
<1>1. <<>> \in Seq(Entry) /\ 0 \in Nat /\ {} \in SUBSET Slots
  OBVIOUS
<1>2. \A n \in DOMAIN <<>> : <<>>[n].wellFormed
  OBVIOUS
<1> QED BY <1>1, <1>2, UnclaimedInterleaved DEF Forget

(* The steps between the entries.                                          *)
LEMMA BetweenInterleaved ==
    ASSUME InterleavedIInv, NEW p \in Pods,
           BeginProvisioning(p) \/ Load(p) \/ NoMoreCurrent(p)
    PROVE  InterleavedIInv'
<1> USE DEF InterleavedIInv, ProvisioningTypeOK
<1>k. /\ todo[p] \in Seq(Entry) /\ cred[p] \in Nat /\ config[p] \in Seq(Entry)
      /\ disabled[p] \in SUBSET Slots /\ \A n \in DOMAIN config[p] : config[p][n].wellFormed
  BY DEF RunKnows
<1>s. /\ todo = [todo EXCEPT ![p] = todo[p]] /\ cred = [cred EXCEPT ![p] = cred[p]]
      /\ config = [config EXCEPT ![p] = config[p]]
      /\ disabled = [disabled EXCEPT ![p] = disabled[p]]
  OBVIOUS
<1>1. CASE BeginProvisioning(p) \/ NoMoreCurrent(p)
  <2>1. /\ \E s \in {"load", "complete"} : at' = [at EXCEPT ![p] = s]
        /\ UNCHANGED <<store, todo, cred, config, disabled>>
    BY <1>1 DEF BeginProvisioning, NoMoreCurrent
  <2> HIDE DEF InterleavedIInv, ProvisioningTypeOK
  <2> QED BY <1>k, <1>s, <2>1, UnclaimedInterleaved
<1>2. CASE Load(p)
  <2>1. PICK c \in Configs, d \in Settings :
           /\ d # Unparsable /\ Accepted(c)
           /\ todo' = [todo EXCEPT ![p] = c] /\ config' = [config EXCEPT ![p] = c]
           /\ disabled' = [disabled EXCEPT ![p] = d]
    BY <1>2 DEF Load
  <2>2. c \in Seq(Entry) /\ d \in SUBSET Slots /\ \A n \in DOMAIN c : c[n].wellFormed
    BY <2>1, ProvisioningAssumption DEF Accepted
  <2>3. at' = [at EXCEPT ![p] = "next"] /\ UNCHANGED <<store, cred>>
    BY <1>2 DEF Load
  <2> HIDE DEF InterleavedIInv, ProvisioningTypeOK
  <2> QED BY <1>k, <1>s, <2>1, <2>2, <2>3, UnclaimedInterleaved
<1> QED BY <1>1, <1>2

(* A slot's credential is looked up: before an entry, and after a create.  *)
LEMMA ResolvesInterleaved ==
    ASSUME InterleavedIInv, NEW p \in Pods, NextEntry(p) \/ ResolveCreated(p)
    PROVE  InterleavedIInv'
<1> USE DEF InterleavedIInv, ProvisioningTypeOK
<1> DEFINE id == ResolveCredentialId(Slot(p))
<1>1. /\ todo[p] # <<>> /\ cred' = [cred EXCEPT ![p] = id]
      /\ UNCHANGED <<store, todo, config, disabled>>
      /\ \E s \in {"update", "create", "add"} :
            at' = [at EXCEPT ![p] = s] /\ (s # "create" => id # 0)
  BY DEF NextEntry, ResolveCreated, RunKnows, InWork
<1>2. id \in 0..Len(rows[Slot(p)]) /\ Len(rows[Slot(p)]) \in Nat
  BY <1>1, CurrentEntry, ResolvedId
<1> HIDE DEF id
<1>3. ProvisioningTypeOK' /\ UsableModels' /\ Grows
  BY <1>1, <1>2 DEF Points, ServiceCalls, store, UsableModels, Grows
<1>4. Slot(p)' = Slot(p) /\ cred'[p] = id /\ at'[p] \in {"update", "create", "add"}
  BY <1>1 DEF Slot, Current
<1>5. RunKnows(p)'
  BY <1>1, <1>2, <1>4 DEF RunKnows, store
<1> QED BY <1>1, <1>3, <1>5, OthersKnow

(* The calls that write the rows of a slot.                                *)
LEMMA RowsInterleaved ==
    ASSUME InterleavedIInv, NEW p \in Pods, UpdateCredential(p) \/ CreateCredential(p)
    PROVE  InterleavedIInv'
<1> USE DEF InterleavedIInv, ProvisioningTypeOK
<1> DEFINE t == Slot(p)
           secret == Current(p).secret
<1>1. /\ at[p] \in {"update", "create"} /\ todo[p] # <<>>
      /\ UNCHANGED <<enabled, default, todo, cred, config, disabled>>
      /\ \E s \in {"add", "resolve"} : /\ at' = [at EXCEPT ![p] = s]
                                       /\ s = "add" <=> at[p] = "update"
      /\ at[p] = "update" => cred[p] \in 1..Len(rows[t])
  BY DEF UpdateCredential, CreateCredential, RunKnows, InWork, ServiceCalls
<1>2. t \in Slots /\ secret \in Secrets
  BY <1>1, CurrentEntry
<1>3. rows[t] \in Seq(Secrets) /\ Len(rows[t]) \in Nat /\ active[t] \in 0..Len(rows[t])
  BY <1>2
<1> DEFINE Grown ==
             /\ rows' \in [Slots -> Seq(Secrets)] /\ active' \in [Slots -> Nat]
             /\ \A s \in Slots \ {t} : rows'[s] = rows[s] /\ active'[s] = active[s]
             /\ Len(rows[t]) <= Len(rows'[t]) /\ active'[t] <= Len(rows'[t])
             /\ active[t] # 0 => active'[t] # 0
<1>4. Grown
  <2>1. CASE UNCHANGED <<rows, active>>
    BY <1>3, <2>1
  <2>2. ASSUME UpdateCredential(p), rows' # rows PROVE Grown
    <3> DEFINE new == [rows[t] EXCEPT ![cred[p]] = secret]
    <3>1. /\ active' = active /\ cred[p] \in 1..Len(rows[t])
          /\ rows' = [rows EXCEPT ![t] = new]
      BY <1>1, <2>2 DEF UpdateCredential
    <3>2. new \in Seq(Secrets) /\ Len(new) = Len(rows[t])
      BY <1>2, <1>3, <3>1, ExceptSeq
    <3> HIDE DEF new, t, secret
    <3> QED BY <1>2, <1>3, <3>1, <3>2
  <2>3. ASSUME CreateCredential(p), UNCHANGED <<rows, active>> => FALSE PROVE Grown
    <3> DEFINE new == Append(rows[t], secret)
    <3>1. /\ rows' = [rows EXCEPT ![t] = new]
          /\ \/ UNCHANGED active
             \/ active' = [active EXCEPT ![t] = Len(rows[t]) + 1]
      BY <2>3 DEF CreateCredential
    <3>2. new \in Seq(Secrets) /\ Len(new) = Len(rows[t]) + 1
      BY <1>2, <1>3
    <3> HIDE DEF new, t, secret
    <3>3. rows' \in [Slots -> Seq(Secrets)] /\ rows'[t] = new
      BY <1>2, <3>1, <3>2
    <3>4. CASE UNCHANGED active
      BY <1>2, <1>3, <3>1, <3>2, <3>3, <3>4
    <3>5. CASE active' = [active EXCEPT ![t] = Len(rows[t]) + 1]
      BY <1>2, <1>3, <3>1, <3>2, <3>3, <3>5
    <3> QED BY <3>1, <3>4, <3>5
  <2> QED BY <2>1, <2>2, <2>3 DEF UpdateCredential
<1> HIDE DEF t, secret
<1>6. ProvisioningTypeOK' /\ UsableModels' /\ Grows
  <2>1. /\ \A s \in Slots : active'[s] <= Len(rows'[s]) /\ (active[s] # 0 => active'[s] # 0)
        /\ Grows
    BY <1>1, <1>4 DEF Grows
  <2>2. at' \in [Pods -> Points]
    BY <1>1 DEF Points, ServiceCalls
  <2> QED BY <1>1, <1>4, <2>1, <2>2 DEF UsableModels
<1>7. Slot(p)' = t /\ at'[p] \in {"add", "resolve"} /\ (at'[p] = "add" <=> at[p] = "update")
  BY <1>1 DEF Slot, Current, t
<1>8. RunKnows(p)'
  BY <1>1, <1>2, <1>3, <1>4, <1>7 DEF RunKnows
<1> QED BY <1>1, <1>6, <1>8, OthersKnow

(* The calls that choose, enable and prefer a model.                       *)
LEMMA ModelInterleaved ==
    ASSUME InterleavedIInv, NEW p \in Pods,
           AddToModelList(p) \/ EnableModel(p) \/ SetDefault(p)
    PROVE  InterleavedIInv'
<1> USE DEF InterleavedIInv, ProvisioningTypeOK
<1> DEFINE t == Slot(p)
<1>1. /\ at[p] \in {"add", "enable", "default"} /\ todo[p] # <<>>
      /\ cred[p] \in 1..Len(rows[t]) /\ UNCHANGED <<rows, cred, config, disabled>>
  BY DEF AddToModelList, EnableModel, SetDefault, RunKnows, InWork, ServiceCalls
<1>2. t \in Slots /\ Tail(todo[p]) \in Seq(Entry)
  BY <1>1, CurrentEntry
<1>3. TypeOf[t] \in ModelTypes /\ Len(rows[t]) \in Nat
  BY <1>2, ProvisioningAssumption
<1>4. CASE AddToModelList(p)
  <2>1. /\ at' = [at EXCEPT ![p] = "enable"] /\ active' = [active EXCEPT ![t] = cred[p]]
        /\ UNCHANGED <<rows, enabled, default, todo, cred, config, disabled>>
    BY <1>4 DEF AddToModelList
  <2>2. Slot(p)' = t /\ at'[p] = "enable"
    BY <2>1 DEF Slot, Current
  <2> HIDE DEF t
  <2>3. active'[t] = cred[p] /\ \A s \in Slots \ {t} : active'[s] = active[s]
    BY <1>2, <2>1
  <2>4. ProvisioningTypeOK' /\ UsableModels' /\ Grows
    BY <1>1, <1>2, <1>3, <2>1, <2>3 DEF Points, ServiceCalls, UsableModels, Grows
  <2>5. RunKnows(p)'
    BY <1>1, <1>2, <2>1, <2>2, <2>3 DEF RunKnows
  <2> QED BY <2>1, <2>4, <2>5, OthersKnow
<1>5. CASE EnableModel(p)
  <2>1. /\ enabled' = [enabled EXCEPT ![t] = TRUE]
        /\ UNCHANGED <<rows, active, default, cred, config, disabled>>
        /\ \/ at' = [at EXCEPT ![p] = "default"] /\ UNCHANGED todo
           \/ /\ at' = [at EXCEPT ![p] = "next"]
              /\ todo' = [todo EXCEPT ![p] = Tail(todo[p])]
    BY <1>5 DEF EnableModel
  <2>2. active[t] # 0
    BY <1>5 DEF EnableModel, RunKnows
  <2>3. todo' = todo => Slot(p)' = t
    BY DEF Slot, Current
  <2> HIDE DEF t
  <2>4. /\ enabled' \in [Slots -> BOOLEAN] /\ enabled'[t]
        /\ \A s \in Slots \ {t} : enabled'[s] = enabled[s]
    BY <1>2, <2>1
  <2>5. UsableModels' /\ Grows
    BY <1>2, <2>1, <2>2, <2>4 DEF UsableModels, Grows
  <2>6. ProvisioningTypeOK'
    BY <1>2, <2>1, <2>4 DEF Points, ServiceCalls
  <2>7. RunKnows(p)'
    BY <1>1, <1>2, <2>1, <2>2, <2>3, <2>4 DEF RunKnows, InWork, ServiceCalls
  <2> QED BY <2>1, <2>5, <2>6, <2>7, OthersKnow
<1>6. CASE SetDefault(p)
  <2>1. /\ default' = [default EXCEPT ![TypeOf[t]] = t] /\ at' = [at EXCEPT ![p] = "next"]
        /\ todo' = [todo EXCEPT ![p] = Tail(todo[p])]
        /\ UNCHANGED <<rows, active, enabled, cred, config, disabled>>
    BY <1>6 DEF SetDefault
  <2>2. enabled[t]
    BY <1>6 DEF SetDefault, RunKnows
  <2> HIDE DEF t
  <2>3. ProvisioningTypeOK' /\ UsableModels' /\ Grows
    BY <1>2, <1>3, <2>1, <2>2 DEF Points, UsableModels, Grows
  <2>4. RunKnows(p)'
    BY <2>1 DEF RunKnows, InWork, ServiceCalls
  <2> QED BY <2>1, <2>3, <2>4, OthersKnow
<1> QED BY <1>4, <1>5, <1>6

(* Every step of every run, in whatever order the runs take them.          *)
LEMMA InterleavedPreserved ==
    ASSUME InterleavedIInv, [AnyOrderNext]_provisioningVars PROVE InterleavedIInv'
<1>1. ASSUME NEW p \in Pods, ProvisionStep(p) \/ BeginProvisioning(p) PROVE InterleavedIInv'
  BY <1>1, BetweenInterleaved, ResolvesInterleaved, RowsInterleaved, ModelInterleaved
     DEF ProvisionStep
<1>2. ASSUME NEW p \in Pods, ProvisionRaises(p) \/ EndProvisioning(p) \/ Kill(p)
      PROVE  InterleavedIInv'
  <2>1. Forget(p) /\ UNCHANGED store
    BY <1>2 DEF ProvisionRaises, LoadRefused, Unresolved, ServiceRaises, EndProvisioning, Kill
  <2> QED BY <2>1, EndsInterleaved
<1>3. CASE UNCHANGED provisioningVars
  BY <1>3 DEF provisioningVars, store, progress, InterleavedIInv, ProvisioningTypeOK,
              UsableModels, RunKnows, Slot, Current
<1> QED BY <1>1, <1>2, <1>3 DEF AnyOrderNext, Run

(* What a run relies on besides its own locals is not taken from it.       *)
THEOREM InterleavedInvariance == AnyOrder => []InterleavedIInv
BY InterleavedInit, InterleavedPreserved, PTL DEF AnyOrder

(* Stores and locals keep their types; an active id is that of a row, also *)
(* when other runs write to the same slot.                                 *)
THEOREM ProvisioningTyping == AnyOrder => []ProvisioningTypeOK
<1>1. InterleavedIInv => ProvisioningTypeOK
  BY DEF InterleavedIInv
<1> QED BY <1>1, InterleavedInvariance, PTL

(* No model may be used without a credential, no default is unusable, also *)
(* between the calls of runs that interleave.                              *)
THEOREM ModelsUsable == AnyOrder => []UsableModels
<1>1. InterleavedIInv => UsableModels
  BY DEF InterleavedIInv
<1> QED BY <1>1, InterleavedInvariance, PTL

(* The run that writes has looked at the whole of its configuration,       *)
(* whatever others are doing.                                              *)
THEOREM OnlyValidatedWritten == AnyOrder => WritesOnlyValidated
<1>1. InterleavedIInv /\ [AnyOrderNext]_provisioningVars =>
         [store' # store =>
            \E p \in Pods :
               /\ at[p] \in ServiceCalls /\ at'[p] # at[p]
               /\ \A q \in Pods \ {p} : at'[q] = at[q]
               /\ \A i \in DOMAIN config[p] : config[p][i].wellFormed]_provisioningVars
  <2> SUFFICES ASSUME InterleavedIInv, [AnyOrderNext]_provisioningVars, store' # store
               PROVE  \E p \in Pods :
                         /\ at[p] \in ServiceCalls /\ at'[p] # at[p]
                         /\ \A q \in Pods \ {p} : at'[q] = at[q]
                         /\ \A i \in DOMAIN config[p] : config[p][i].wellFormed
    OBVIOUS
  <2>1. PICK p \in Pods : ProvisionStep(p)
    <3>1. \A q \in Pods : ~BeginProvisioning(q) /\ ~Kill(q)
      BY DEF BeginProvisioning, Kill, Forget
    <3>2. \A q \in Pods : ~ProvisionRaises(q) /\ ~EndProvisioning(q)
      BY DEF ProvisionRaises, LoadRefused, Unresolved, ServiceRaises, EndProvisioning
    <3> QED BY <3>1, <3>2 DEF AnyOrderNext, Run, provisioningVars, store
  <2>2. \/ UpdateCredential(p) \/ CreateCredential(p) \/ AddToModelList(p)
        \/ EnableModel(p) \/ SetDefault(p)
    BY <2>1 DEF ProvisionStep, Load, NextEntry, NoMoreCurrent, ResolveCreated
  <2>3. /\ at[p] \in ServiceCalls
        /\ \E s \in Points : s # at[p] /\ at' = [at EXCEPT ![p] = s]
    BY <2>2 DEF UpdateCredential, CreateCredential, AddToModelList, EnableModel, SetDefault,
                ServiceCalls, Points
  <2>4. at'[p] # at[p] /\ \A q \in Pods \ {p} : at'[q] = at[q]
    BY <2>3 DEF InterleavedIInv, ProvisioningTypeOK
  <2> QED BY <2>3, <2>4 DEF InterleavedIInv, RunKnows
<1> QED BY <1>1, InterleavedInit, InterleavedPreserved, PTL
        DEF AnyOrder, WritesOnlyValidated

(* One run after the other is one of the orders.                           *)
THEOREM SerialIsAnOrder == OneByOne => AnyOrder
<1>1. [OneByOneNext]_provisioningVars => [AnyOrderNext]_provisioningVars
  BY DEF OneByOneNext, AnyOrderNext, BeginAlone
<1> QED BY <1>1, PTL DEF OneByOne, AnyOrder
-----------------------------------------------------------------------------
(* How many steps a run has ahead of it at most, once its configuration is *)
(* loaded: at most six for an entry, one to see the end of the list and    *)
(* one to leave.                                                           *)
InEntry(point) ==
    CASE point = "next"                -> 7
      [] point = "create"              -> 6
      [] point \in {"update", "resolve"} -> 5
      [] point = "add"                 -> 4
      [] point = "enable"              -> 3
      [] point = "default"             -> 2
      [] point = "complete"            -> 1
      [] OTHER                         -> 0

StepsLeft(p) == 6 * Len(todo[p]) + InEntry(at[p])

(* Whatever order the calls of several runs are in, and whatever the       *)
(* service answers, each step of a run brings it nearer to its end.        *)
LEMMA RunGoesForward ==
    ASSUME InterleavedIInv, NEW p \in Pods, at[p] \in Loaded, Run(p)
    PROVE  /\ StepsLeft(p) \in Nat /\ StepsLeft(p)' \in Nat
           /\ StepsLeft(p)' < StepsLeft(p)
<1> DEFINE n == Len(todo[p])
           n2 == Len(todo'[p])
<1>1. todo[p] \in Seq(Entry) /\ n \in Nat /\ (todo[p] # <<>> => n > 0)
  BY EmptySeq DEF InterleavedIInv, ProvisioningTypeOK
<1>2. at[p] \in InWork => n > 0
  BY <1>1 DEF InterleavedIInv, RunKnows
<1> USE DEF InterleavedIInv, ProvisioningTypeOK
<1>3. CASE Forget(p)
  <2>1. at'[p] = "idle" /\ n2 = 0
    BY <1>3 DEF Forget, Goto
  <2>2. InEntry(at'[p]) = 0 /\ InEntry(at[p]) \in 1 .. 7
    BY <2>1 DEF InEntry, Loaded, InWork, ServiceCalls
  <2> HIDE DEF InterleavedIInv, ProvisioningTypeOK, n, n2
  <2>3. StepsLeft(p) = 6 * n + InEntry(at[p]) /\ StepsLeft(p)' = 6 * n2 + InEntry(at'[p])
    BY DEF StepsLeft, InEntry, n, n2
  <2> QED BY <1>1, <2>1, <2>2, <2>3
<1>4. CASE ProvisionStep(p)
  <2>1. \/ n2 = n /\ \/ at[p] = "next" /\ at'[p] \in {"update", "create", "complete"}
                     \/ at[p] = "update" /\ at'[p] = "add"
                     \/ at[p] = "create" /\ at'[p] = "resolve"
                     \/ at[p] = "resolve" /\ at'[p] = "add"
                     \/ at[p] = "add" /\ at'[p] = "enable"
                     \/ at[p] = "enable" /\ at'[p] = "default"
        \/ /\ at[p] \in {"enable", "default"} /\ at'[p] = "next"
           /\ todo'[p] = Tail(todo[p])
    BY <1>4 DEF ProvisionStep, Load, NextEntry, NoMoreCurrent, UpdateCredential,
                CreateCredential, ResolveCreated, AddToModelList, EnableModel, SetDefault,
                Goto, Loaded, InWork, ServiceCalls
  <2>2. todo'[p] = Tail(todo[p]) /\ n > 0 => n2 = n - 1
    BY <1>1
  <2> HIDE DEF InterleavedIInv, ProvisioningTypeOK, n, n2
  <2>3. StepsLeft(p) = 6 * n + InEntry(at[p]) /\ StepsLeft(p)' = 6 * n2 + InEntry(at'[p])
    BY DEF StepsLeft, InEntry, n, n2
  <2>4. CASE n2 = n
    <3>1. InEntry(at'[p]) \in Nat /\ InEntry(at[p]) \in Nat /\ InEntry(at'[p]) < InEntry(at[p])
      BY <2>1, <2>4, <1>2, <2>2, <1>1 DEF InEntry, InWork, ServiceCalls
    <3> QED BY <1>1, <2>3, <2>4, <3>1
  <2>5. CASE n2 # n
    <3>1. at[p] \in {"enable", "default"} /\ at'[p] = "next" /\ n2 = n - 1 /\ n > 0
      BY <2>1, <2>2, <2>5, <1>2 DEF InWork, ServiceCalls
    <3>2. InEntry(at'[p]) = 7 /\ InEntry(at[p]) \in 2 .. 3
      BY <3>1 DEF InEntry
    <3> QED BY <1>1, <2>3, <3>1, <3>2
  <2> QED BY <2>4, <2>5
<1> QED BY <1>3, <1>4 DEF Run, ProvisionRaises, LoadRefused, Unresolved, ServiceRaises,
                          EndProvisioning

(* A run leaves what the others have ahead of them as it is.               *)
LEMMA RunsApart ==
    ASSUME InterleavedIInv, NEW q \in Pods, BeginProvisioning(q) \/ Run(q) \/ Kill(q),
           NEW p \in Pods \ {q}
    PROVE  at'[p] = at[p] /\ todo'[p] = todo[p]
BY DEF BeginProvisioning, Run, ProvisionStep, ProvisionRaises, LoadRefused, Unresolved,
       ServiceRaises, EndProvisioning, Kill, Forget, Goto, Load, NextEntry, NoMoreCurrent,
       UpdateCredential, CreateCredential, ResolveCreated, AddToModelList, EnableModel,
       SetDefault, InterleavedIInv, ProvisioningTypeOK

(* A provisioning that has loaded its configuration never goes in a        *)
(* circle, and no other run sends it back: with each of its own steps it   *)
(* has fewer ahead of it (321-363), so it ends if it keeps going.          *)
THEOREM RunsGoForward ==
    AnyOrder => [][\A p \in Pods : at[p] \in Loaded =>
        /\ Run(p) => StepsLeft(p)' < StepsLeft(p)
        /\ StepsLeft(p)' <= StepsLeft(p)]_provisioningVars
<1> DEFINE Forward == \A p \in Pods : at[p] \in Loaded =>
        /\ Run(p) => StepsLeft(p)' < StepsLeft(p)
        /\ StepsLeft(p)' <= StepsLeft(p)
<1>1. ASSUME InterleavedIInv, AnyOrderNext, NEW p \in Pods, at[p] \in Loaded
      PROVE  StepsLeft(p)' <= StepsLeft(p)
  <2>1. CASE Run(p)
    BY <1>1, <2>1, RunGoesForward
  <2>2. StepsLeft(p) \in Nat
    BY <1>1 DEF InterleavedIInv, ProvisioningTypeOK, StepsLeft, InEntry
  <2>3. CASE Kill(p)
    <3>1. at'[p] = "idle" /\ todo'[p] = <<>>
      BY <1>1, <2>3 DEF Kill, Forget, Goto, InterleavedIInv, ProvisioningTypeOK
    <3>2. StepsLeft(p)' = 0
      BY <3>1 DEF StepsLeft, InEntry
    <3> QED BY <2>2, <3>2
  <2>4. CASE at'[p] = at[p] /\ todo'[p] = todo[p]
    <3>1. StepsLeft(p)' = StepsLeft(p)
      BY <2>4 DEF StepsLeft, InEntry
    <3> QED BY <2>2, <3>1
  <2>5. ASSUME NEW q \in Pods \ {p}, BeginProvisioning(q) \/ Run(q) \/ Kill(q)
        PROVE  at'[p] = at[p] /\ todo'[p] = todo[p]
    BY <1>1, <2>5, RunsApart
  <2>6. ~BeginProvisioning(p)
    BY <1>1 DEF BeginProvisioning, Loaded, InWork, ServiceCalls
  <2> QED BY <1>1, <2>1, <2>3, <2>4, <2>5, <2>6 DEF AnyOrderNext
<1>2. InterleavedIInv /\ [AnyOrderNext]_provisioningVars => [Forward]_provisioningVars
  BY <1>1, RunGoesForward
<1> QED BY <1>2, InterleavedInvariance, PTL DEF AnyOrder
=============================================================================
