------------------------- MODULE ToolExposureProofs -------------------------
(***************************************************************************)
(* That tools/list and tools/call decide alike, for any list of descriptors *)
(* the wallet agent may send, of any length and with any duplicates.        *)
(*                                                                          *)
(* The descriptors change once, before the host is served; ServedInv says   *)
(* so.  What the host was answered or shown can therefore be explained by   *)
(* the descriptors of any later state, and that explanation, answer by      *)
(* answer, is the inductive invariant.                                      *)
(***************************************************************************)
EXTENDS ToolExposure, WellFoundedInduction, TLAPS

-----------------------------------------------------------------------------
(* The two ways to look a descriptor up. *)

(* tools/call finds the first descriptor of a name that has one.            *)
LEMMA FirstOfDescribes ==
  ASSUME tools \in Seq(Descriptor), NEW name, Described(name)
  PROVE  /\ FirstOf(name) \in DOMAIN tools
         /\ tools[FirstOf(name)].name = name
         /\ \A j \in DOMAIN tools : tools[j].name = name => FirstOf(name) <= j
PROOF
  <1> DEFINE S == {i \in DOMAIN tools : tools[i].name = name}
  <1>1. S \subseteq Nat /\ S # {}
    BY DEF Described
  <1>2. PICK x \in S : \A y \in S : ~ (<<y, x>> \in OpToRel(<, Nat))
    BY <1>1, WFMin, NatLessThanWellFounded
  <1>3. ASSUME NEW y \in S PROVE x <= y
    <2>1. x \in Nat /\ y \in Nat
      BY <1>1
    <2>2. ~ (y < x)
      BY <1>2, <2>1 DEF OpToRel
    <2> QED
      BY <2>1, <2>2
  <1>4. /\ x \in DOMAIN tools /\ tools[x].name = name
        /\ \A j \in DOMAIN tools : tools[j].name = name => x <= j
    BY <1>2, <1>3
  <1> QED
    BY <1>4 DEF FirstOf

(* filterHostExposedTools finds the last descriptor of a name that has one.  *)
LEMMA LastOfDescribes ==
  ASSUME tools \in Seq(Descriptor), NEW k \in DOMAIN tools
  PROVE  LastOf(tools[k].name) \in DOMAIN tools
PROOF
  <1> DEFINE n == Len(tools)
             T == {z \in 0 .. n : /\ n - z \in DOMAIN tools
                                  /\ tools[n - z].name = tools[k].name}
  <1>1. n \in Nat /\ DOMAIN tools = 1 .. n /\ k \in 1 .. n
    OBVIOUS
  <1>2. T \subseteq Nat /\ T # {}
    <2>1. n - k \in 0 .. n /\ n - (n - k) = k
      BY <1>1
    <2> QED
      BY <1>1, <2>1
  <1>3. PICK x \in T : \A y \in T : ~ (<<y, x>> \in OpToRel(<, Nat))
    BY <1>2, WFMin, NatLessThanWellFounded
  <1>4. n - x \in DOMAIN tools /\ tools[n - x].name = tools[k].name /\ x \in Nat
    BY <1>2, <1>3
  <1>5. ASSUME NEW j \in DOMAIN tools, tools[j].name = tools[k].name
        PROVE  j <= n - x
    <2>1. j \in 1 .. n /\ n - j \in 0 .. n /\ n - (n - j) = j
      BY <1>1
    <2>2. n - j \in T
      BY <1>5, <2>1
    <2> HIDE DEF T, n
    <2>3. ~ (<<n - j, x>> \in OpToRel(<, Nat))
      BY <1>3, <2>2
    <2>4. n - j \in Nat
      BY <1>1, <2>1
    <2>5. ~ (n - j < x)
      BY <1>4, <2>3, <2>4 DEF OpToRel
    <2> QED
      BY <1>1, <1>4, <2>1, <2>5
  <1> HIDE DEF T, n
  <1> QED
    BY <1>4, <1>5 DEF LastOf

(* Without duplicates a name has one descriptor, whichever way it is found. *)
LEMMA UniqueDescriptor ==
  ASSUME tools \in Seq(Descriptor), UniqueNames, NEW i \in DOMAIN tools
  PROVE  FirstOf(tools[i].name) = i /\ LastOf(tools[i].name) = i
PROOF
  <1>1. \A j \in DOMAIN tools : tools[j].name = tools[i].name => j = i
    BY DEF UniqueNames
  <1>2. i \in Nat
    OBVIOUS
  <1>3. FirstOf(tools[i].name) = i
    BY <1>1, FirstOfDescribes DEF Described
  <1>4. /\ LastOf(tools[i].name) \in DOMAIN tools
        /\ tools[LastOf(tools[i].name)].name = tools[i].name
    <2>1. \A j \in DOMAIN tools : tools[j].name = tools[i].name => j <= i
      BY <1>1, <1>2
    <2> QED
      BY <2>1 DEF LastOf
  <1> QED
    BY <1>1, <1>3, <1>4

(* The registry shows only what is registered and has the right schema.     *)
LEMMA VisibleIsRegistered ==
  ASSUME NEW name, NEW schema, Resolve(name, schema) = "visible"
  PROVE  name \in Registered /\ schema = "registered"
BY DEF Resolve

(* The answers of the registry.                                             *)
LEMMA ResolveShape ==
  ASSUME NEW name, NEW schema
  PROVE  /\ Resolve(name, schema) \in RegistryRefusals \cup {"visible"}
         /\ Resolve(name, schema) = "SCHEMA_DRIFT" =>
              name \in Registered /\ schema # "registered"
BY DEF Resolve, RegistryRefusals

(* A visible call has a descriptor that is visible, or there is an outage   *)
(* and the tool is registered.                                              *)
LEMMA VisibleForCall ==
  ASSUME tools \in Seq(Descriptor), NEW name, ResolveForCall(name) = "visible"
  PROVE  /\ name \in Registered
         /\ Connected \/ Described(name) =>
              \E i \in DOMAIN tools :
                tools[i].name = name /\ Resolve(tools[i].name, tools[i].schema) = "visible"
PROOF
  <1>1. CASE Described(name)
    <2>1. Resolve(name, tools[FirstOf(name)].schema) = "visible"
      BY <1>1 DEF ResolveForCall
    <2> QED
      BY <1>1, <2>1, FirstOfDescribes, VisibleIsRegistered
  <1>2. CASE ~ Described(name)
    <2>1. "absent" # "registered"
      OBVIOUS
    <2>2. Resolve(name, "absent") # "visible"
      BY <2>1, VisibleIsRegistered
    <2>3. ~ Connected /\ Resolve(name, "absent") = "SCHEMA_DRIFT"
      BY <1>2, <2>2 DEF ResolveForCall
    <2> QED
      BY <1>2, <2>3, ResolveShape
  <1> QED
    BY <1>1, <1>2

-----------------------------------------------------------------------------
(* The inductive invariant. *)

(* Nobody is served before connect has ended; without a connection there    *)
(* are no descriptors.                                                      *)
ServedInv ==
  /\ link = "starting" => hostTools = {} /\ answer = [c \in Calls |-> "none"]
  /\ link \in {"starting", "failed"} => tools = <<>>

(* What the host was shown is a descriptor that is exposed, with the schema *)
(* that its name stands for.                                                *)
ShownInv ==
  \A d \in hostTools : \E i \in DOMAIN tools :
    /\ Exposed(i)
    /\ d.name = tools[i].name
    /\ d.schema = tools[LastOf(tools[i].name)].schema

ExposureInv ==
  /\ TypeOK /\ ServedInv /\ ShownInv
  /\ AdmittedIsExposed /\ OutageWidensNothing /\ DriftIsReported

(* The invariant holds initially.                                           *)
LEMMA ExposureInit == Init => ExposureInv
PROOF
  <1> SUFFICES ASSUME Init PROVE ExposureInv
    OBVIOUS
  <1>1. TypeOK
    <2>1. guarded \in BOOLEAN
      BY DEF Init, BuildsRunner
    <2> QED
      BY <2>1 DEF Init, TypeOK
  <1>2. ServedInv /\ ShownInv
    BY DEF Init, ServedInv, ShownInv
  <1>3. AdmittedIsExposed /\ OutageWidensNothing /\ DriftIsReported
    BY DEF Init, AdmittedIsExposed, OutageWidensNothing, DriftIsReported
  <1> QED
    BY <1>1, <1>2, <1>3 DEF ExposureInv

(* Connecting and failing to come before anything is served.                *)
LEMMA ConnectPreserves ==
  ExposureInv /\ (Connect \/ ConnectFails) => ExposureInv'
PROOF
  <1> SUFFICES ASSUME ExposureInv, Connect \/ ConnectFails PROVE ExposureInv'
    OBVIOUS
  <1>1. hostTools = {} /\ answer = [c \in Calls |-> "none"] /\ tools = <<>>
    BY DEF ExposureInv, ServedInv, Connect, ConnectFails
  <1>2. /\ hostTools' = {} /\ answer' = [c \in Calls |-> "none"]
        /\ guarded' = guarded /\ asked' = asked
    BY <1>1 DEF Connect, ConnectFails
  <1>3. tools' \in Seq(Descriptor) /\ link' \in {"up", "failed"}
    <2>1. CASE Connect
      BY <2>1 DEF Connect
    <2>2. CASE ConnectFails
      BY <1>1, <2>2 DEF ConnectFails
    <2> QED
      BY <2>1, <2>2
  <1>4. link' = "failed" => tools' = <<>>
    BY <1>1 DEF Connect, ConnectFails
  <1>5. TypeOK'
    BY <1>2, <1>3 DEF ExposureInv, TypeOK
  <1>6. ServedInv' /\ ShownInv'
    BY <1>2, <1>3, <1>4 DEF ServedInv, ShownInv
  <1>7. AdmittedIsExposed' /\ OutageWidensNothing' /\ DriftIsReported'
    BY <1>2 DEF AdmittedIsExposed, OutageWidensNothing, DriftIsReported
  <1> QED
    BY <1>5, <1>6, <1>7 DEF ExposureInv

(* A shutdown keeps the descriptors.                                        *)
LEMMA ShutdownPreserves == ExposureInv /\ Shutdown => ExposureInv'
BY DEF Shutdown, ExposureInv, TypeOK, ServedInv, ShownInv, AdmittedIsExposed,
   OutageWidensNothing, DriftIsReported, Exposed, LastOf

(* tools/list shows exposed descriptors.                                    *)
LEMMA ServeListPreserves == ExposureInv /\ ServeList => ExposureInv'
PROOF
  <1> SUFFICES ASSUME ExposureInv, ServeList PROVE ExposureInv'
    OBVIOUS
  <1>1. /\ guarded' = guarded /\ link' = link /\ tools' = tools
        /\ asked' = asked /\ answer' = answer /\ link # "starting"
        /\ hostTools' = HostList
    BY DEF ServeList
  <1>2. \A d \in HostList : \E i \in DOMAIN tools :
          /\ Exposed(i)
          /\ d.name = tools[i].name
          /\ d.schema = tools[LastOf(tools[i].name)].schema
    BY DEF HostList
  <1>3. ShownInv'
    BY <1>1, <1>2 DEF ShownInv, Exposed, LastOf
  <1>4. HostList \subseteq Descriptor
    <2> SUFFICES ASSUME NEW i \in DOMAIN tools
                 PROVE  [name |-> tools[i].name,
                         schema |-> tools[LastOf(tools[i].name)].schema] \in Descriptor
      BY DEF HostList
    <2>1. tools[i] \in Descriptor /\ tools \in Seq(Descriptor)
      BY DEF ExposureInv, TypeOK
    <2>2. LastOf(tools[i].name) \in DOMAIN tools
      BY <2>1, LastOfDescribes
    <2>3. tools[LastOf(tools[i].name)] \in Descriptor
      BY <2>1, <2>2
    <2> QED
      BY <2>1, <2>3 DEF Descriptor
  <1>5. TypeOK'
    BY <1>1, <1>4 DEF ExposureInv, TypeOK
  <1>6. ServedInv'
    BY <1>1 DEF ExposureInv, ServedInv
  <1>7. AdmittedIsExposed' /\ OutageWidensNothing' /\ DriftIsReported'
    BY <1>1 DEF ExposureInv, AdmittedIsExposed, OutageWidensNothing, DriftIsReported, Exposed
  <1> QED
    BY <1>3, <1>5, <1>6, <1>7 DEF ExposureInv

(* An answer given now explains itself by the descriptors of now.           *)
LEMMA CallPreserves ==
  ASSUME ExposureInv, NEW c \in Calls, NEW name \in Names, Call(c, name)
  PROVE  ExposureInv'
PROOF
  <1>1. PICK result : Answers(c, name, result)
                      /\ \/ result \in {"meta", "MISSING_REQUIRED_EVIDENCE",
                                       "POLICY_BLOCKED", "INTERNAL_ERROR"}
                         \/ result = ResolveForCall(name) /\ result # "visible"
                         \/ result = "UPSTREAM_UNAVAILABLE" /\ PlanForwards(name)
                         \/ result = "admitted" /\ PlanForwards(name) /\ Connected
    <2>1. CASE CallMeta(c, name)
      BY <2>1 DEF CallMeta
    <2>2. CASE CallMalformed(c, name)
      BY <2>2 DEF CallMalformed
    <2>3. CASE CallRefusedByRegistry(c, name)
      BY <2>3 DEF CallRefusedByRegistry
    <2>4. CASE CallRefusedByDefault(c, name)
      BY <2>4 DEF CallRefusedByDefault
    <2>5. CASE CallUnavailable(c, name)
      BY <2>5 DEF CallUnavailable
    <2>6. CASE CallAdmitted(c, name)
      BY <2>6 DEF CallAdmitted
    <2>7. CASE CallUnaudited(c, name)
      BY <2>7 DEF CallUnaudited
    <2> QED
      BY <2>1, <2>2, <2>3, <2>4, <2>5, <2>6, <2>7 DEF Call
  <1>2. /\ guarded' = guarded /\ link' = link /\ tools' = tools /\ hostTools' = hostTools
        /\ link # "starting"
        /\ asked' = [asked EXCEPT ![c] = name]
        /\ answer' = [answer EXCEPT ![c] = result]
    BY <1>1 DEF Answers
  <1>3. tools \in Seq(Descriptor) /\ asked \in [Calls -> Names \cup {None}]
        /\ DOMAIN answer = Calls
    BY DEF ExposureInv, TypeOK
  <1>4. /\ asked'[c] = name /\ answer'[c] = result
        /\ \A d \in Calls : d # c => asked'[d] = asked[d] /\ answer'[d] = answer[d]
    BY <1>2, <1>3
  <1>5. result \in RegistryRefusals \cup
                     {"none", "meta", "admitted", "POLICY_BLOCKED", "INTERNAL_ERROR",
                      "UPSTREAM_UNAVAILABLE", "MISSING_REQUIRED_EVIDENCE"}
    <2>1. ResolveForCall(name) \in RegistryRefusals \cup {"visible"}
      BY ResolveShape DEF ResolveForCall
    <2> QED
      BY <1>1, <2>1
  <1>6. TypeOK'
    BY <1>2, <1>5 DEF ExposureInv, TypeOK
  <1>7. ServedInv' /\ ShownInv'
    BY <1>2 DEF ExposureInv, ServedInv, ShownInv, Exposed, LastOf
  <1>8. result = "admitted" =>
          \E i \in DOMAIN tools : tools[i].name = name /\ Exposed(i)
    <2> SUFFICES ASSUME result = "admitted"
                 PROVE  \E i \in DOMAIN tools : tools[i].name = name /\ Exposed(i)
      OBVIOUS
    <2>1. PlanForwards(name) /\ Connected
      BY <1>1, ResolveShape DEF ResolveForCall, RegistryRefusals
    <2>2. PICK i \in DOMAIN tools :
            tools[i].name = name /\ Resolve(tools[i].name, tools[i].schema) = "visible"
      BY <1>3, <2>1, VisibleForCall DEF PlanForwards
    <2> QED
      BY <2>1, <2>2 DEF PlanForwards, Exposed
  <1>9. AdmittedIsExposed'
    BY <1>2, <1>4, <1>8 DEF ExposureInv, AdmittedIsExposed, Exposed
  <1>10. result \in {"admitted", "UPSTREAM_UNAVAILABLE"} =>
           name \in Registered /\ (~ guarded => name \in DefaultAllow)
    <2> SUFFICES ASSUME result \in {"admitted", "UPSTREAM_UNAVAILABLE"}
                 PROVE  name \in Registered /\ (~ guarded => name \in DefaultAllow)
      OBVIOUS
    <2>1. PlanForwards(name)
      BY <1>1, ResolveShape DEF ResolveForCall, RegistryRefusals
    <2> QED
      BY <1>3, <2>1, VisibleForCall DEF PlanForwards
  <1>11. OutageWidensNothing'
    BY <1>2, <1>4, <1>10 DEF ExposureInv, OutageWidensNothing
  <1>12. result = "SCHEMA_DRIFT" =>
           /\ link \in {"up", "closed"}
           /\ \A i \in DOMAIN tools :
                tools[i].name = name /\ tools[i].schema = "registered"
                  => \E j \in 1 .. i : tools[j].name = name /\ tools[j].schema # "registered"
    <2> SUFFICES ASSUME ResolveForCall(name) = "SCHEMA_DRIFT"
                 PROVE  /\ link \in {"up", "closed"}
                        /\ \A i \in DOMAIN tools :
                             tools[i].name = name /\ tools[i].schema = "registered"
                               => \E j \in 1 .. i : tools[j].name = name
                                                  /\ tools[j].schema # "registered"
      BY <1>1
    <2>1. CASE Described(name)
      <3>1. tools # <<>>
        BY <2>1 DEF Described
      <3>2. link \in {"up", "closed"}
        BY <1>2, <3>1 DEF ExposureInv, TypeOK, ServedInv
      <3>3. tools[FirstOf(name)].schema # "registered"
        BY <2>1, ResolveShape DEF ResolveForCall
      <3>4. /\ tools[FirstOf(name)].name = name
            /\ FirstOf(name) \in DOMAIN tools
            /\ \A i \in DOMAIN tools : tools[i].name = name => FirstOf(name) <= i
        BY <1>3, <2>1, FirstOfDescribes
      <3>5. ASSUME NEW i \in DOMAIN tools, tools[i].name = name
            PROVE  FirstOf(name) \in 1 .. i
        BY <1>3, <3>4, <3>5
      <3> QED
        BY <3>2, <3>3, <3>4, <3>5
    <2>2. CASE ~ Described(name)
      <3>1. Connected
        BY <2>2 DEF ResolveForCall
      <3> QED
        BY <2>2, <3>1 DEF Connected, Described
    <2> QED
      BY <2>1, <2>2
  <1>13. DriftIsReported'
    BY <1>2, <1>4, <1>12 DEF ExposureInv, DriftIsReported
  <1> QED
    BY <1>6, <1>7, <1>9, <1>11, <1>13 DEF ExposureInv

(* No step disturbs the invariant.                                          *)
LEMMA ExposureStep == ExposureInv /\ [Next]_vars => ExposureInv'
PROOF
  <1>1. ExposureInv /\ UNCHANGED vars => ExposureInv'
    <2> SUFFICES ASSUME ExposureInv, UNCHANGED vars PROVE ExposureInv'
      OBVIOUS
    <2>1. /\ guarded' = guarded /\ link' = link /\ tools' = tools
          /\ hostTools' = hostTools /\ asked' = asked /\ answer' = answer
      BY DEF vars
    <2>2. TypeOK' /\ ServedInv' /\ DriftIsReported' /\ OutageWidensNothing'
      BY <2>1 DEF ExposureInv, TypeOK, ServedInv, DriftIsReported, OutageWidensNothing
    <2>3. ShownInv' /\ AdmittedIsExposed'
      BY <2>1 DEF ExposureInv, ShownInv, AdmittedIsExposed, Exposed, LastOf
    <2> QED
      BY <2>2, <2>3 DEF ExposureInv
  <1> QED
    BY <1>1, ConnectPreserves, ShutdownPreserves, ServeListPreserves, CallPreserves DEF Next

(* The inductive invariant: every answer and every tool shown is explained  *)
(* by the descriptors.                                                      *)
THEOREM ExposureInvariance == Spec => []ExposureInv
PROOF
  <1> QED
    BY ExposureInit, ExposureStep, PTL DEF Spec

-----------------------------------------------------------------------------
(* Every variable keeps its shape; a call is answered with one of the codes *)
(* of the handler.                                                          *)
THEOREM ExposureTypeCorrect == Spec => []TypeOK
PROOF
  <1>1. ExposureInv => TypeOK
    BY DEF ExposureInv
  <1> QED
    BY <1>1, ExposureInvariance, PTL

(* A call that is let through is for a tool tools/list shows.               *)
THEOREM AdmittedIsExposedHolds == Spec => []AdmittedIsExposed
PROOF
  <1>1. ExposureInv => AdmittedIsExposed
    BY DEF ExposureInv
  <1> QED
    BY <1>1, ExposureInvariance, PTL

(* An outage lets no further name through.                                  *)
THEOREM OutageWidensNothingHolds == Spec => []OutageWidensNothing
PROOF
  <1>1. ExposureInv => OutageWidensNothing
    BY DEF ExposureInv
  <1> QED
    BY <1>1, ExposureInvariance, PTL

(* Schema drift is reported on the evidence of the upstream's own list.     *)
THEOREM DriftIsReportedHolds == Spec => []DriftIsReported
PROOF
  <1>1. ExposureInv => DriftIsReported
    BY DEF ExposureInv
  <1> QED
    BY <1>1, ExposureInvariance, PTL

(* The host is shown registered schemas, unless a name is listed twice.     *)
THEOREM ShownAsRegisteredHolds == Spec => []ShownAsRegistered
PROOF
  <1>1. ExposureInv => ShownAsRegistered
    <2> SUFFICES ASSUME ExposureInv, UniqueNames, NEW d \in hostTools
                 PROVE  d.name \in Registered /\ d.schema = "registered"
      BY DEF ShownAsRegistered
    <2>1. PICK i \in DOMAIN tools :
            /\ Exposed(i)
            /\ d.name = tools[i].name
            /\ d.schema = tools[LastOf(tools[i].name)].schema
      BY DEF ExposureInv, ShownInv
    <2>2. LastOf(tools[i].name) = i
      BY UniqueDescriptor DEF ExposureInv, TypeOK
    <2>3. Resolve(tools[i].name, tools[i].schema) = "visible"
      BY <2>1 DEF Exposed
    <2> QED
      BY <2>1, <2>2, <2>3, VisibleIsRegistered
  <1> QED
    BY <1>1, ExposureInvariance, PTL

(* A tool the host was shown is not refused by the registry later.          *)
THEOREM ListedIsCallableHolds == Spec => ListedIsCallable
PROOF
  <1>1. ASSUME ExposureInv, [Next]_vars, UniqueNames,
               NEW c \in Calls, answer[c] # answer'[c],
               NEW d \in hostTools, d.name = asked'[c]
        PROVE  answer'[c] \notin RegistryRefusals \cup {"POLICY_BLOCKED"}
    <2>1. PICK b \in Calls, name \in Names : Call(b, name)
      <3>1. Connect \/ ConnectFails \/ Shutdown \/ ServeList \/ UNCHANGED vars
              => answer' = answer
        BY DEF Connect, ConnectFails, Shutdown, ServeList, vars
      <3> QED
        BY <1>1, <3>1 DEF Next
    <2>2. PICK result : Answers(b, name, result)
            /\ \/ result \in {"meta", "MISSING_REQUIRED_EVIDENCE", "INTERNAL_ERROR",
                             "UPSTREAM_UNAVAILABLE", "admitted"}
               \/ result = ResolveForCall(name) /\ ResolveForCall(name) # "visible"
               \/ result = "POLICY_BLOCKED" /\ ~ PlanForwards(name)
                    /\ ResolveForCall(name) = "visible"
      BY <2>1 DEF Call, CallMeta, CallMalformed, CallRefusedByRegistry,
           CallRefusedByDefault, CallUnavailable, CallAdmitted, CallUnaudited
    <2>3. DOMAIN answer = Calls /\ DOMAIN asked = Calls /\ tools \in Seq(Descriptor)
      BY <1>1 DEF ExposureInv, TypeOK
    <2>4. b = c /\ asked'[c] = name /\ answer'[c] = result
      BY <1>1, <2>2, <2>3 DEF Answers
    <2>5. PICK i \in DOMAIN tools : Exposed(i) /\ d.name = tools[i].name
      BY <1>1 DEF ExposureInv, ShownInv
    <2>6. Described(name) /\ FirstOf(name) = i
      BY <1>1, <2>3, <2>4, <2>5, UniqueDescriptor DEF Described
    <2>7. ResolveForCall(name) = "visible" /\ PlanForwards(name)
      BY <1>1, <2>4, <2>5, <2>6 DEF Exposed, ResolveForCall, PlanForwards
    <2>8. result \in {"meta", "MISSING_REQUIRED_EVIDENCE", "INTERNAL_ERROR",
                      "UPSTREAM_UNAVAILABLE", "admitted"}
      BY <2>2, <2>7
    <2> QED
      BY <2>4, <2>8 DEF RegistryRefusals
  <1>2. ExposureInv /\ [Next]_vars =>
          [UniqueNames =>
             \A c \in Calls :
               answer[c] # answer'[c] /\ (\E d \in hostTools : d.name = asked'[c])
                 => answer'[c] \notin RegistryRefusals \cup {"POLICY_BLOCKED"}]_vars
    BY <1>1
  <1> QED
    BY <1>2, ExposureInvariance, PTL DEF Spec, ListedIsCallable

=============================================================================
