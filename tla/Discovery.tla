----------------------------- MODULE Discovery -----------------------------
(***************************************************************************)
(* EndpointSliceDiscoverer.Discover (internal/discovery/endpointslice.go): *)
(* from the EndpointSlices of a Service to the endpoint list that          *)
(* BackendPool calls a listing. A failed List, or options without a        *)
(* namespace or a service, is an error and discoverOnce keeps the snapshot.*)
(*                                                                         *)
(* An optional value that is nil is "nil"; the URL of an endpoint is its   *)
(* address and port, which JoinHostPort keeps apart.                       *)
(***************************************************************************)
EXTENDS Integers, SequencesExt

CONSTANTS
  Pods,      \* names a TargetRef can have
  Addresses,
  NoPod      \* no TargetRef, or one without a name

\* No pod is named like an address; the code does not tell them apart.
ASSUME PodsAssumption ==
  /\ Pods \cap Addresses = {}
  /\ NoPod \notin Pods \cup Addresses

Optional == {"nil", "true", "false"}

Conditions == [Terminating : Optional, Serving : Optional, Ready : Optional]

\* Mutant: every port that fits is taken.
choosePorts(ports, portName) ==
  SelectSeq(ports, LAMBDA p : p.Port # "nil" /\ portName \in {"", p.Name})

\* The first port with a number that has the name, or any name if none is
\* asked for. No port is the empty sequence.
choosePort(ports, portName) ==
  LET fit == {j \in DOMAIN ports :
                ports[j].Port # "nil" /\ portName \in {"", ports[j].Name}}
  IN  IF fit = {} THEN <<>> ELSE <<ports[Min(fit)]>>

\* Mutant: terminating endpoints are not passed over.
endpointServing(c) ==
  IF c.Serving = "nil" THEN c.Ready # "false" ELSE c.Serving = "true"

\* Serving counts before Ready; what is not known counts as ready.
endpointReady(c) ==
  /\ c.Terminating # "true"
  /\ IF c.Serving = "nil" THEN c.Ready # "false" ELSE c.Serving = "true"

\* Mutant: the pod is not asked for its name.
endpointIDAddress(ep, address) == address

endpointID(ep, address) == IF ep.Pod = NoPod THEN address ELSE ep.Pod

\* The endpoints of a slice in order: one for each address of each ready one.
FromSlice(slice, portName) ==
  LET of(ep, port) ==
        IF endpointReady(ep.Conditions)
        THEN [k \in DOMAIN ep.Addresses |->
                [ID  |-> endpointID(ep, ep.Addresses[k]),
                 URL |-> <<ep.Addresses[k], port.Port>>]]
        ELSE <<>>
      per(port) == FlattenSeq([i \in DOMAIN slice.Endpoints |->
                                 of(slice.Endpoints[i], port)])
      chosen == choosePort(slice.Ports, portName)
  IN  FlattenSeq([j \in DOMAIN chosen |-> per(chosen[j])])

\* The port name is DISCOVERY_PORT_NAME, "" if it is not set.
Discover(slices, portName) ==
  FlattenSeq([i \in DOMAIN slices |-> FromSlice(slices[i], portName)])
=============================================================================
