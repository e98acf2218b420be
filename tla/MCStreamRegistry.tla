-------------------------- MODULE MCStreamRegistry --------------------------
(* Instances of StreamRegistry for TLC.                                    *)
EXTENDS StreamRegistry, TLC, FiniteSetsExt

CONSTANTS d1, d2, m1, m2

\* One manager of device streams.
DeviceKind == (m1 :> "device")
\* One manager of a data frame.
FrameKind == (m1 :> "frame")
\* m1 makes a device request, m2 a frame request.
BothKinds == (m1 :> "device") @@ (m2 :> "frame")

AllDevices == [m \in Managers |-> {}]
\* Every manager asked for d1 alone.
OnlyD1 == [m \in Managers |-> {d1}]

\* Bound: one manager is requested in a behaviour.
OneRequest == Cardinality({m \in Managers : upc[m] # "none"}) <= 1

\* MaxCalls never stops a thread: a device request opens at most one stream per
\* device it wants, a frame request one, and an event one per manager that wants it.
Wanted(m) == {d \in Devices : IsDeviceDataRequested(m, d)}
OpenedByRequest(m) == IF Kind[m] = "frame" THEN 1 ELSE Cardinality(Wanted(m))
OpenedByEvent == Max({Cardinality({m \in Managers : d \in Wanted(m)}) : d \in Devices})
ASSUME EnoughCalls ==
    MaxCalls >= MapThenSumSet(OpenedByRequest, Managers) + MaxEvents * OpenedByEvent
=============================================================================
