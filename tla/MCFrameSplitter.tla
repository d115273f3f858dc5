--------------------------- MODULE MCFrameSplitter ---------------------------
(* FrameSplitter for TLC: kinds of traffic, for the .cfg files to choose from. *)
EXTENDS FrameSplitter

AllRings == 0 .. Lasers - 1

\* The last start angle is so near to the azimuth 0 that a step may pass both.
StartAngles == {0, 2, Circle - 1}

\* Rotation without a gap, with equal azimuths, as dual-return blocks have; with
\* one list for each laser the guard looks at laser 0, which then has a return in
\* every packet.
SteadyTraffic ==
  {[structured |-> s, qt |-> FALSE, start |-> a,
    steps |-> {step \in 0 .. Gap - 1 : a = 0 \/ a + step <= Circle},
    valid |-> IF s THEN {{0}, AllRings} ELSE {{}, AllRings}, packets |-> 4, restarts |-> 0] :
   s \in BOOLEAN, a \in StartAngles}

\* Packets are lost, or arrive late, so that the azimuth leaps forward, short of a
\* whole turn, or steps back; lasers have no return; the driver restarts.
RoughTraffic ==
  {[structured |-> s, qt |-> q, start |-> a, steps |-> {-1, Gap - 1, Gap, Circle - 1},
    valid |-> {{}, AllRings}, packets |-> 3, restarts |-> 1] :
   <<s, q>> \in {<<FALSE, FALSE>>, <<TRUE, FALSE>>, <<TRUE, TRUE>>}, a \in StartAngles}

AllTraffic == SteadyTraffic \cup RoughTraffic

\* One leap of Gap is enough for a turn to end unnoticed.
LossyTraffic ==
  {[structured |-> FALSE, qt |-> FALSE, start |-> 2, steps |-> 0 .. Circle - 1,
    valid |-> {{}, AllRings}, packets |-> 4, restarts |-> 0]}
=============================================================================
