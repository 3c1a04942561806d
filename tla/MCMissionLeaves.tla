--------------------------- MODULE MCMissionLeaves --------------------------
EXTENDS MissionLeaves

With(name, options) == {[name |-> name, ports |-> p] : p \in options}

Lateral ==
  {{}, {"loss"}, {"lock_target"}, {"velocity_alignment", "loss"}, {"use_detection_distance"},
   {"velocity_alignment", "use_detection_distance"},
   {"lock_target", "reset_timeout_on_lock", "use_detection_distance"}}

MCLeaves ==
  UNION {With(n, {{}}) : n \in {"SelectGateRole", "AlignToDetection", "SweepAngle",
                                "ForwardFixedTransit", "DownSweepAlign", "AltitudeSetpoint",
                                "NavigateToTransform", "TimedVelocity", "Spin", "WaitUntilHit",
                                "OctagonSurfaceSweep"}}
  \cup With("WaitForDetection", SUBSET {"after_first_frame"})
  \cup With("SearchForDetection", SUBSET {"sweep", "no_timeout", "after_first_frame"})
  \cup With("LateralAlignToDetection", Lateral)
  \cup With("ForwardContinuousAlign", SUBSET {"stop_on_close", "loss_is_success", "continue_on_loss"})
  \cup With("OrientToDetectionAtDist", SUBSET {"require_heading"})
  \cup With("SquareUpToGate", SUBSET {"loss"})
  \cup With("DownForwardAlign", SUBSET {"sweep"})
  \cup With("DownAlignToDetection", SUBSET {"orient", "require_orientation"})
  \cup UNION {With(n, SUBSET {"no_axes"}) : n \in {"PosSetpoint", "AttSetpoint", "AddAttSetpoint",
                                                   "MoveRelative"}}
=============================================================================
