SPECIFICATION FairSpec
CONSTANTS
  snapshots = snapshots
  surfaces = surfaces
  scipy = scipy
  torch = torch
  risk = risk
  Topics = {snapshots, surfaces}
  Subscribers = {scipy, torch, risk}
  TopicOf <- MCTopicOf
  MaxEvents = 2
INVARIANT NoLostWakeup
PROPERTIES Conflates Delivered
