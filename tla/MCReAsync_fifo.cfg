CONSTANTS
  w1 = w1
  p1 = p1  p2 = p2  p3 = p3  p4 = p4  p5 = p5
  Posts <- FivePosts
  Workers <- OneWorker
  PipeRoom = 5
SPECIFICATION Spec
INVARIANTS TypeOK NoLostWakeup RunOnce OneList
PROPERTY ImplementsPostQueue
