\* Three workers, four tasks, a task may take two calls of post().
SPECIFICATION FairSpec
CONSTANTS
  Workers = {w1, w2, w3}
  None = None
  MaxTasks = 4
  MaxPosts = 2
INVARIANTS
  PostsInOrder
  WakeupsSuffice
PROPERTIES
  TasksFinish
