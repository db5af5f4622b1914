SPECIFICATION FairSpec
CONSTANTS
  c1 = c1  c2 = c2  c3 = c3  u1 = u1  u2 = u2
  NoUser = NoUser  NoLobby = NoLobby
  Conns <- Conns2
  Users = {u1, u2}
  UserOf <- OwnUser2
  MaxSession = 3
  MaxLobby = 0
  MaxPosts = 3
INVARIANTS OwnSession NoLostPost
PROPERTIES PostsFlushed StopDrains
