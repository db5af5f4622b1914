SPECIFICATION Spec
CONSTANTS
  c1 = c1  c2 = c2  c3 = c3  u1 = u1  u2 = u2
  NoUser = NoUser  NoLobby = NoLobby
  Conns <- Conns3
  Users = {u1, u2}
  UserOf <- Shared3
  MaxSession = 2
  MaxLobby = 1
  MaxPosts = 2
SYMMETRY SharedSymmetry
INVARIANTS NoOrphans InOrder LobbyRefs
PROPERTIES JoinOnce
