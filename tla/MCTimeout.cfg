\* No limit, none of its own, and one among what clients propose.
SPECIFICATION TimerSpec
CONSTANTS
  Limits = {Unset, 0, 3}
  Unset = Unset
  Proposals = {0, 1, 2, 4}
  MaxIdle = 6
  MaxHellos = 2
PROPERTIES NoEarlyClose IdleSocketCloses
