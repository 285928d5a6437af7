CONSTANTS
  RamSize = 48
  PageSize = 16
  Pages <- MCPages
  Addrs = {0, 12, 32, 48}
  Regs = {0, 4, 8}
  Segs = {4}
  Xmms = {0, 1}
  Insns <- AllInsns
  MaxInsns = 2
SPECIFICATION MovSpec
INVARIANT MovCarries
CHECK_DEADLOCK FALSE
