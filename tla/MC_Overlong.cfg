CONSTANTS
  NSlots = 2
  Cap = 4
  Align = 2
  Page = 1
  HdrLen = 2
  Imgs <- MCImgs
  ImgSize <- MCImgSize
  ImgVer <- MCImgVer
  Running = 1
  ChunkLens = {2}
  HeapCtx = TRUE
  LazyErase = FALSE
  ScanLen = 4
  EraseCmd = FALSE
  MaxFault = 0
  MaxStray = 1
  MaxBoot = 0
SPECIFICATION Spec
INVARIANTS SessionWithinSize
