CONSTANTS
  NSlots = 2
  Cap = 4
  Align = 2
  Page = 1
  HdrLen = 2
  Imgs <- MCImgs
  ImgSize <- MCImgSize
  ImgVer <- MCImgVer
  Running = 1
  ChunkLens = {2, 3}
  HeapCtx = TRUE
  LazyErase = FALSE
  ScanLen = 4
  EraseCmd = TRUE
  MaxFault = 1
  MaxStray = 1
  MaxBoot = 1
SPECIFICATION Spec
PROPERTIES CompletedUploadIntact
