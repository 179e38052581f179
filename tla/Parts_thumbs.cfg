SPECIFICATION Spec

CONSTANTS
  Parts = {"upload"}
  Galleries <- MCGalleries
  Views = {"i1", "i2"}
  Widths <- MCWidths
  FlushEvery = 2
  MaxTime = 3
  MaxViews = 2
  CallMethods <- MCMethods
  Statuses = {200, 204, 301, 400, 401, 403, 404, 409, 500, 502}
  Cells <- MCCells
  Terms <- MCTerms
  MaxClicks = 4
  ImageTimes = {1, 2}
  TextTimes = {0, 1, 2, 3}
  MaxImages = 3
  MaxTexts = 2
  Photos = {"p1", "p2"}
  Sizes = {"300w"}
  Derived <- MCDerived
  Soft = {"blur", "phash"}
  Labels = {"geo", "classes", "descriptions"}
  Jobs = {1, 2}
  Texts = {"t1"}

CONSTRAINT OneMeasured

INVARIANT ThumbsReleaseImage

CHECK_DEADLOCK FALSE
