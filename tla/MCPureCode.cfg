SPECIFICATION PureSpec
CONSTANTS
  RawNames = {hidraw0, hidraw1}
  NoName = NoName
  OtherName = OtherName
  Fields = {"vendor", "path"}
  MatchFields = {"vendor"}
  NilOption = NilOption
  Items <- MCItems
  ByteValues = {0, 1, 255}
  Units = {1, 65, 255, 256, 19968}
  Lines <- MCLines
  Names <- MCNames
  Lengths = {0, 1, 65, 255, 256, 8192, 16383, 16384}
  Options <- MCOptions
  Devices <- MCDevices
  MaxItems = 3
  MaxBytes = 4
  MaxText = 4
  MaxLines = 3
  MaxOptions = 2
  MaxDevices = 3
INVARIANTS DescriptorsParsed PlatformsAgree  IteratorsSound
CHECK_DEADLOCK FALSE
