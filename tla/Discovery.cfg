SPECIFICATION Spec
CONSTANTS
  Device = {"nameless", "lower", "upper", "stranger", "disguised"}
  Sockets = 3
  Usb <- MCUsb
  Label <- MCLabel
  Firmware <- MCFirmware
  Web = TRUE
  Selectors <- MCSelectors
INVARIANTS OpenIsWanted PermissionSuffices
