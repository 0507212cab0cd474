\* One line in bip.txt.
SPECIFICATION BlockerSpec
CONSTANTS
  IPLines <- MCIPLines
  ClientIPs <- MCClientIPs
  MaxBlackLines = 1
  MaxWhiteLines = 0
INVARIANTS WrittenRefused
