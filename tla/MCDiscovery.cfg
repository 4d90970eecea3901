SPECIFICATION FairSpec
CONSTANTS
  k1 = k1
  k2 = k2
  k6 = k6
  Keys <- MCKeys
  Addressless <- MCAddressless
  Capacity = 2
INVARIANTS
  TypeOK
  AddresslessIsFatal
PROPERTY AnnouncedIsListed
