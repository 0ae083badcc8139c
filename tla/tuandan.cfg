\* Up to four lines in the three files, then two offers; IsFatherSon follows
\* two links, so that the limit is met.
SPECIFICATION Spec
CONSTANTS
    Inside <- MCInside
    Stem <- MCStem
    County = {"mi_xian"}
    Short = {"x"}
    CityLines <- MCCityLines
    LandmarkLines <- MCLandmarkLines
    ShopLines <- MCShopLines
    ShortShop = {"bar"}
    Junk = {"", "j"}
    Texts <- MCTexts
    Climbs = 2
    MaxLines = 4
    MaxOffers = 2
INVARIANTS TypeOK Known LandmarksInCity NoLandmarkLost CityFromFiles
CHECK_DEADLOCK FALSE
